----------------------------- MODULE NetworkProofs ------------------------------
(***************************************************************************)
(* What a node tells its peers (Broadcaster), and which peers it knows     *)
(* (Peers).                                                                *)
(*                                                                         *)
(* For any transactions and any number of blocks and deletions: the        *)
(* headers are those of the last block once their update is done, if       *)
(* nothing has crossed it; and what was enqueued leaves the queue for a    *)
(* reason.  For any peers, limits and restarts: what the node holds of a   *)
(* connected peer the peer has told itself, and the node never posts to    *)
(* itself.                                                                 *)
(*                                                                         *)
(* The database may answer with any of the chains that it has seen since   *)
(* it was asked.  The invariant is that without one of the excuses there   *)
(* is one update under way at most, and it has seen the last block only.   *)
(*                                                                         *)
(* The filter is a fold over the queue.  What it leaves is proved for the  *)
(* shortest beginning of the queue for which it would fail.                *)
(*                                                                         *)
(* That the node never posts to itself needs to be strengthened.  The own  *)
(* address may well be in the table, under the nonce of an earlier start,  *)
(* and is acceptable then; but to become connected the node must have      *)
(* answered itself, and then the entry has the nonce of this start, by     *)
(* which it is left out.                                                   *)
(***************************************************************************)
EXTENDS Broadcaster, Peers, FiniteSetTheorems, SequenceTheorems, WellFoundedInduction, TLAPS

(***************************************************************************)
(*                          The broadcaster                                *)
(***************************************************************************)

\* One update that can only read the last block, or headers that are up to date
UpToDate ==
  \/ updates = <<>> /\ broadhash = Tip
  \/ updates = <<{Tip}>>

IInv ==
  /\ chain \in Seq(SUBSET Transaction)
  /\ outdated = {} => UpToDate

-----------------------------------------------------------------------------
LEMMA AppendEmpty ==
  ASSUME NEW x
  PROVE  Append(<<>>, x) = <<x>>
OBVIOUS

\* A longer chain: the update that onNewBlock asks for is the first one.
LEMMA NewBlockKeeps ==
  ASSUME IInv, NEW B \in SUBSET Transaction, NEW broadcast \in BOOLEAN,
         NewBlock(B, broadcast)
  PROVE  IInv'
<1>1. /\ chain' = Append(chain, B)
      /\ chain' \in Seq(SUBSET Transaction) /\ Tip' = Tip + 1
  BY DEF NewBlock, IInv, Tip
<1>2. ASSUME outdated' = {} PROVE UpToDate'
  <2>1. broadcast /\ updates = <<>>
    BY <1>2 DEF NewBlock
  <2>2. updates' = Append(Meanwhile(updates, Tip + 1), {Tip + 1})
    BY <2>1 DEF NewBlock, Ask
  <2>3. /\ Len(Meanwhile(updates, Tip + 1)) = 0
        /\ Meanwhile(updates, Tip + 1) \in Seq({})
    BY <2>1 DEF Meanwhile
  <2>4. Meanwhile(updates, Tip + 1) = <<>>
    BY <2>3, EmptySeq
  <2>5. updates' = Append(<<>>, {Tip + 1})
    BY <2>2, <2>4
  <2>6. updates' = <<{Tip'}>>
    BY <1>1, <2>5, AppendEmpty
  <2> QED
    BY <1>1, <2>6 DEF UpToDate
<1> QED
  BY <1>1, <1>2 DEF IInv

LEMMA SyncedKeeps ==
  ASSUME IInv, Synced
  PROVE  IInv'
<1>1. chain' = chain /\ Tip' = Tip
  BY DEF Synced, Tip
<1>2. ASSUME outdated' = {} PROVE UpToDate'
  <2>1. updates = <<>>
    BY <1>2 DEF Synced
  <2>2. updates' = <<{Tip}>>
    BY <2>1 DEF Synced, Ask
  <2> QED
    BY <1>1, <2>2 DEF UpToDate
<1> QED
  BY <1>1, <1>2 DEF IInv

\* The answer of the only update
LEMMA UpdatedKeeps ==
  ASSUME IInv, NEW i \in DOMAIN updates, Updated(i)
  PROVE  IInv'
<1>1. /\ chain' = chain /\ Tip' = Tip /\ outdated' = outdated
      /\ broadhash' \in updates[i] /\ updates' = RemoveAt(updates, i)
  BY DEF Updated, Tip
<1>2. ASSUME outdated = {} PROVE UpToDate'
  <2>1. updates = <<{Tip}>> /\ i = 1
    BY <1>2 DEF IInv, UpToDate
  <2>2. broadhash' = Tip
    BY <1>1, <2>1
  <2>3. updates' = <<>>
    BY <1>1, <2>1 DEF RemoveAt
  <2> QED
    BY <1>1, <2>2, <2>3 DEF UpToDate
<1> QED
  BY <1>1, <1>2 DEF IInv

\* The release of the queue, the pool and what is enqueued leave the headers alone.
LEMMA ReleaseKeeps ==
  ASSUME IInv, UNCHANGED headerVars
  PROVE  IInv'
  BY DEF headerVars, IInv, UpToDate, Tip

-----------------------------------------------------------------------------
LEMMA InitIInv == Init => IInv
  BY DEF Init, IInv, UpToDate, Tip

LEMMA NextIInv == IInv /\ [Next]_vars => IInv'
<1> SUFFICES ASSUME IInv, [Next]_vars PROVE IInv'
  OBVIOUS
<1>1. ASSUME NEW t \in Transaction, NEW relays \in 0..RelayLimit,
             UnconfirmedTransaction(t, relays)
      PROVE  IInv'
  BY <1>1, ReleaseKeeps DEF UnconfirmedTransaction
<1>2. ASSUME NEW s \in Signature, NEW relays \in 0..RelayLimit, AcceptedSignature(s, relays)
      PROVE  IInv'
  BY <1>2, ReleaseKeeps DEF AcceptedSignature
<1>3. ASSUME NEW t \in Transaction, Expired(t) PROVE IInv'
  BY <1>3, ReleaseKeeps DEF Expired
<1>4. ASSUME NEW B \in SUBSET Transaction, NEW broadcast \in BOOLEAN, NewBlock(B, broadcast)
      PROVE  IInv'
  BY <1>4, NewBlockKeeps
<1>5. CASE DeleteLastBlock
  <2>1. chain' \in Seq(SUBSET Transaction)
    <3>1. chain \in Seq(SUBSET Transaction) /\ chain # <<>> /\ chain' = Front(chain)
      BY <1>5 DEF DeleteLastBlock, IInv
    <3> QED
      BY <3>1 DEF Front
  <2> QED
    BY <1>5, <2>1 DEF DeleteLastBlock, IInv
<1>6. CASE Synced
  BY <1>6, SyncedKeeps
<1>7. ASSUME NEW i \in DOMAIN updates, Updated(i) PROVE IInv'
  BY <1>7, UpdatedKeeps
<1>8. CASE FilterQueue \/ QueueFiltered \/ SquashQueue \/ Released
  BY <1>8, ReleaseKeeps DEF FilterQueue, QueueFiltered, SquashQueue, Released
<1>9. ASSUME NEW listed \in BOOLEAN, GetPeers(listed) PROVE IInv'
  BY <1>9, ReleaseKeeps DEF GetPeers
<1>10. CASE UNCHANGED vars
  BY <1>10, ReleaseKeeps DEF vars, headerVars
<1> QED
  BY <1>1, <1>2, <1>3, <1>4, <1>5, <1>6, <1>7, <1>8, <1>9, <1>10 DEF Next

(***************************************************************************)
(* In every behaviour the headers of modules/system.js are those of the    *)
(* last block when no update is under way: unless two updates crossed, or  *)
(* blocks were deleted or loaded from a peer since.                        *)
(***************************************************************************)
THEOREM HeadersOfTip == Spec => []HeadersCurrent
<1>1. IInv => HeadersCurrent
  BY DEF IInv, HeadersCurrent, UpToDate
<1> QED
  BY <1>1, InitIInv, NextIInv, PTL DEF Spec

-----------------------------------------------------------------------------
(* Recursion over the subsets of a finite set                              *)

\* Of some subsets of a finite set one contains no other.
LEMMA SmallestSet ==
  ASSUME NEW S, IsFiniteSet(S), NEW T \in SUBSET (SUBSET S), T # {}
  PROVE  \E s \in T : \A r \in T : r \subseteq s => r = s
<1> DEFINE R == StrictSubsetOrdering(S)
<1>1. IsWellFoundedOn(R, FiniteSubsetsOf(S))
  BY FS_StrictSubsetOrderingWellFounded
<1>2. T \subseteq FiniteSubsetsOf(S)
  BY FS_Subset DEF FiniteSubsetsOf
<1> HIDE DEF R
<1>3. PICK s \in T : \A r \in T : <<r, s>> \notin R
  BY <1>1, <1>2, WFMin
<1>4. ASSUME NEW r \in T, r \subseteq s, r # s PROVE FALSE
  <2>1. <<r, s>> \in (SUBSET S) \X (SUBSET S)
    BY <1>4
  <2>2. <<r, s>> \in R
    BY <1>4, <2>1 DEF R, StrictSubsetOrdering
  <2> QED
    BY <1>3, <2>2
<1> QED
  BY <1>4

(* Recursion over the subsets of a finite set: one element, c[s], is taken *)
(* out of s, and step joins it to the value of the rest.                   *)
Recurs(g, S, c, base, step) ==
  \A s \in SUBSET S : g[s] = IF s = {} THEN base ELSE step[<<c[s], g[s \ {c[s]}]>>]

\* Two such tables agree where both have a value.
LEMMA RecursionUnique ==
  ASSUME NEW S, IsFiniteSet(S), NEW c, \A s \in SUBSET S : s # {} => c[s] \in s,
         NEW base, NEW step, NEW U \in SUBSET S, NEW W \in SUBSET S, NEW g, NEW h,
         Recurs(g, U, c, base, step), Recurs(h, W, c, base, step)
  PROVE  \A s \in SUBSET (U \cap W) : g[s] = h[s]
<1> DEFINE T == {s \in SUBSET (U \cap W) : g[s] # h[s]}
<1> SUFFICES ASSUME T # {} PROVE FALSE
  OBVIOUS
<1>1. T \in SUBSET (SUBSET S)
  OBVIOUS
<1> HIDE DEF T
<1>2. PICK s \in T : \A r \in T : r \subseteq s => r = s
  BY <1>1, SmallestSet
<1>3. s \in SUBSET U /\ s \in SUBSET W /\ g[s] # h[s]
  BY DEF T
<1>4. s # {}
  BY <1>3 DEF Recurs
<1>5. c[s] \in s
  BY <1>3, <1>4
<1>6. s \ {c[s]} \notin T
  BY <1>2, <1>5
<1>7. g[s \ {c[s]}] = h[s \ {c[s]}]
  BY <1>6, <1>3 DEF T
<1>8. g[s] = step[<<c[s], g[s \ {c[s]}]>>] /\ h[s] = step[<<c[s], h[s \ {c[s]}]>>]
  BY <1>3, <1>4 DEF Recurs
<1> QED
  BY <1>3, <1>7, <1>8

\* There is such a table: the one that takes each smaller set from its own.
LEMMA RecursionExists ==
  ASSUME NEW S, IsFiniteSet(S), NEW c, \A s \in SUBSET S : s # {} => c[s] \in s,
         NEW V, NEW base \in V, NEW step, \A x \in S, v \in V : step[<<x, v>>] \in V
  PROVE  \E g \in [SUBSET S -> V] : Recurs(g, S, c, base, step)
<1> DEFINE Has(U) == \E g \in [SUBSET U -> V] : Recurs(g, U, c, base, step)
           T == {U \in SUBSET S : ~Has(U)}
<1> SUFFICES ASSUME T # {} PROVE FALSE
  OBVIOUS
<1>1. T \in SUBSET (SUBSET S)
  OBVIOUS
<1> HIDE DEF T
<1>2. PICK U \in T : \A r \in T : r \subseteq U => r = U
  BY <1>1, SmallestSet
<1>3. U \in SUBSET S /\ ~Has(U) /\ \A r \in SUBSET U : r # U => Has(r)
  BY <1>2 DEF T
<1> DEFINE of == [r \in SUBSET U |->
                    CHOOSE g \in [SUBSET r -> V] : Recurs(g, r, c, base, step)]
<1>4. \A r \in SUBSET U : r # U =>
        of[r] \in [SUBSET r -> V] /\ Recurs(of[r], r, c, base, step)
  BY <1>3
<1> HIDE DEF of, Has
<1>a. ASSUME NEW r \in SUBSET U, r # U PROVE of[r][r] \in V
  <2>1. of[r] \in [SUBSET r -> V] /\ r \in SUBSET r
    BY <1>a, <1>4
  <2> QED
    BY <2>1
<1>5. \A r \in SUBSET U, s \in SUBSET U :
         r # U /\ s \subseteq r => of[s][s] = of[r][s]
  <2> SUFFICES ASSUME NEW r \in SUBSET U, NEW s \in SUBSET U, r # U, s \subseteq r
               PROVE  of[s][s] = of[r][s]
    OBVIOUS
  <2>1. s # U /\ r \in SUBSET S /\ s \in SUBSET S
    BY <1>3
  <2>2. Recurs(of[r], r, c, base, step) /\ Recurs(of[s], s, c, base, step)
    BY <1>4, <2>1
  <2>3. \A t \in SUBSET (s \cap r) : of[s][t] = of[r][t]
    BY <2>1, <2>2, RecursionUnique
  <2> QED
    BY <2>3
<1> DEFINE value == [s \in SUBSET U |->
                       IF s # U THEN of[s][s]
                       ELSE IF s = {} THEN base
                       ELSE step[<<c[s], of[s \ {c[s]}][s \ {c[s]}]>>]]
<1>6. \A s \in SUBSET U : s # {} => c[s] \in s /\ s \ {c[s]} # U /\ s \ {c[s]} \in SUBSET U
  BY <1>3
<1>7. ASSUME NEW s \in SUBSET U PROVE value[s] \in V
  <2>1. CASE s # U
    BY <2>1, <1>a
  <2>2. CASE s = U /\ s = {}
    BY <2>2
  <2>3. CASE s = U /\ s # {}
    <3>1. of[s \ {c[s]}][s \ {c[s]}] \in V /\ c[s] \in S
      BY <2>3, <1>a, <1>6, <1>3
    <3> QED
      BY <3>1, <2>3
  <2> QED
    BY <2>1, <2>2, <2>3
<1>8. ASSUME NEW s \in SUBSET U
      PROVE  value[s] = IF s = {} THEN base ELSE step[<<c[s], value[s \ {c[s]}]>>]
  <2>1. CASE s # U /\ s = {}
    BY <2>1, <1>4 DEF Recurs
  <2>2. CASE s # U /\ s # {}
    <3>1. value[s] = of[s][s] /\ value[s \ {c[s]}] = of[s \ {c[s]}][s \ {c[s]}]
      BY <2>2, <1>6
    <3>2. of[s][s] = step[<<c[s], of[s][s \ {c[s]}]>>]
      BY <2>2, <1>4 DEF Recurs
    <3>3. of[s \ {c[s]}][s \ {c[s]}] = of[s][s \ {c[s]}]
      BY <2>2, <1>5, <1>6
    <3> QED
      BY <2>2, <3>1, <3>2, <3>3
  <2>3. CASE s = U /\ s = {}
    BY <2>3
  <2>4. CASE s = U /\ s # {}
    <3>1. value[s \ {c[s]}] = of[s \ {c[s]}][s \ {c[s]}]
      BY <2>4, <1>6
    <3> QED
      BY <2>4, <3>1
  <2> QED
    BY <2>1, <2>2, <2>3, <2>4
<1> HIDE DEF value
<1>9. value \in [SUBSET U -> V]
  BY <1>7 DEF value
<1>10. Recurs(value, U, c, base, step)
  BY <1>8 DEF Recurs
<1> QED
  BY <1>3, <1>9, <1>10 DEF Has

\* The last of some positions, which FoldLeft takes first.
LEMMA MaxExists ==
  ASSUME NEW n \in Nat, NEW S \in SUBSET (1..n), S # {}
  PROVE  Max(S) \in S /\ \A y \in S : Max(S) >= y
<1> DEFINE AtLeast(y) == {x \in S : x >= y}
           T == {AtLeast(y) : y \in S}
<1>1. IsFiniteSet(S)
  <2>1. PICK N : N = 1..n
    OBVIOUS
  <2>2. IsFiniteSet(N)
    BY <2>1, FS_Interval
  <2>3. S \in SUBSET N
    BY <2>1
  <2> QED
    BY <2>2, <2>3, FS_Subset
<1>2. T \in SUBSET (SUBSET S) /\ T # {}
  OBVIOUS
<1>3. \A r \in T : \E y \in S : r = AtLeast(y)
  OBVIOUS
<1>4. \A y \in S : AtLeast(y) \in T
  OBVIOUS
<1> HIDE DEF T
<1>5. PICK s \in T : \A r \in T : r \subseteq s => r = s
  <2>1. PICK N : N = S
    OBVIOUS
  <2>2. IsFiniteSet(N) /\ T \in SUBSET (SUBSET N) /\ T # {}
    BY <1>1, <1>2, <2>1
  <2> QED
    BY <2>2, SmallestSet
<1>6. PICK y \in S : s = AtLeast(y)
  BY <1>3
<1>7. ASSUME NEW z \in S, ~(y >= z) PROVE FALSE
  <2>1. AtLeast(z) \in T
    BY <1>4
  <2>2. y \in s /\ y \notin AtLeast(z)
    BY <1>6, <1>7
  <2>3. AtLeast(z) \subseteq s
    <3>1. \A x \in S : x \in Int
      OBVIOUS
    <3>2. ASSUME NEW x \in S, x >= z PROVE x >= y
      BY <3>1, <3>2, <1>7
    <3> QED
      BY <3>2, <1>6
  <2> QED
    BY <2>1, <2>2, <2>3, <1>5
<1>8. y \in S /\ \A z \in S : y >= z
  BY <1>7
<1> QED
  BY <1>8 DEF Max

\* FoldLeft goes from the last position of a list to the one before.
LEMMA Intervals ==
  ASSUME NEW n \in Nat, NEW k \in 1..n
  PROVE  Max(1..k) = k /\ (1..k) \ {k} = 1..(k - 1) /\ 1..k \in SUBSET (1..n) /\ 1..k # {}
<1>1. 1..k \in SUBSET (1..k) /\ 1..k # {} /\ k \in Nat /\ k \in 1..k
  OBVIOUS
<1>2. Max(1..k) \in 1..k /\ \A y \in 1..k : Max(1..k) >= y
  BY <1>1, MaxExists
<1>3. Max(1..k) = k
  BY <1>1, <1>2
<1>4. \A i \in 1..k : i = k \/ i \in 1..(k - 1)
  OBVIOUS
<1>5. \A i \in 1..(k - 1) : i # k /\ i \in 1..k
  OBVIOUS
<1>6. 1..k \subseteq 1..n
  OBVIOUS
<1> QED
  BY <1>1, <1>3, <1>4, <1>5, <1>6

-----------------------------------------------------------------------------
(* filterQueue                                                              *)

\* One element more
LEMMA AppendSet ==
  ASSUME NEW S, NEW s \in Seq(S), NEW x \in S
  PROVE  Append(s, x) \in Seq(S) /\ ToSet(Append(s, x)) = ToSet(s) \cup {x}
<1>1. PICK r : r = Append(s, x)
  OBVIOUS
<1>2. /\ r \in Seq(S) /\ Len(r) = Len(s) + 1 /\ Len(s) \in Nat /\ r[Len(s) + 1] = x
      /\ \A i \in 1..Len(s) : r[i] = s[i]
  BY <1>1
<1>3. DOMAIN r = 1..(Len(s) + 1) /\ DOMAIN s = 1..Len(s)
  BY <1>2
<1>4. \A i \in 1..(Len(s) + 1) : i \in 1..Len(s) \/ i = Len(s) + 1
  BY <1>2
<1>5. \A i \in 1..Len(s) : i \in 1..(Len(s) + 1)
  BY <1>2
<1>6. Len(s) + 1 \in 1..(Len(s) + 1)
  BY <1>2
<1>7. ToSet(r) = ToSet(s) \cup {x}
  BY <1>2, <1>3, <1>4, <1>5, <1>6 DEF ToSet
<1> QED
  BY <1>1, <1>2, <1>7

\* The outcome of the filter has what passes of its list, and nothing else.
LEMMA FilteredIs ==
  ASSUME NEW list \in Seq(Item)
  PROVE  /\ Filtered(list) \in Seq(Item)
         /\ ToSet(Filtered(list)) = {t \in ToSet(list) : Passes(t)}
<1> DEFINE D == DOMAIN list
           Table(g) == g = [S \in SUBSET D |->
                              IF S = {} THEN <<>> ELSE Pass(g[S \ {Max(S)}], list[Max(S)])]
           V == Seq(Item)
<1>1. PICK n \in Nat : n = Len(list)
  OBVIOUS
<1>2. list \in [1..n -> Item] /\ D = 1..n
  BY <1>1
<1>3. Filtered(list) = (CHOOSE g : Table(g))[D]
  BY DEF Filtered, FoldLeft, MapThenFoldSet
<1>4. ASSUME NEW v \in V, NEW t \in Item
      PROVE  /\ Pass(v, t) \in V
             /\ ToSet(Pass(v, t)) = ToSet(v) \cup {x \in {t} : Passes(x)}
  <2>1. CASE Passes(t)
    BY <2>1, AppendSet DEF Pass
  <2>2. CASE ~Passes(t)
    BY <2>2 DEF Pass
  <2> QED
    BY <2>1, <2>2
<1>5. \E g \in [SUBSET D -> V] : Table(g)
  <2> DEFINE c == [S \in SUBSET D |-> Max(S)]
             step == [p \in D \X V |-> Pass(p[2], list[p[1]])]
  <2>1. \A S \in SUBSET D : S # {} => c[S] \in S
    BY <1>2, MaxExists
  <2>2. \A S \in SUBSET D : c[S] = Max(S)
    OBVIOUS
  <2>3. \A i \in D, v \in V : step[<<i, v>>] = Pass(v, list[i])
    OBVIOUS
  <2>4. \A i \in D, v \in V : Pass(v, list[i]) \in V
    <3> HIDE DEF V
    <3> QED
      BY <1>4, <1>2
  <2> HIDE DEF c, step, V
  <2>5. \A i \in D, v \in V : step[<<i, v>>] \in V
    BY <2>3, <2>4
  <2>6. IsFiniteSet(D)
    BY <1>2, FS_Interval
  <2>7. <<>> \in V
    BY DEF V
  <2> HIDE DEF D
  <2>8. PICK g \in [SUBSET D -> V] : Recurs(g, D, c, <<>>, step)
    BY <2>1, <2>5, <2>6, <2>7, RecursionExists
  <2>9. ASSUME NEW S \in SUBSET D, S # {} PROVE g[S] = Pass(g[S \ {Max(S)}], list[Max(S)])
    <3>1. c[S] \in D /\ S \ {c[S]} \in SUBSET D
      BY <2>1, <2>9
    <3>2. g[S \ {c[S]}] \in V
      BY <3>1
    <3>3. step[<<c[S], g[S \ {c[S]}]>>] = Pass(g[S \ {c[S]}], list[c[S]])
      BY <3>1, <3>2, <2>3
    <3> QED
      BY <2>8, <2>9, <3>3, <2>2 DEF Recurs
  <2>10. g[{}] = <<>>
    BY <2>8 DEF Recurs
  <2> QED
    BY <2>9, <2>10
<1> DEFINE h == CHOOSE g : Table(g)
<1>6. Table(h)
  BY <1>5
<1> DEFINE Fine(k) == /\ h[1..k] \in V
                      /\ ToSet(h[1..k]) = {t \in {list[i] : i \in 1..k} : Passes(t)}
<1>7. h[{}] = <<>> /\ \A S \in SUBSET D : S # {} => h[S] = Pass(h[S \ {Max(S)}], list[Max(S)])
  BY <1>6
<1> HIDE DEF h, Table
<1>8. ASSUME NEW k \in 1..n, Fine(k - 1) PROVE Fine(k)
  <2>1. h[1..k] = Pass(h[1..(k - 1)], list[k])
    <3>1. Max(1..k) = k /\ (1..k) \ {k} = 1..(k - 1) /\ 1..k \in SUBSET (1..n) /\ 1..k # {}
      BY Intervals
    <3> QED
      BY <1>2, <1>7, <3>1
  <2>2. list[k] \in Item
    BY <1>2
  <2>3. {list[i] : i \in 1..k} = {list[i] : i \in 1..(k - 1)} \cup {list[k]}
    <3>1. \A i \in 1..k : i = k \/ i \in 1..(k - 1)
      OBVIOUS
    <3>2. \A i \in 1..(k - 1) : i \in 1..k
      OBVIOUS
    <3>3. k \in 1..k
      OBVIOUS
    <3> QED
      BY <3>1, <3>2, <3>3
  <2>4. PICK v \in V : v = h[1..(k - 1)]
    BY <1>8
  <2> HIDE DEF V
  <2>5. /\ h[1..k] \in V
        /\ ToSet(h[1..k]) = ToSet(v) \cup {x \in {list[k]} : Passes(x)}
    BY <1>4, <2>1, <2>2, <2>4
  <2> QED
    BY <1>8, <2>3, <2>4, <2>5
<1>9. Fine(0)
  <2>1. 1..0 = {} /\ ToSet(<<>>) = {}
    BY DEF ToSet
  <2>2. {list[i] : i \in 1..0} = {}
    BY <2>1
  <2>3. h[1..0] = <<>>
    BY <1>7, <2>1
  <2>4. <<>> \in V
    OBVIOUS
  <2> HIDE DEF V
  <2> QED
    BY <2>1, <2>2, <2>3, <2>4
<1> HIDE DEF Fine
<1>10. Fine(n)
  <2> DEFINE T == {1..k : k \in {i \in 0..n : ~Fine(i)}}
  <2> SUFFICES ASSUME ~Fine(n) PROVE FALSE
    OBVIOUS
  <2>a. PICK N : N = 1..n
    OBVIOUS
  <2>1. T \in SUBSET (SUBSET N) /\ T # {}
    BY <2>a
  <2>2. \A k \in 0..n : ~Fine(k) => 1..k \in T
    OBVIOUS
  <2>3. \A r \in T : \E k \in 0..n : r = 1..k /\ ~Fine(k)
    OBVIOUS
  <2>4. IsFiniteSet(N)
    BY <2>a, FS_Interval
  <2> HIDE DEF T
  <2>5. PICK r \in T : \A q \in T : q \subseteq r => q = r
    BY <2>1, <2>4, SmallestSet
  <2>6. PICK k \in 0..n : r = 1..k /\ ~Fine(k)
    BY <2>3
  <2>7. k \in 1..n /\ k - 1 \in 0..n
    BY <2>6, <1>9
  <2>8. 1..(k - 1) \in T
    BY <1>8, <2>2, <2>6, <2>7
  <2>9. 1..(k - 1) \subseteq r /\ 1..(k - 1) # r
    <3>1. k \in 1..k /\ k \notin 1..(k - 1)
      BY <2>7
    <3> QED
      BY <3>1, <2>6
  <2> QED
    BY <2>5, <2>8, <2>9
<1>11. {list[i] : i \in 1..n} = ToSet(list)
  BY <1>2 DEF ToSet
<1> QED
  BY <1>2, <1>3, <1>10, <1>11 DEF Fine, h

-----------------------------------------------------------------------------
(***************************************************************************)
(* The queue.  What is queued is in the queue also while the filter runs,  *)
(* since the queue only grows: so what the outcome of the filter leaves    *)
(* out was either refused by it or enqueued meanwhile.                     *)
(***************************************************************************)
Fates == {"none", "queued", "overtaken", "confirmed", "refused", "unheard", "posted"}

BlocksTyped ==
  /\ pool \subseteq Transaction
  /\ chain \in Seq(SUBSET Transaction) /\ Len(chain) <= MaxBlocks
  /\ deleted \in 0..MaxDeleted
  /\ broadhash \in 0..MaxBlocks
  /\ updates \in Seq(SUBSET (0..MaxBlocks))
  /\ outdated \subseteq {"crossed", "deleted", "loaded"}

ReleaseTyped ==
  /\ queue \in Seq(Item) /\ filtering \in Seq(Item) /\ unposted \in Seq(Item)
  /\ release \in {"idle", "filter", "squash", "peers", "post"}
  /\ release # "filter" => filtering = <<>>
  /\ release # "peers" => unposted = <<>>
  /\ fate \in [Item -> Fates]

QueueInv == BlocksTyped /\ ReleaseTyped /\ NothingLost

LEMMA EnqueueKeeps ==
  ASSUME ReleaseTyped, NothingLost, NEW t \in Item, Enqueue(t),
         UNCHANGED <<release, filtering, unposted>>
  PROVE  ReleaseTyped' /\ NothingLost'
<1>1. /\ queue' = Append(queue, t) /\ queue \in Seq(Item)
      /\ fate' = [x \in Item |-> IF x \in {t} THEN "queued" ELSE fate[x]]
  BY DEF Enqueue, Mark, ReleaseTyped
<1>2. queue' \in Seq(Item) /\ ToSet(queue') = ToSet(queue) \cup {t}
  BY <1>1, AppendSet
<1>3. fate' \in [Item -> Fates]
  BY <1>1 DEF ReleaseTyped, Fates
<1>4. NothingLost'
  BY <1>1, <1>2 DEF NothingLost, Item
<1> QED
  BY <1>2, <1>3, <1>4 DEF ReleaseTyped

\* The outcome of the filter
LEMMA FilterKeeps ==
  ASSUME BlocksTyped, ReleaseTyped, NothingLost, QueueFiltered
  PROVE  ReleaseTyped' /\ NothingLost'
<1>1. /\ release = "filter" /\ queue' = Filtered(filtering)
      /\ release' = "squash" /\ filtering' = <<>> /\ UNCHANGED <<unposted, pool, chain>>
  BY DEF QueueFiltered, headerVars
<1>2. \A t \in Item :
        fate'[t] = CASE t \in ToSet(queue) \ ToSet(filtering) -> "overtaken"
                     [] t \in (ToSet(filtering) \cap Confirmed) \ pool -> "confirmed"
                     [] t \in ToSet(filtering) \cap Signature -> "refused"
                     [] OTHER -> fate[t]
  BY DEF QueueFiltered
<1>3. fate' \in [Item -> Fates]
  <2>1. fate' = [t \in Item |-> fate'[t]]
    BY DEF QueueFiltered
  <2>2. ASSUME NEW t \in Item PROVE fate'[t] \in Fates
    BY <1>2 DEF ReleaseTyped, Fates
  <2> QED
    BY <2>1, <2>2
<1>4. filtering \in Seq(Item) /\ unposted = <<>>
  BY <1>1 DEF ReleaseTyped
<1>5. /\ queue' \in Seq(Item)
      /\ ToSet(queue') = {t \in ToSet(filtering) : Passes(t)}
  BY <1>1, <1>4, FilteredIs
<1>6. ASSUME NEW t \in Transaction, fate'[t] = "queued" PROVE t \in ToSet(queue')
  <2>1. t \in Item
    BY DEF Item
  <2>2. t \notin ToSet(queue) \ ToSet(filtering)
    BY <1>2, <1>6, <2>1
  <2>3. t \notin (ToSet(filtering) \cap Confirmed) \ pool
    BY <1>2, <1>6, <2>1, <2>2
  <2>4. t \notin ToSet(filtering) \cap Signature
    BY <1>2, <1>6, <2>1, <2>2, <2>3
  <2>5. fate[t] = "queued"
    BY <1>2, <1>6, <2>1, <2>2, <2>3, <2>4
  <2>6. t \in ToSet(queue)
    BY <1>4, <2>5 DEF NothingLost, ToSet
  <2>7. t \in ToSet(filtering) /\ Passes(t)
    BY <2>2, <2>3, <2>6 DEF Passes
  <2> QED
    BY <1>5, <2>7
<1>7. NothingLost'
  BY <1>6 DEF NothingLost
<1> QED
  BY <1>1, <1>3, <1>4, <1>5, <1>7 DEF ReleaseTyped

\* What is taken out of the queue is about to be posted.
LEMMA SquashKeeps ==
  ASSUME ReleaseTyped, NothingLost, SquashQueue
  PROVE  ReleaseTyped' /\ NothingLost'
<1> DEFINE n == Least(Len(queue), ReleaseLimit)
<1>1. /\ release = "squash" /\ release' = "peers" /\ UNCHANGED <<filtering, fate>>
      /\ unposted' = SubSeq(queue, 1, n) /\ queue' = SubSeq(queue, n + 1, Len(queue))
  BY DEF SquashQueue
<1>2. queue \in Seq(Item) /\ Len(queue) \in Nat /\ unposted = <<>> /\ filtering = <<>>
  BY <1>1 DEF ReleaseTyped
<1>3. n \in Nat /\ n <= Len(queue)
  BY <1>2, BroadcasterAssumption DEF Least
<1> HIDE DEF n
<1>4. \A i \in 1..Len(queue) : queue[i] \in Item
  BY <1>2
<1>5. /\ unposted' \in Seq(Item) /\ Len(unposted') = n /\ \A i \in 1..n : unposted'[i] = queue[i]
  <2>1. \A i \in 1..n : i \in 1..Len(queue)
    BY <1>2, <1>3
  <2> QED
    BY <1>1, <1>2, <1>3, <1>4, <2>1
<1>6. /\ queue' \in Seq(Item) /\ Len(queue') = Len(queue) - n
      /\ \A i \in 1..(Len(queue) - n) : queue'[i] = queue[n + i]
  <2>1. \A i \in (n + 1)..Len(queue) : i \in 1..Len(queue)
    BY <1>2, <1>3
  <2> QED
    BY <1>1, <1>2, <1>3, <1>4, <2>1
<1>7. ToSet(queue) \subseteq ToSet(queue') \cup ToSet(unposted')
  <2> SUFFICES ASSUME NEW j \in 1..Len(queue)
               PROVE  queue[j] \in ToSet(queue') \cup ToSet(unposted')
    BY <1>2 DEF ToSet
  <2>1. CASE j <= n
    <3>1. j \in 1..n /\ j \in DOMAIN unposted'
      BY <1>3, <1>5, <2>1
    <3> QED
      BY <1>5, <3>1 DEF ToSet
  <2>2. CASE ~(j <= n)
    <3>1. j - n \in 1..(Len(queue) - n) /\ n + (j - n) = j
      BY <1>2, <1>3, <2>2
    <3>2. j - n \in DOMAIN queue' /\ queue'[j - n] = queue[j]
      BY <1>6, <3>1
    <3> QED
      BY <3>2 DEF ToSet
  <2> QED
    BY <2>1, <2>2
<1>8. NothingLost'
  <2>1. ToSet(unposted) = {}
    BY <1>2 DEF ToSet
  <2> QED
    BY <1>1, <1>7, <2>1 DEF NothingLost
<1> QED
  BY <1>1, <1>2, <1>5, <1>6, <1>8 DEF ReleaseTyped

\* What is posted, or had no peer to be posted to, has its fate.
LEMMA GetPeersKeeps ==
  ASSUME ReleaseTyped, NothingLost, NEW listed \in BOOLEAN, GetPeers(listed)
  PROVE  ReleaseTyped' /\ NothingLost'
<1>1. /\ release = "peers" /\ release' = "post" /\ unposted' = <<>>
      /\ UNCHANGED <<queue, filtering>>
      /\ fate' = [t \in Item |-> IF t \in ToSet(unposted)
                                 THEN IF listed THEN "posted" ELSE "unheard" ELSE fate[t]]
  BY DEF GetPeers, Mark
<1>2. fate' \in [Item -> Fates]
  BY <1>1 DEF ReleaseTyped, Fates
<1>3. NothingLost'
  BY <1>1 DEF NothingLost, Item
<1> QED
  BY <1>1, <1>2, <1>3 DEF ReleaseTyped

-----------------------------------------------------------------------------
(* Blocks and updates                                                       *)

LEMMA Tips ==
  ASSUME BlocksTyped
  PROVE  Tip \in 0..MaxBlocks /\ Tip = Len(chain) /\ MaxBlocks \in Nat
  BY BroadcasterAssumption DEF BlocksTyped, Tip

LEMMA MeanwhileTyped ==
  ASSUME NEW us \in Seq(SUBSET (0..MaxBlocks)), NEW tip \in 0..MaxBlocks
  PROVE  /\ Meanwhile(us, tip) \in Seq(SUBSET (0..MaxBlocks))
         /\ Ask(us, tip) \in Seq(SUBSET (0..MaxBlocks))
<1>1. DOMAIN us = 1..Len(us) /\ Len(us) \in Nat
  OBVIOUS
<1>2. \A i \in 1..Len(us) : us[i] \cup {tip} \in SUBSET (0..MaxBlocks)
  OBVIOUS
<1>3. Meanwhile(us, tip) \in Seq(SUBSET (0..MaxBlocks))
  BY <1>1, <1>2 DEF Meanwhile
<1>4. {tip} \in SUBSET (0..MaxBlocks)
  OBVIOUS
<1>5. Ask(us, tip) \in Seq(SUBSET (0..MaxBlocks))
  BY <1>4 DEF Ask
<1> QED
  BY <1>3, <1>5

LEMMA NewBlockTyped ==
  ASSUME BlocksTyped, NEW B \in SUBSET Transaction, NEW broadcast \in BOOLEAN,
         NewBlock(B, broadcast)
  PROVE  BlocksTyped'
<1>1. /\ Tip < MaxBlocks /\ chain' = Append(chain, B) /\ pool' = pool \ B
      /\ updates' = IF broadcast THEN Ask(Meanwhile(updates, Tip + 1), Tip + 1)
                    ELSE Meanwhile(updates, Tip + 1)
      /\ UNCHANGED <<deleted, broadhash>>
  BY DEF NewBlock
<1>2. outdated' \subseteq {"crossed", "deleted", "loaded"}
  BY DEF NewBlock, BlocksTyped
<1>3. Tip + 1 \in 0..MaxBlocks /\ Tip = Len(chain)
  BY <1>1, Tips
<1>4. chain' \in Seq(SUBSET Transaction) /\ Len(chain') <= MaxBlocks
  BY <1>1, <1>3 DEF BlocksTyped
<1>5. updates' \in Seq(SUBSET (0..MaxBlocks))
  BY <1>1, <1>3, MeanwhileTyped DEF BlocksTyped
<1> QED
  BY <1>1, <1>2, <1>4, <1>5 DEF BlocksTyped

LEMMA DeleteTyped ==
  ASSUME BlocksTyped, DeleteLastBlock
  PROVE  BlocksTyped'
<1>1. /\ chain # <<>> /\ deleted < MaxDeleted /\ deleted' = deleted + 1
      /\ chain' = SubSeq(chain, 1, Len(chain) - 1)
      /\ updates' = Meanwhile(updates, Tip - 1)
      /\ UNCHANGED <<pool, broadhash>>
  BY DEF DeleteLastBlock, Front
<1>2. outdated' \subseteq {"crossed", "deleted", "loaded"}
  BY DEF DeleteLastBlock, BlocksTyped
<1>3. Len(chain) \in Nat \ {0} /\ chain \in Seq(SUBSET Transaction) /\ Len(chain) <= MaxBlocks
  BY <1>1 DEF BlocksTyped
<1>4. Tip - 1 \in 0..MaxBlocks /\ deleted' \in 0..MaxDeleted
  BY <1>1, <1>3, Tips, BroadcasterAssumption DEF BlocksTyped
<1>5. chain' \in Seq(SUBSET Transaction) /\ Len(chain') <= MaxBlocks
  <2>1. PICK m \in Nat : m = Len(chain) - 1
    BY <1>3
  <2>2. \A i \in 1..m : chain[i] \in SUBSET Transaction
    BY <1>3, <2>1
  <2>3. SubSeq(chain, 1, m) \in Seq(SUBSET Transaction) /\ Len(SubSeq(chain, 1, m)) = m
    BY <2>2
  <2> QED
    BY <1>1, <1>3, <2>1, <2>3, Tips
<1>6. updates' \in Seq(SUBSET (0..MaxBlocks))
  BY <1>1, <1>4, MeanwhileTyped DEF BlocksTyped
<1> QED
  BY <1>1, <1>2, <1>4, <1>5, <1>6 DEF BlocksTyped

LEMMA UpdatedTyped ==
  ASSUME BlocksTyped, NEW i \in DOMAIN updates, Updated(i)
  PROVE  BlocksTyped'
<1>1. /\ broadhash' \in updates[i] /\ updates' = RemoveAt(updates, i)
      /\ UNCHANGED <<pool, chain, deleted, outdated>>
  BY DEF Updated
<1>2. /\ updates \in Seq(SUBSET (0..MaxBlocks)) /\ Len(updates) \in Nat
      /\ i \in 1..Len(updates) /\ updates[i] \in SUBSET (0..MaxBlocks)
  BY DEF BlocksTyped
<1>3. updates' \in Seq(SUBSET (0..MaxBlocks))
  <2>1. \A j \in 1..Len(updates) : updates[j] \in SUBSET (0..MaxBlocks)
    BY <1>2
  <2>2. SubSeq(updates, 1, i - 1) \in Seq(SUBSET (0..MaxBlocks))
    <3>1. \A j \in 1..(i - 1) : j \in 1..Len(updates)
      BY <1>2
    <3> QED
      BY <1>2, <2>1, <3>1
  <2>3. SubSeq(updates, i + 1, Len(updates)) \in Seq(SUBSET (0..MaxBlocks))
    <3>1. \A j \in (i + 1)..Len(updates) : j \in 1..Len(updates)
      BY <1>2
    <3> QED
      BY <1>2, <2>1, <3>1
  <2> QED
    BY <1>1, <2>2, <2>3 DEF RemoveAt
<1> QED
  BY <1>1, <1>2, <1>3 DEF BlocksTyped

-----------------------------------------------------------------------------
LEMMA InitQueueInv == Init => QueueInv
<1> SUFFICES ASSUME Init PROVE QueueInv
  OBVIOUS
<1>1. BlocksTyped
  BY BroadcasterAssumption DEF Init, BlocksTyped
<1>2. ReleaseTyped /\ NothingLost
  BY DEF Init, ReleaseTyped, NothingLost, Item, Fates
<1> QED
  BY <1>1, <1>2 DEF QueueInv

LEMMA NextQueueInv == QueueInv /\ [Next]_vars => QueueInv'
<1> SUFFICES ASSUME QueueInv, [Next]_vars PROVE QueueInv'
  OBVIOUS
<1>1. BlocksTyped /\ ReleaseTyped /\ NothingLost
  BY DEF QueueInv
<1>2. ASSUME NEW t \in Transaction, NEW relays \in 0..RelayLimit,
             UnconfirmedTransaction(t, relays)
      PROVE  QueueInv'
  <2>1. UNCHANGED <<chain, deleted, broadhash, updates, outdated>> /\ pool' = pool \cup {t}
    BY <1>2 DEF UnconfirmedTransaction, headerVars
  <2>2. BlocksTyped'
    BY <1>1, <2>1 DEF BlocksTyped
  <2>3. CASE Enqueue(t)
    BY <1>1, <1>2, <2>2, <2>3, EnqueueKeeps DEF UnconfirmedTransaction, QueueInv, Item
  <2>4. CASE UNCHANGED <<queue, fate>>
    BY <1>1, <1>2, <2>2, <2>4 DEF UnconfirmedTransaction, QueueInv, ReleaseTyped, NothingLost
  <2> QED
    BY <1>2, <2>3, <2>4 DEF UnconfirmedTransaction
<1>3. ASSUME NEW s \in Signature, NEW relays \in 0..RelayLimit, AcceptedSignature(s, relays)
      PROVE  QueueInv'
  <2>1. Enqueue(s) /\ UNCHANGED <<pool, headerVars, release, filtering, unposted>>
    BY <1>3 DEF AcceptedSignature
  <2>2. BlocksTyped'
    BY <1>1, <2>1 DEF BlocksTyped, headerVars
  <2> QED
    BY <1>1, <2>1, <2>2, EnqueueKeeps DEF QueueInv, Item
<1>4. ASSUME UNCHANGED releaseVars, BlocksTyped' PROVE QueueInv'
  BY <1>1, <1>4 DEF QueueInv, releaseVars, ReleaseTyped, NothingLost
<1>5. ASSUME UNCHANGED <<pool, headerVars>>, ReleaseTyped' /\ NothingLost' PROVE QueueInv'
  BY <1>1, <1>5 DEF QueueInv, BlocksTyped, headerVars
<1>6. ASSUME NEW t \in Transaction, Expired(t) PROVE QueueInv'
  <2>1. UNCHANGED <<headerVars, releaseVars>> /\ pool' = pool \ {t}
    BY <1>6 DEF Expired
  <2>2. BlocksTyped'
    BY <1>1, <2>1 DEF BlocksTyped, headerVars
  <2> QED
    BY <1>4, <2>1, <2>2
<1>7. ASSUME NEW B \in SUBSET Transaction, NEW broadcast \in BOOLEAN, NewBlock(B, broadcast)
      PROVE  QueueInv'
  BY <1>1, <1>4, <1>7, NewBlockTyped DEF NewBlock
<1>8. CASE DeleteLastBlock
  BY <1>1, <1>4, <1>8, DeleteTyped DEF DeleteLastBlock
<1>9. CASE Synced
  <2>1. /\ UNCHANGED <<pool, chain, deleted, broadhash, releaseVars>>
        /\ updates' = Ask(updates, Tip)
        /\ outdated' \subseteq outdated \cup {"crossed"}
    BY <1>9 DEF Synced
  <2>2. updates' \in Seq(SUBSET (0..MaxBlocks))
    BY <1>1, <2>1, MeanwhileTyped, Tips DEF BlocksTyped
  <2>3. BlocksTyped'
    BY <1>1, <2>1, <2>2 DEF BlocksTyped
  <2> QED
    BY <1>4, <2>1, <2>3
<1>10. ASSUME NEW i \in DOMAIN updates, Updated(i) PROVE QueueInv'
  BY <1>1, <1>4, <1>10, UpdatedTyped DEF Updated
<1>11. CASE FilterQueue
  <2>1. /\ UNCHANGED <<pool, headerVars, queue, unposted, fate>>
        /\ release = "idle" /\ release' = "filter" /\ filtering' = queue
    BY <1>11 DEF FilterQueue
  <2>2. ReleaseTyped' /\ NothingLost'
    BY <1>1, <2>1 DEF ReleaseTyped, NothingLost
  <2> QED
    BY <1>5, <2>1, <2>2
<1>12. CASE QueueFiltered
  BY <1>1, <1>5, <1>12, FilterKeeps DEF QueueFiltered
<1>13. CASE SquashQueue
  BY <1>1, <1>5, <1>13, SquashKeeps DEF SquashQueue
<1>14. ASSUME NEW listed \in BOOLEAN, GetPeers(listed) PROVE QueueInv'
  BY <1>1, <1>5, <1>14, GetPeersKeeps DEF GetPeers
<1>15. CASE Released
  <2>1. /\ UNCHANGED <<pool, headerVars, queue, filtering, unposted, fate>>
        /\ release = "post" /\ release' = "idle"
    BY <1>15 DEF Released
  <2>2. ReleaseTyped' /\ NothingLost'
    BY <1>1, <2>1 DEF ReleaseTyped, NothingLost
  <2> QED
    BY <1>5, <2>1, <2>2
<1>16. CASE UNCHANGED vars
  BY <1>1, <1>4, <1>16 DEF vars, releaseVars, BlocksTyped
<1> QED
  BY <1>2, <1>3, <1>6, <1>7, <1>8, <1>9, <1>10, <1>11, <1>12, <1>13, <1>14, <1>15, <1>16 DEF Next

(***************************************************************************)
(* In every behaviour, for any transactions, signatures and limits: the    *)
(* queue of logic/broadcaster.js holds what was enqueued, and a            *)
(* transaction leaves it only for one of the reasons NothingLost names.    *)
(***************************************************************************)
THEOREM NothingLeavesUnnoticed == Spec => []QueueKept
<1>1. QueueInv => QueueKept
  <2> SUFFICES ASSUME QueueInv PROVE TypeOK
    BY DEF QueueInv, QueueKept
  <2>1. BlocksTyped /\ ReleaseTyped
    BY DEF QueueInv
  <2>2. ToSet(queue) \subseteq Item /\ ToSet(filtering) \subseteq Item /\ ToSet(unposted) \subseteq Item
    BY <2>1 DEF ReleaseTyped, ToSet
  <2>3. \A i \in DOMAIN updates : updates[i] \subseteq 0..MaxBlocks
    BY <2>1 DEF BlocksTyped
  <2> QED
    BY <2>1, <2>2, <2>3, Tips DEF BlocksTyped, ReleaseTyped, TypeOK, Fates
<1> QED
  BY <1>1, InitQueueInv, NextQueueInv, PTL DEF Spec

(***************************************************************************)
(*                             The peers                                   *)
(***************************************************************************)

OwnNonce == HasState(table, Self, {Connected}) => table[Self].nonce = life

\* The part of the invariant that an answer or a failure can disturb
Tables == [Address -> Entry \cup {None}]
EntriesInv ==
  /\ table \in Tables
  /\ told \in [Address -> Hashes \cup {None}]
  /\ FirstHand
  /\ OwnNonce

PeersInv == PeersTypeOK /\ FirstHand /\ OwnNonce /\ NeverToItself

-----------------------------------------------------------------------------
(* What the table holds after an update, a removal                         *)

\* What a peer tells of itself is an entry of a connected peer; the node's own
\* entry has the nonce of this start.
LEMMA HeadersTold ==
  ASSUME PeersTypeOK, NEW p \in Address
  PROVE  /\ Headers(p) \in Entry
         /\ Headers(p).state = Connected
         /\ Headers(p).hash \in Hashes
         /\ p = Self => Headers(p).nonce = life
<1>1. (IF p = Self THEN ownHash ELSE hash[p]) \in Hashes
  BY DEF PeersTypeOK, Address
<1>2. life \in 0..MaxRestarts + 1 /\ 0 \in 0..MaxRestarts + 1
  BY PeersAssumption DEF PeersTypeOK
<1> QED
  BY <1>1, <1>2 DEF Headers, Accept, Entry, Connected, Disconnected

\* An update disturbs one entry, and leaves there the headers or nothing.
LEMMA UpdateEntry ==
  ASSUME NEW t \in Tables, NEW p \in Address, Headers(p) \in Entry
  PROVE  /\ Update(t, p) \in Tables
         /\ \A q \in Address \ {p} : Update(t, p)[q] = t[q]
         /\ Update(t, p)[p] \in {Headers(p), None}
  BY DEF Update, Upsert, Tables

\* A removal disturbs one entry, and leaves there what was there or nothing.
LEMMA RemoveEntry ==
  ASSUME NEW t \in Tables, NEW p \in Address
  PROVE  /\ RemovePeer(t, p) \in Tables
         /\ \A q \in Address \ {p} : RemovePeer(t, p)[q] = t[q]
         /\ RemovePeer(t, p)[p] \in {t[p], None}
  BY DEF RemovePeer, Forget, Tables

\* A spoilt entry is disconnected.
LEMMA SpoiltEntry ==
  ASSUME PeersTypeOK, NEW p \in Address
  PROVE  /\ SpoilEntry(table, p) \in Tables
         /\ \A q \in Address \ {p} : SpoilEntry(table, p)[q] = table[q]
         /\ ~HasState(SpoilEntry(table, p), p, {Connected})
<1>1. CASE table[p] = None
  BY <1>1 DEF SpoilEntry, HasState, PeersTypeOK, Tables
<1>2. CASE table[p] # None
  <2> DEFINE e == [state |-> Disconnected, hash |-> Headers(p).hash, nonce |-> table[p].nonce]
  <2>1. table \in Tables /\ table[p] \in Entry
    BY <1>2 DEF PeersTypeOK, Tables
  <2>2. e \in Entry /\ e.state = Disconnected
    BY <2>1, HeadersTold DEF Entry
  <2>3. SpoilEntry(table, p) = [table EXCEPT ![p] = e]
    BY <1>2 DEF SpoilEntry
  <2> HIDE DEF e
  <2> QED
    BY <2>1, <2>2, <2>3 DEF Tables, HasState, Connected, Disconnected
<1> QED
  BY <1>1, <1>2

\* An answer, or a request that fails, keeps the entries.
LEMMA OutcomeKeeps ==
  ASSUME PeersTypeOK, FirstHand, OwnNonce, life' = life,
         NEW p \in Address, NEW entry \in BOOLEAN, Outcome(p, entry)
  PROVE  EntriesInv' /\ recent' \subseteq Address
<1>0. table \in Tables /\ told \in [Address -> Hashes \cup {None}] /\ recent \subseteq Address
  BY DEF PeersTypeOK, Tables
<1>1. CASE Up(p)
  <2>1. /\ table' = Update(table, p)
        /\ told' = [told EXCEPT ![p] = Headers(p).hash]
        /\ recent' = recent \cup {p}
    BY <1>1 DEF Outcome
  <2>2. /\ table' \in Tables
        /\ \A q \in Address \ {p} : table'[q] = table[q]
        /\ table'[p] \in {Headers(p), None}
    BY <1>0, <2>1, HeadersTold, UpdateEntry
  <2>3. /\ told' \in [Address -> Hashes \cup {None}]
        /\ \A q \in Address \ {p} : told'[q] = told[q]
        /\ told'[p] = Headers(p).hash
    BY <1>0, <2>1, HeadersTold
  <2>4. FirstHand'
    BY <2>2, <2>3 DEF FirstHand, HasState
  <2>5. OwnNonce'
    BY <2>2, HeadersTold DEF OwnNonce, HasState, Address
  <2> QED
    BY <1>0, <2>1, <2>2, <2>3, <2>4, <2>5 DEF EntriesInv
<1>2. CASE ~Up(p)
  <2> DEFINE t == IF entry /\ status[p] = "wrong" THEN SpoilEntry(table, p) ELSE table
  <2>1. table' = RemovePeer(t, p) /\ told' = told /\ recent' = recent
    BY <1>2 DEF Outcome
  <2>2. /\ t \in Tables
        /\ \A q \in Address \ {p} : t[q] = table[q]
        /\ HasState(t, p, {Connected}) => t[p] = table[p]
    BY <1>0, SpoiltEntry
  <2> HIDE DEF t
  <2>3. /\ table' \in Tables
        /\ \A q \in Address : HasState(table', q, {Connected}) => table'[q] = table[q]
    BY <2>1, <2>2, RemoveEntry DEF HasState
  <2> QED
    BY <1>0, <2>1, <2>3 DEF EntriesInv, FirstHand, OwnNonce, HasState, Address
<1> QED
  BY <1>1, <1>2

-----------------------------------------------------------------------------
(* The invariant *)

LEMMA InitPeersInv == PeersInit => PeersInv
<1> SUFFICES ASSUME PeersInit PROVE PeersInv
  OBVIOUS
<1>1. PeersTypeOK
  BY PeersAssumption DEF PeersInit, PeersTypeOK, Address
<1> QED
  BY <1>1, PeersAssumption
     DEF PeersInit, PeersInv, FirstHand, OwnNonce, NeverToItself, HasState, Address

\* A list has acceptable entries of the table only.
LEMMA ListsEntries ==
  ASSUME NEW n, NEW states, NEW h, NEW l \in Lists(n, states, h)
  PROVE  All(l) \subseteq Acceptable({p \in Known : HasState(table, p, states)}, table)
<1> DEFINE S == {p \in Known : HasState(table, p, states)}
<1> DEFINE matched   == {p \in Known : HasState(table, p, states) /\ table[p].hash = h}
           unmatched == {p \in Known : HasState(table, p, states) /\ table[p].hash # h}
           ListsWith(F) == {[matched |-> F, other |-> Acceptable(U, table)]
                            : U \in Picks(unmatched, n - Cardinality(F))}
           found == {Acceptable(M, table) : M \in Picks(matched, n)}
<1>1. l \in UNION {ListsWith(F) : F \in found}
  BY DEF Lists
<1>2. \A T, k : \A P \in Picks(T, k) : P \subseteq T
  BY DEF Picks
<1>3. \A F \in found : F \subseteq Acceptable(S, table)
  BY <1>2 DEF Acceptable
<1> HIDE DEF found
<1>4. PICK F \in found : l \in ListsWith(F)
  BY <1>1
<1>5. PICK U \in Picks(unmatched, n - Cardinality(F)) :
        l = [matched |-> F, other |-> Acceptable(U, table)]
  BY <1>4
<1>6. U \subseteq S
  BY <1>2
<1> QED
  BY <1>3, <1>5, <1>6 DEF All, Acceptable

\* Nobody who is listed as connected is the node itself.
LEMMA ListsOthers ==
  ASSUME PeersInv, NEW n, NEW h, NEW l \in Lists(n, {Connected}, h)
  PROVE  All(l) \subseteq Address \ {Self}
BY ListsEntries DEF Acceptable, Known, PeersInv, OwnNonce

LEMMA NextPeersInv == PeersInv /\ [PeersNext]_peersVars => PeersInv'
<1> SUFFICES ASSUME PeersInv, [PeersNext]_peersVars PROVE PeersInv'
  OBVIOUS
<1> USE DEF PeersInv
<1>1. ASSUME NEW p \in Remote, Change(p) PROVE PeersInv'
  <2>1. PeersTypeOK'
    BY <1>1, PeersAssumption DEF Change, PeersTypeOK
  <2> QED
    BY <1>1, <2>1 DEF Change, FirstHand, OwnNonce, NeverToItself, HasState
<1>2. CASE HeadersChange
  <2>1. PeersTypeOK'
    BY <1>2, PeersAssumption DEF HeadersChange, PeersTypeOK
  <2> QED
    BY <1>2, <2>1 DEF HeadersChange, FirstHand, OwnNonce, NeverToItself, HasState
<1>3. CASE Broadcast
  <2>1. posting' \subseteq Address \ {Self}
    BY <1>3, ListsOthers DEF Broadcast, Picks, All
  <2>2. PeersTypeOK'
    BY <1>3, <2>1 DEF Broadcast, PeersTypeOK
  <2> QED
    BY <1>3, <2>1, <2>2 DEF Broadcast, FirstHand, OwnNonce, NeverToItself, HasState
<1>4. ASSUME NEW p \in Remote, Handshake(p) PROVE PeersInv'
  <2>1. EntriesInv' /\ recent' \subseteq Address
    BY <1>4, OutcomeKeeps DEF Handshake, Address
  <2> QED
    BY <1>4, <2>1 DEF Handshake, PeersTypeOK, EntriesInv, Tables, NeverToItself
<1>5. ASSUME NEW p \in Address, Pinged(p) PROVE PeersInv'
  <2>1. EntriesInv' /\ recent' \subseteq Address
    BY <1>5, OutcomeKeeps DEF Pinged
  <2> QED
    BY <1>5, <2>1 DEF Pinged, PeersTypeOK, EntriesInv, Tables, NeverToItself
<1>6. ASSUME NEW p \in Address, Posted(p) PROVE PeersInv'
  <2>1. EntriesInv' /\ recent' \subseteq Address
    BY <1>6, OutcomeKeeps DEF Posted
  <2> QED
    BY <1>6, <2>1 DEF Posted, PeersTypeOK, EntriesInv, Tables, NeverToItself
<1>7. CASE SeedsInserted
  <2>1. PeersTypeOK'
    BY <1>7 DEF SeedsInserted, PeersTypeOK
  <2> QED
    BY <1>7, <2>1 DEF SeedsInserted, FirstHand, OwnNonce, NeverToItself, HasState
<1>8. CASE Discover
  <2>1. asking' \in Address \cup {None}
    <3>1. PICK l \in Lists(1, {Disconnected, Connected}, ownHash) :
            asking' = IF All(l) = {} THEN None ELSE CHOOSE p \in All(l) : TRUE
      BY <1>8 DEF Discover
    <3>2. All(l) \subseteq Address
      BY ListsEntries DEF Acceptable, Known
    <3> QED
      BY <3>1, <3>2
  <2>2. PeersTypeOK'
    BY <1>8, <2>1 DEF Discover, PeersTypeOK
  <2> QED
    BY <1>8, <2>2 DEF Discover, FirstHand, OwnNonce, NeverToItself, HasState
<1>9. CASE ListFailed
  <2>1. PICK p \in Address : p = asking
    BY <1>9 DEF ListFailed, PeersTypeOK
  <2>2. EntriesInv' /\ recent' \subseteq Address
    BY <1>9, <2>1, OutcomeKeeps DEF ListFailed
  <2> QED
    BY <1>9, <2>2 DEF ListFailed, PeersTypeOK, EntriesInv, Tables, NeverToItself
<1>10. CASE UpdatePeers
  <2>1. PeersTypeOK'
    BY <1>10 DEF UpdatePeers, PeersTypeOK, Known
  <2> QED
    BY <1>10, <2>1 DEF UpdatePeers, FirstHand, OwnNonce, NeverToItself, HasState
<1>11. CASE JobDone
  <2>1. PeersTypeOK'
    BY <1>11 DEF JobDone, PeersTypeOK
  <2> QED
    BY <1>11, <2>1 DEF JobDone, FirstHand, OwnNonce, NeverToItself, HasState
<1>12. ASSUME NEW S \in SUBSET Address, NEW h \in Hashes, NEW nonce \in 1..life,
              Listed(S, h, nonce)
       PROVE  PeersInv'
  <2>1. PICK a \in Address : a = asking
    BY <1>12 DEF Listed, PeersTypeOK
  <2> DEFINE updated == Update(table, a)
  <2>2. /\ table' = [p \in Address |->
             IF p \in S THEN Upsert(updated, p, Rumour(p, h, nonce), TRUE)[p] ELSE updated[p]]
        /\ told' = [told EXCEPT ![a] = Headers(a).hash]
        /\ life' = life /\ posting' = posting
    BY <1>12, <2>1 DEF Listed
  <2>3. /\ updated \in Tables
        /\ \A q \in Address \ {a} : updated[q] = table[q]
        /\ updated[a] \in {Headers(a), None}
    BY HeadersTold, UpdateEntry DEF PeersTypeOK, Tables
  <2>4. ASSUME NEW p \in Address
        PROVE  Rumour(p, h, nonce) \in Entry /\ Rumour(p, h, nonce).state = Disconnected
    BY PeersAssumption DEF Rumour, Accept, Entry, PeersTypeOK
  <2> HIDE DEF updated
  <2>5. ASSUME NEW p \in Address
        PROVE  table'[p] = updated[p] \/ table'[p] = Rumour(p, h, nonce)
    BY <2>2, <2>3 DEF Upsert, Tables
  <2>6. table' \in Tables
    BY <2>2, <2>3, <2>4, <2>5 DEF Tables
  <2>7. \A p \in Address : HasState(table', p, {Connected}) => table'[p] = updated[p]
    BY <2>4, <2>5 DEF HasState, Connected, Disconnected
  <2>8. /\ told' \in [Address -> Hashes \cup {None}]
        /\ \A q \in Address \ {a} : told'[q] = told[q]
        /\ told'[a] = Headers(a).hash
    BY <2>2, HeadersTold DEF PeersTypeOK
  <2>9. FirstHand'
    BY <2>3, <2>7, <2>8 DEF FirstHand, HasState
  <2>10. OwnNonce'
    BY <2>2, <2>3, <2>7, HeadersTold DEF OwnNonce, HasState, Address
  <2>11. PeersTypeOK'
    BY <1>12, <2>6, <2>8 DEF Listed, PeersTypeOK, Tables
  <2> QED
    BY <2>2, <2>9, <2>10, <2>11 DEF NeverToItself
<1>13. ASSUME NEW clean \in BOOLEAN, Restart(clean) PROVE PeersInv'
  <2>1. PeersTypeOK'
    BY <1>13, PeersAssumption DEF Restart, PeersTypeOK, Known
  <2> QED
    BY <1>13, <2>1 DEF Restart, FirstHand, OwnNonce, NeverToItself, HasState, Address
<1>14. CASE UNCHANGED peersVars
  BY <1>14 DEF peersVars, PeersTypeOK, FirstHand, OwnNonce, NeverToItself, HasState
<1> QED
  BY <1>1, <1>2, <1>3, <1>4, <1>5, <1>6, <1>7, <1>8, <1>9, <1>10, <1>11, <1>12, <1>13, <1>14
     DEF PeersNext, DiscoverStep

(***************************************************************************)
(* In every behaviour the entries are well formed and what the table says  *)
(* of a connected peer is what that peer told last: Peers.update, remove   *)
(* and accept of modules/peers.js keep it through lists and failures.      *)
(***************************************************************************)
THEOREM EntriesFirstHand == PeersSpec => []EntriesOK
<1>1. PeersInv => EntriesOK
  BY DEF PeersInv, EntriesOK
<1> QED
  BY <1>1, InitPeersInv, NextPeersInv, PTL DEF PeersSpec

(***************************************************************************)
(* In no behaviour the node posts a broadcast to its own address, although *)
(* other peers list it and only its nonce of this start tells it.          *)
(***************************************************************************)
THEOREM NotToItself == PeersSpec => []NeverToItself
<1>1. PeersInv => NeverToItself
  BY DEF PeersInv
<1> QED
  BY <1>1, InitPeersInv, NextPeersInv, PTL DEF PeersSpec
=============================================================================
