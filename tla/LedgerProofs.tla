----------------------------- MODULE LedgerProofs -----------------------------
(***************************************************************************)
(* For any accounts, transactions, queues and chains: the confirmed        *)
(* balances are those of the chain, the queue is empty of what the chain   *)
(* has, no transaction is confirmed twice, a sender's unconfirmed balance  *)
(* is what its queued transactions leave it, and no block is fatal, under  *)
(* the events that each of the properties allows.                          *)
(*                                                                         *)
(* The properties speak of what is true between two tasks; the invariant   *)
(* Inv says what every step of every loop leaves for the end of it:        *)
(*  - IInv: a block stays new from its acceptance to its end, since        *)
(*    nothing else is saved or deleted meanwhile;                          *)
(* and as long as no peer has given a transaction two ids (TrueIds)        *)
(*  - Shape: no list has a transaction twice, and all blocks are saved;    *)
(*  - Recounted: balance is that of the chain and of what the confirmed    *)
(*    half has done so far of the block;                                   *)
(*  - QueueNew: what is confirmed and queued is about to be refused;       *)
(*  - Exact: u_balance is less than balance by what is Promised, which is  *)
(*    another part of the lists in each loop;                              *)
(*  - Solvent: it is never negative, so what is promised can be paid;      *)
(*  - Payable: and so can the block under way, in both of its halves.      *)
(* A step is first described by what it does to the sets that the lists    *)
(* hold (Does); the parts of the invariant follow from that alone.         *)
(*                                                                         *)
(* Sums over finite sets are defined by recursion over the set.  What they *)
(* are is proved from the smallest set for which it would fail.            *)
(***************************************************************************)
EXTENDS UnconfirmedLedger, FiniteSetTheorems, SequenceTheorems, WellFoundedInduction, TLAPS

-----------------------------------------------------------------------------
(* Recursion over the subsets of a finite set                              *)

\* Of some subsets of a finite set one contains no other.
LEMMA SmallestSet ==
  ASSUME NEW S, IsFiniteSet(S), NEW T \in SUBSET (SUBSET S), T # {}
  PROVE  \E s \in T : \A r \in T : r \subseteq s => r = s
<1> DEFINE R == StrictSubsetOrdering(S)
<1>1. IsWellFoundedOn(R, FiniteSubsetsOf(S))
  BY FS_StrictSubsetOrderingWellFounded
<1>2. T \subseteq FiniteSubsetsOf(S)
  BY FS_Subset DEF FiniteSubsetsOf
<1> HIDE DEF R
<1>3. PICK s \in T : \A r \in T : <<r, s>> \notin R
  BY <1>1, <1>2, WFMin
<1>4. ASSUME NEW r \in T, r \subseteq s, r # s PROVE FALSE
  <2>1. <<r, s>> \in (SUBSET S) \X (SUBSET S)
    BY <1>4
  <2>2. <<r, s>> \in R
    BY <1>4, <2>1 DEF R, StrictSubsetOrdering
  <2> QED
    BY <1>3, <2>2
<1> QED
  BY <1>4

(* Recursion over the subsets of a finite set: one element, c[s], is taken *)
(* out of s, and step joins it to the value of the rest.                   *)
Recurs(g, S, c, base, step) ==
  \A s \in SUBSET S : g[s] = IF s = {} THEN base ELSE step[<<c[s], g[s \ {c[s]}]>>]

\* Two such tables agree where both have a value.
LEMMA RecursionUnique ==
  ASSUME NEW S, IsFiniteSet(S), NEW c, \A s \in SUBSET S : s # {} => c[s] \in s,
         NEW base, NEW step, NEW U \in SUBSET S, NEW W \in SUBSET S, NEW g, NEW h,
         Recurs(g, U, c, base, step), Recurs(h, W, c, base, step)
  PROVE  \A s \in SUBSET (U \cap W) : g[s] = h[s]
<1> DEFINE T == {s \in SUBSET (U \cap W) : g[s] # h[s]}
<1> SUFFICES ASSUME T # {} PROVE FALSE
  OBVIOUS
<1>1. T \in SUBSET (SUBSET S)
  OBVIOUS
<1> HIDE DEF T
<1>2. PICK s \in T : \A r \in T : r \subseteq s => r = s
  BY <1>1, SmallestSet
<1>3. s \in SUBSET U /\ s \in SUBSET W /\ g[s] # h[s]
  BY DEF T
<1>4. s # {}
  BY <1>3 DEF Recurs
<1>5. c[s] \in s
  BY <1>3, <1>4
<1>6. s \ {c[s]} \notin T
  BY <1>2, <1>5
<1>7. g[s \ {c[s]}] = h[s \ {c[s]}]
  BY <1>6, <1>3 DEF T
<1>8. g[s] = step[<<c[s], g[s \ {c[s]}]>>] /\ h[s] = step[<<c[s], h[s \ {c[s]}]>>]
  BY <1>3, <1>4 DEF Recurs
<1> QED
  BY <1>3, <1>7, <1>8

\* There is such a table: the one that takes each smaller set from its own.
LEMMA RecursionExists ==
  ASSUME NEW S, IsFiniteSet(S), NEW c, \A s \in SUBSET S : s # {} => c[s] \in s,
         NEW V, NEW base \in V, NEW step, \A x \in S, v \in V : step[<<x, v>>] \in V
  PROVE  \E g \in [SUBSET S -> V] : Recurs(g, S, c, base, step)
<1> DEFINE Has(U) == \E g \in [SUBSET U -> V] : Recurs(g, U, c, base, step)
           T == {U \in SUBSET S : ~Has(U)}
<1> SUFFICES ASSUME T # {} PROVE FALSE
  OBVIOUS
<1>1. T \in SUBSET (SUBSET S)
  OBVIOUS
<1> HIDE DEF T
<1>2. PICK U \in T : \A r \in T : r \subseteq U => r = U
  BY <1>1, SmallestSet
<1>3. U \in SUBSET S /\ ~Has(U) /\ \A r \in SUBSET U : r # U => Has(r)
  BY <1>2 DEF T
<1> DEFINE of == [r \in SUBSET U |->
                    CHOOSE g \in [SUBSET r -> V] : Recurs(g, r, c, base, step)]
<1>4. \A r \in SUBSET U : r # U =>
        of[r] \in [SUBSET r -> V] /\ Recurs(of[r], r, c, base, step)
  BY <1>3
<1> HIDE DEF of, Has
<1>a. ASSUME NEW r \in SUBSET U, r # U PROVE of[r][r] \in V
  <2>1. of[r] \in [SUBSET r -> V] /\ r \in SUBSET r
    BY <1>a, <1>4
  <2> QED
    BY <2>1
<1>5. \A r \in SUBSET U, s \in SUBSET U :
         r # U /\ s \subseteq r => of[s][s] = of[r][s]
  <2> SUFFICES ASSUME NEW r \in SUBSET U, NEW s \in SUBSET U, r # U, s \subseteq r
               PROVE  of[s][s] = of[r][s]
    OBVIOUS
  <2>1. s # U /\ r \in SUBSET S /\ s \in SUBSET S
    BY <1>3
  <2>2. Recurs(of[r], r, c, base, step) /\ Recurs(of[s], s, c, base, step)
    BY <1>4, <2>1
  <2>3. \A t \in SUBSET (s \cap r) : of[s][t] = of[r][t]
    BY <2>1, <2>2, RecursionUnique
  <2> QED
    BY <2>3
<1> DEFINE value == [s \in SUBSET U |->
                       IF s # U THEN of[s][s]
                       ELSE IF s = {} THEN base
                       ELSE step[<<c[s], of[s \ {c[s]}][s \ {c[s]}]>>]]
<1>6. \A s \in SUBSET U : s # {} => c[s] \in s /\ s \ {c[s]} # U /\ s \ {c[s]} \in SUBSET U
  BY <1>3
<1>7. ASSUME NEW s \in SUBSET U PROVE value[s] \in V
  <2>1. CASE s # U
    BY <2>1, <1>a
  <2>2. CASE s = U /\ s = {}
    BY <2>2
  <2>3. CASE s = U /\ s # {}
    <3>1. of[s \ {c[s]}][s \ {c[s]}] \in V /\ c[s] \in S
      BY <2>3, <1>a, <1>6, <1>3
    <3> QED
      BY <3>1, <2>3
  <2> QED
    BY <2>1, <2>2, <2>3
<1>8. ASSUME NEW s \in SUBSET U
      PROVE  value[s] = IF s = {} THEN base ELSE step[<<c[s], value[s \ {c[s]}]>>]
  <2>1. CASE s # U /\ s = {}
    BY <2>1, <1>4 DEF Recurs
  <2>2. CASE s # U /\ s # {}
    <3>1. value[s] = of[s][s] /\ value[s \ {c[s]}] = of[s \ {c[s]}][s \ {c[s]}]
      BY <2>2, <1>6
    <3>2. of[s][s] = step[<<c[s], of[s][s \ {c[s]}]>>]
      BY <2>2, <1>4 DEF Recurs
    <3>3. of[s \ {c[s]}][s \ {c[s]}] = of[s][s \ {c[s]}]
      BY <2>2, <1>5, <1>6
    <3> QED
      BY <2>2, <3>1, <3>2, <3>3
  <2>3. CASE s = U /\ s = {}
    BY <2>3
  <2>4. CASE s = U /\ s # {}
    <3>1. value[s \ {c[s]}] = of[s \ {c[s]}][s \ {c[s]}]
      BY <2>4, <1>6
    <3> QED
      BY <2>4, <3>1
  <2> QED
    BY <2>1, <2>2, <2>3, <2>4
<1> HIDE DEF value
<1>9. value \in [SUBSET U -> V]
  BY <1>7 DEF value
<1>10. Recurs(value, U, c, base, step)
  BY <1>8 DEF Recurs
<1> QED
  BY <1>3, <1>9, <1>10 DEF Has

-----------------------------------------------------------------------------
(* Sums over finite sets, as MapThenSumSet takes them: of f over S         *)

AnyOf(s) == CHOOSE x \in s : TRUE

SumTable(g, f, S) ==
  g = [s \in SUBSET S |-> IF s = {} THEN 0 ELSE f[AnyOf(s)] + g[s \ {AnyOf(s)}]]

SumOf(f, S) == (CHOOSE g : SumTable(g, f, S))[S]

\* A table of sums is what MapThenFoldSet chooses; two of them agree.
LEMMA SumTableUnique ==
  ASSUME NEW S, IsFiniteSet(S), NEW f, NEW U \in SUBSET S, NEW W \in SUBSET S,
         NEW g, NEW h, SumTable(g, f, U), SumTable(h, f, W)
  PROVE  \A s \in SUBSET (U \cap W) : g[s] = h[s]
<1> DEFINE T == {s \in SUBSET (U \cap W) : g[s] # h[s]}
<1> SUFFICES ASSUME T # {} PROVE FALSE
  OBVIOUS
<1>1. T \in SUBSET (SUBSET S)
  OBVIOUS
<1> HIDE DEF T
<1>2. PICK s \in T : \A r \in T : r \subseteq s => r = s
  BY <1>1, SmallestSet
<1>3. s \in SUBSET U /\ s \in SUBSET W /\ g[s] # h[s]
  BY DEF T
<1>4. s # {}
  BY <1>3 DEF SumTable
<1>5. AnyOf(s) \in s
  BY <1>4 DEF AnyOf
<1>6. s \ {AnyOf(s)} \notin T
  BY <1>2, <1>5
<1>7. g[s \ {AnyOf(s)}] = h[s \ {AnyOf(s)}]
  BY <1>6, <1>3 DEF T
<1>8. /\ g[s] = f[AnyOf(s)] + g[s \ {AnyOf(s)}]
      /\ h[s] = f[AnyOf(s)] + h[s \ {AnyOf(s)}]
  BY <1>3, <1>4 DEF SumTable
<1> QED
  BY <1>3, <1>7, <1>8

\* And there is one.
LEMMA SumTableExists ==
  ASSUME NEW S, IsFiniteSet(S), NEW f, \A x \in S : f[x] \in Int
  PROVE  \E g \in [SUBSET S -> Int] : SumTable(g, f, S)
<1> DEFINE c == [s \in SUBSET S |-> AnyOf(s)]
           step == [p \in S \X Int |-> f[p[1]] + p[2]]
<1>1. \A s \in SUBSET S : s # {} => c[s] \in s
  BY DEF AnyOf
<1>2. \A x \in S, v \in Int : step[<<x, v>>] = f[x] + v
  OBVIOUS
<1>3. \A s \in SUBSET S : c[s] = AnyOf(s)
  OBVIOUS
<1> HIDE DEF c, step
<1>4. ASSUME NEW x \in S, NEW v \in Int PROVE step[<<x, v>>] \in Int
  <2>1. step[<<x, v>>] = f[x] + v
    BY <1>2
  <2>2. f[x] + v \in Int
    OBVIOUS
  <2> QED
    BY <2>1, <2>2
<1>5. PICK g \in [SUBSET S -> Int] : Recurs(g, S, c, 0, step)
  <2>1. 0 \in Int
    OBVIOUS
  <2> QED
    BY <1>1, <1>4, <2>1, RecursionExists, Zenon
<1>6. ASSUME NEW s \in SUBSET S, s # {} PROVE g[s] = f[AnyOf(s)] + g[s \ {AnyOf(s)}]
  <2>1. c[s] \in S /\ s \ {c[s]} \in SUBSET S
    BY <1>1, <1>6
  <2>2. g[s \ {c[s]}] \in Int
    BY <2>1
  <2>3. step[<<c[s], g[s \ {c[s]}]>>] = f[c[s]] + g[s \ {c[s]}]
    BY <2>1, <2>2, <1>2
  <2> QED
    BY <1>5, <1>6, <2>3, <1>3 DEF Recurs
<1>7. g[{}] = 0
  BY <1>5 DEF Recurs
<1> QED
  BY <1>6, <1>7 DEF SumTable

\* What is known of a sum without its table.
LEMMA SumFirst ==
  ASSUME NEW S, IsFiniteSet(S), NEW f, \A x \in S : f[x] \in Int
  PROVE  /\ SumOf(f, S) \in Int
         /\ S = {} => SumOf(f, S) = 0
         /\ S # {} => SumOf(f, S) = f[AnyOf(S)] + SumOf(f, S \ {AnyOf(S)})
<1> DEFINE Table(U) == CHOOSE g : SumTable(g, f, U)
<1>1. ASSUME NEW U \in SUBSET S
      PROVE  SumTable(Table(U), f, U)
  <2>1. IsFiniteSet(U) /\ \A x \in U : f[x] \in Int
    BY FS_Subset
  <2>2. \E g : SumTable(g, f, U)
    BY <2>1, SumTableExists
  <2> QED
    BY <2>2
<1>2. SumOf(f, S) = Table(S)[S]
  BY DEF SumOf
<1>3. SumOf(f, S \ {AnyOf(S)}) = Table(S \ {AnyOf(S)})[S \ {AnyOf(S)}]
  BY DEF SumOf
<1>4. Table(S)[S \ {AnyOf(S)}] = Table(S \ {AnyOf(S)})[S \ {AnyOf(S)}]
  <2>1. S \ {AnyOf(S)} \in SUBSET S /\ S \in SUBSET S
    OBVIOUS
  <2>2. SumTable(Table(S), f, S) /\ SumTable(Table(S \ {AnyOf(S)}), f, S \ {AnyOf(S)})
    BY <1>1, <2>1
  <2> HIDE DEF Table
  <2>3. \A s \in SUBSET (S \cap (S \ {AnyOf(S)})) :
          Table(S)[s] = Table(S \ {AnyOf(S)})[s]
    BY <2>1, <2>2, SumTableUnique
  <2> QED
    BY <2>3
<1>5. PICK h \in [SUBSET S -> Int] : SumTable(h, f, S)
  BY SumTableExists
<1>6. SumTable(Table(S), f, S)
  BY <1>1
<1> HIDE DEF Table
<1>7. Table(S)[S] = h[S]
  <2>1. S \in SUBSET S /\ S \in SUBSET (S \cap S)
    OBVIOUS
  <2>2. \A s \in SUBSET (S \cap S) : Table(S)[s] = h[s]
    BY <1>5, <1>6, <2>1, SumTableUnique
  <2> QED
    BY <2>1, <2>2
<1>8. h[S] \in Int
  <2>1. S \in SUBSET S
    OBVIOUS
  <2> QED
    BY <2>1
<1>9. Table(S)[S] = IF S = {} THEN 0 ELSE f[AnyOf(S)] + Table(S)[S \ {AnyOf(S)}]
  BY <1>6 DEF SumTable
<1> QED
  BY <1>2, <1>3, <1>4, <1>7, <1>8, <1>9

\* Any member may be taken out first.
LEMMA SumRemove ==
  ASSUME NEW S, IsFiniteSet(S), NEW f, \A x \in S : f[x] \in Int
  PROVE  \A x \in S : SumOf(f, S) = f[x] + SumOf(f, S \ {x})
<1> DEFINE T == {U \in SUBSET S : \E x \in U : SumOf(f, U) # f[x] + SumOf(f, U \ {x})}
<1> SUFFICES ASSUME T # {} PROVE FALSE
  OBVIOUS
<1>1. T \in SUBSET (SUBSET S)
  OBVIOUS
<1>2. \A U \in (SUBSET S) \ T : \A x \in U : SumOf(f, U) = f[x] + SumOf(f, U \ {x})
  OBVIOUS
<1>3. \A U \in T : \E x \in U : SumOf(f, U) # f[x] + SumOf(f, U \ {x})
  OBVIOUS
<1> HIDE DEF T
<1>4. PICK U \in T : \A r \in T : r \subseteq U => r = U
  BY <1>1, SmallestSet
<1>5. PICK x \in U : SumOf(f, U) # f[x] + SumOf(f, U \ {x})
  BY <1>3
<1>6. U \in SUBSET S
  BY <1>1
<1>7. \A W \in SUBSET U : IsFiniteSet(W) /\ (\A y \in W : f[y] \in Int)
  BY <1>6, FS_Subset
<1>8. \A W \in SUBSET U : SumOf(f, W) \in Int
  BY <1>7, SumFirst
<1>9. PICK c : c = AnyOf(U)
  OBVIOUS
<1>10. c \in U /\ SumOf(f, U) = f[c] + SumOf(f, U \ {c})
  BY <1>5, <1>7, <1>9, SumFirst DEF AnyOf
<1>11. c # x
  BY <1>5, <1>10
<1>12. U \ {c} \notin T /\ U \ {x} \notin T
  BY <1>4, <1>5, <1>10
<1>13. /\ U \ {c} \in SUBSET S /\ U \ {x} \in SUBSET S
       /\ x \in U \ {c} /\ c \in U \ {x}
  BY <1>6, <1>5, <1>10, <1>11
<1>14. /\ SumOf(f, U \ {c}) = f[x] + SumOf(f, (U \ {c}) \ {x})
       /\ SumOf(f, U \ {x}) = f[c] + SumOf(f, (U \ {x}) \ {c})
  BY <1>2, <1>12, <1>13
<1>15. (U \ {c}) \ {x} = (U \ {x}) \ {c} /\ (U \ {c}) \ {x} \in SUBSET U
  OBVIOUS
<1>16. PICK r \in Int : r = SumOf(f, (U \ {c}) \ {x})
  BY <1>8, <1>15
<1>17. PICK fc \in Int, fx \in Int : fc = f[c] /\ fx = f[x]
  BY <1>6, <1>10
<1>18. SumOf(f, U) = fc + (fx + r)
  BY <1>10, <1>14, <1>16, <1>17
<1>19. f[x] + SumOf(f, U \ {x}) = fx + (fc + r)
  BY <1>14, <1>15, <1>16, <1>17
<1> QED
  BY <1>5, <1>18, <1>19

\* A sum of naturals is one, and no smaller than what it adds.
LEMMA SumNat ==
  ASSUME NEW S, IsFiniteSet(S), NEW f, \A x \in S : f[x] \in Nat
  PROVE  /\ SumOf(f, S) \in Nat
         /\ \A x \in S : f[x] <= SumOf(f, S)
<1> DEFINE T == {U \in SUBSET S : SumOf(f, U) \notin Nat}
<1>1. T \in SUBSET (SUBSET S)
  OBVIOUS
<1>2. \A U \in (SUBSET S) \ T : SumOf(f, U) \in Nat
  OBVIOUS
<1>3. \A U \in T : SumOf(f, U) \notin Nat
  OBVIOUS
<1> HIDE DEF T
<1>4. \A U \in SUBSET S : IsFiniteSet(U) /\ (\A x \in U : f[x] \in Int)
  BY FS_Subset
<1>5. T = {}
  <2> SUFFICES ASSUME T # {} PROVE FALSE
    OBVIOUS
  <2>1. PICK U \in T : \A r \in T : r \subseteq U => r = U
    BY <1>1, SmallestSet
  <2>2. U \in SUBSET S /\ SumOf(f, U) \notin Nat
    BY <1>1, <1>3
  <2>3. U # {}
    BY <1>4, <2>2, SumFirst
  <2>4. PICK x \in U : TRUE
    BY <2>3
  <2>5. SumOf(f, U) = f[x] + SumOf(f, U \ {x})
    BY <1>4, <2>2, SumRemove
  <2>6. U \ {x} \in SUBSET S /\ U \ {x} \notin T
    BY <2>1, <2>2
  <2>7. SumOf(f, U \ {x}) \in Nat /\ f[x] \in Nat
    BY <1>2, <2>2, <2>6
  <2> QED
    BY <2>2, <2>5, <2>7
<1>6. \A U \in SUBSET S : SumOf(f, U) \in Nat
  BY <1>2, <1>5
<1>7. ASSUME NEW x \in S PROVE f[x] <= SumOf(f, S)
  <2>1. SumOf(f, S) = f[x] + SumOf(f, S \ {x})
    BY SumRemove
  <2>2. SumOf(f, S \ {x}) \in Nat
    BY <1>6
  <2> QED
    BY <2>1, <2>2
<1> QED
  BY <1>6, <1>7
-----------------------------------------------------------------------------
(* What a sender spends, and an account receives, in a set of transactions  *)

SpendOf == [t \in Tx |-> Spend(t)]

\* What a transaction costs is a natural number.
LEMMA SpendOfTx ==
  /\ \A t \in Tx : SpendOf[t] = Spend(t) /\ Spend(t) \in Nat /\ Amount[t] \in Nat
  BY LedgerAssumption DEF SpendOf, Spend

\* Spent is such a sum.
LEMMA SpentIsSum ==
  ASSUME NEW a, NEW S \in SUBSET Tx
  PROVE  Spent(a, S) = SumOf(SpendOf, {t \in S : From[t] = a})
<1> DEFINE U == {t \in S : From[t] = a}
           Table(g) == g = [s \in SUBSET U |->
                              IF s = {} THEN 0 ELSE Spend(AnyOf(s)) + g[s \ {AnyOf(s)}]]
<1>1. Spent(a, S) = (CHOOSE g : Table(g))[U]
  BY DEF Spent, MapThenSumSet, MapThenFoldSet, AnyOf
<1>2. \A g : Table(g) <=> SumTable(g, SpendOf, U)
  <2>1. \A s \in SUBSET U : s # {} => Spend(AnyOf(s)) = SpendOf[AnyOf(s)]
    BY SpendOfTx DEF AnyOf
  <2> QED
    BY <2>1 DEF SumTable
<1> HIDE DEF Table, U
<1>3. (CHOOSE g : Table(g)) = (CHOOSE g : SumTable(g, SpendOf, U))
  BY <1>2
<1> QED
  BY <1>1, <1>3 DEF SumOf, U

\* The rewind gives back each of them once, if each is once in the block.
LEMMA ReturnedIsSpent ==
  ASSUME NEW a, task.block \in Seq(Tx), IsInjective(task.block),
         ToSet(Done) \in SUBSET ToSet(task.block)
  PROVE  Returned(a) = Spent(a, ToSet(Done))
<1> DEFINE U == {t \in ToSet(Done) : From[t] = a}
           Table(g) == g = [s \in SUBSET U |->
                              IF s = {} THEN 0 ELSE Spend(AnyOf(s)) + g[s \ {AnyOf(s)}]]
           Given(g) == g = [s \in SUBSET U |->
                              IF s = {} THEN 0
                              ELSE Copies(AnyOf(s)) * Spend(AnyOf(s)) + g[s \ {AnyOf(s)}]]
<1>1. Spent(a, ToSet(Done)) = (CHOOSE g : Table(g))[U]
  BY DEF Spent, MapThenSumSet, MapThenFoldSet, AnyOf
<1>2. Returned(a) = (CHOOSE g : Given(g))[U]
  BY DEF Returned, MapThenSumSet, MapThenFoldSet, AnyOf
<1>3. ASSUME NEW t \in ToSet(Done) PROVE Copies(t) * Spend(t) = Spend(t)
  <2>1. PICK i \in DOMAIN task.block : task.block[i] = t
    BY <1>3 DEF ToSet
  <2>2. {j \in DOMAIN task.block : task.block[j] = t} = {i}
    BY <2>1 DEF IsInjective
  <2>3. Copies(t) = 1
    BY <2>2, FS_Singleton DEF Copies
  <2>4. t \in Tx
    BY <2>1
  <2> QED
    BY <2>3, <2>4, SpendOfTx
<1>4. \A g : Given(g) <=> Table(g)
  <2>1. \A s \in SUBSET U : s # {} => AnyOf(s) \in ToSet(Done)
    BY DEF AnyOf
  <2>2. \A s \in SUBSET U :
          s # {} => Copies(AnyOf(s)) * Spend(AnyOf(s)) = Spend(AnyOf(s))
    BY <2>1, <1>3
  <2>3. ASSUME NEW g PROVE Given(g) <=> Table(g)
    <3>1. [s \in SUBSET U |->
             IF s = {} THEN 0
             ELSE Copies(AnyOf(s)) * Spend(AnyOf(s)) + g[s \ {AnyOf(s)}]] =
          [s \in SUBSET U |->
             IF s = {} THEN 0 ELSE Spend(AnyOf(s)) + g[s \ {AnyOf(s)}]]
      BY <2>2
    <3> QED
      BY <3>1
  <2> QED
    BY <2>3
<1> HIDE DEF Table, Given, U
<1>5. (CHOOSE g : Given(g)) = (CHOOSE g : Table(g))
  BY <1>4
<1> QED
  BY <1>1, <1>2, <1>5

\* So is Received.
LEMMA ReceivedIsSum ==
  ASSUME NEW a, NEW S \in SUBSET Tx
  PROVE  Received(a, S) = SumOf(Amount, {t \in S : Paid(t) = a})
  BY DEF Received, MapThenSumSet, MapThenFoldSet, AnyOf, SumOf, SumTable

\* What a sender spends in a set of transactions, one of them more or less.
LEMMA SpentSums ==
  ASSUME NEW a, NEW S \in SUBSET Tx, IsFiniteSet(S)
  PROVE  /\ Spent(a, S) \in Nat
         /\ S = {} => Spent(a, S) = 0
         /\ \A t \in S : Spent(a, S) =
                Spent(a, S \ {t}) + (IF From[t] = a THEN Spend(t) ELSE 0)
<1> DEFINE U == {t \in S : From[t] = a}
<1>1. IsFiniteSet(U)
  BY FS_Subset
<1>2. \A t \in U : SpendOf[t] \in Nat /\ SpendOf[t] \in Int
  BY SpendOfTx
<1>3. Spent(a, S) = SumOf(SpendOf, U)
  BY SpentIsSum
<1>4. ASSUME NEW t \in S
      PROVE  Spent(a, S) = Spent(a, S \ {t}) + (IF From[t] = a THEN Spend(t) ELSE 0)
  <2> DEFINE W == {u \in S \ {t} : From[u] = a}
  <2>1. Spent(a, S \ {t}) = SumOf(SpendOf, W)
    BY SpentIsSum
  <2>2. IsFiniteSet(W) /\ \A u \in W : SpendOf[u] \in Nat
    <3>1. W \in SUBSET U
      OBVIOUS
    <3> QED
      BY <3>1, <1>1, <1>2, FS_Subset
  <2>3. SumOf(SpendOf, W) \in Nat
    BY <2>2, SumNat
  <2>4. CASE From[t] = a
    <3>1. t \in U /\ W = U \ {t}
      BY <2>4
    <3> HIDE DEF U, W
    <3>2. SumOf(SpendOf, U) = SpendOf[t] + SumOf(SpendOf, W)
      BY <1>1, <1>2, <3>1, SumRemove
    <3>3. SpendOf[t] = Spend(t) /\ Spend(t) \in Nat
      BY SpendOfTx
    <3> QED
      BY <1>3, <2>1, <2>3, <2>4, <3>2, <3>3
  <2>5. CASE From[t] # a
    <3>1. W = U
      BY <2>5
    <3> HIDE DEF U, W
    <3> QED
      BY <1>3, <2>1, <2>3, <2>5, <3>1
  <2> QED
    BY <2>4, <2>5
<1>5. S = {} => U = {}
  OBVIOUS
<1> HIDE DEF U
<1> QED
  BY <1>1, <1>2, <1>3, <1>4, <1>5, SumNat, SumFirst

\* What an account receives from a set of transactions, one more or less.
LEMMA ReceivedSums ==
  ASSUME NEW a, NEW S \in SUBSET Tx, IsFiniteSet(S)
  PROVE  /\ Received(a, S) \in Nat
         /\ S = {} => Received(a, S) = 0
         /\ \A t \in S : Received(a, S) =
                Received(a, S \ {t}) + (IF Paid(t) = a THEN Amount[t] ELSE 0)
<1> DEFINE U == {t \in S : Paid(t) = a}
<1>1. IsFiniteSet(U)
  BY FS_Subset
<1>2. \A t \in U : Amount[t] \in Nat /\ Amount[t] \in Int
  BY SpendOfTx
<1>3. Received(a, S) = SumOf(Amount, U)
  BY ReceivedIsSum
<1>4. ASSUME NEW t \in S
      PROVE  Received(a, S) = Received(a, S \ {t}) + (IF Paid(t) = a THEN Amount[t] ELSE 0)
  <2> DEFINE W == {u \in S \ {t} : Paid(u) = a}
  <2>1. Received(a, S \ {t}) = SumOf(Amount, W)
    BY ReceivedIsSum
  <2>2. IsFiniteSet(W) /\ \A u \in W : Amount[u] \in Nat
    <3>1. W \in SUBSET U
      OBVIOUS
    <3> QED
      BY <3>1, <1>1, <1>2, FS_Subset
  <2>3. SumOf(Amount, W) \in Nat
    BY <2>2, SumNat
  <2>4. CASE Paid(t) = a
    <3>1. t \in U /\ W = U \ {t}
      BY <2>4
    <3> HIDE DEF U, W
    <3>2. SumOf(Amount, U) = Amount[t] + SumOf(Amount, W)
      BY <1>1, <1>2, <3>1, SumRemove
    <3>3. Amount[t] \in Nat
      BY SpendOfTx
    <3> QED
      BY <1>3, <2>1, <2>3, <2>4, <3>2, <3>3
  <2>5. CASE Paid(t) # a
    <3>1. W = U
      BY <2>5
    <3> HIDE DEF U, W
    <3> QED
      BY <1>3, <2>1, <2>3, <2>5, <3>1
  <2> QED
    BY <2>4, <2>5
<1>5. S = {} => U = {}
  OBVIOUS
<1> HIDE DEF U
<1> QED
  BY <1>1, <1>2, <1>3, <1>4, <1>5, SumNat, SumFirst
-----------------------------------------------------------------------------
(* Transactions in a row, none of them twice                                *)

OneOfEach(s) == s \in Seq(Tx) /\ IsInjective(s)

\* A list holds finitely many.
LEMMA SetFinite ==
  ASSUME NEW s \in Seq(Tx)
  PROVE  ToSet(s) \in SUBSET Tx /\ IsFiniteSet(ToSet(s))
<1> DEFINE D == 1..Len(s)
<1>1. IsFiniteSet(D)
  BY FS_Interval
<1>2. s \in Surjection(D, ToSet(s))
  BY DEF Surjection, ToSet
<1>3. IsFiniteSet(ToSet(s))
  BY <1>1, <1>2, FS_Surjection
<1> QED
  BY <1>3 DEF ToSet

\* Blocks and Lists are the sequences up to a length.
LEMMA BlocksAre ==
  ASSUME NEW n \in Nat, NEW s
  PROVE  s \in UNION {[1..k -> Tx] : k \in 0..n} <=> s \in Seq(Tx) /\ Len(s) <= n
<1>1. ASSUME s \in UNION {[1..k -> Tx] : k \in 0..n} PROVE s \in Seq(Tx) /\ Len(s) <= n
  <2>1. PICK k \in 0..n : s \in [1..k -> Tx]
    BY <1>1
  <2>2. k \in Nat
    OBVIOUS
  <2> QED
    BY <2>1, <2>2
<1>2. ASSUME s \in Seq(Tx), Len(s) <= n PROVE s \in UNION {[1..k -> Tx] : k \in 0..n}
  <2>1. Len(s) \in 0..n /\ s \in [1..Len(s) -> Tx]
    BY <1>2
  <2> QED
    BY <2>1, Zenon
<1> QED
  BY <1>1, <1>2

\* The next transaction is taken off a list.
LEMMA HeadTail ==
  ASSUME NEW s, OneOfEach(s), s # <<>>
  PROVE  /\ Head(s) \in Tx /\ Head(s) \in ToSet(s)
         /\ OneOfEach(Tail(s))
         /\ ToSet(Tail(s)) = ToSet(s) \ {Head(s)}
<1>1. PICK n \in Nat : n = Len(s)
  BY DEF OneOfEach
<1>2. /\ s \in [1..n -> Tx] /\ n >= 1 /\ DOMAIN s = 1..n /\ Head(s) = s[1]
      /\ \A i, j \in 1..n : s[i] = s[j] => i = j
  BY <1>1 DEF OneOfEach, IsInjective
<1>3. /\ Tail(s) \in Seq(Tx) /\ DOMAIN Tail(s) = 1..(n - 1)
      /\ \A i \in 1..(n - 1) : Tail(s)[i] = s[i + 1]
  BY <1>1, <1>2 DEF OneOfEach
<1>4. \A i \in 1..(n - 1) : i + 1 \in 1..n
  BY <1>2
<1>5. IsInjective(Tail(s))
  <2> SUFFICES ASSUME NEW i \in 1..(n - 1), NEW j \in 1..(n - 1), Tail(s)[i] = Tail(s)[j]
               PROVE  i = j
    BY <1>3 DEF IsInjective
  <2>1. s[i + 1] = s[j + 1]
    BY <1>3
  <2> QED
    BY <2>1, <1>2, <1>4
<1>6. ASSUME NEW t PROVE t \in ToSet(Tail(s)) <=> t \in ToSet(s) /\ t # Head(s)
  <2>1. ASSUME t \in ToSet(Tail(s)) PROVE t \in ToSet(s) /\ t # Head(s)
    <3>1. PICK i \in 1..(n - 1) : t = s[i + 1]
      BY <2>1, <1>3 DEF ToSet
    <3> QED
      BY <3>1, <1>2, <1>4 DEF ToSet
  <2>2. ASSUME t \in ToSet(s), t # Head(s) PROVE t \in ToSet(Tail(s))
    <3>1. PICK i \in 1..n : t = s[i]
      BY <2>2, <1>2 DEF ToSet
    <3>2. i # 1
      BY <3>1, <2>2, <1>2
    <3>3. i - 1 \in 1..(n - 1) /\ (i - 1) + 1 = i
      BY <3>2
    <3> QED
      BY <3>1, <3>3, <1>3 DEF ToSet
  <2> QED
    BY <2>1, <2>2
<1>7. Head(s) \in Tx /\ Head(s) \in ToSet(s)
  <2>1. 1 \in 1..n
    BY <1>2
  <2> QED
    BY <1>2, <2>1 DEF ToSet
<1> QED
  BY <1>3, <1>5, <1>6, <1>7 DEF OneOfEach

\* One more at the end.
LEMMA Appended ==
  ASSUME NEW s, OneOfEach(s), NEW t \in Tx, t \notin ToSet(s)
  PROVE  OneOfEach(Append(s, t)) /\ ToSet(Append(s, t)) = ToSet(s) \cup {t}
<1>1. PICK n \in Nat : n = Len(s)
  BY DEF OneOfEach
<1>2. /\ s \in [1..n -> Tx] /\ DOMAIN s = 1..n
      /\ \A i, j \in 1..n : s[i] = s[j] => i = j
  BY <1>1 DEF OneOfEach, IsInjective
<1>3. /\ Append(s, t) \in Seq(Tx) /\ DOMAIN Append(s, t) = 1..(n + 1)
      /\ \A i \in 1..n : Append(s, t)[i] = s[i]
      /\ Append(s, t)[n + 1] = t
  BY <1>1, <1>2 DEF OneOfEach
<1>4. \A i \in 1..(n + 1) : i \in 1..n \/ i = n + 1
  OBVIOUS
<1>5. 1..n \subseteq 1..(n + 1) /\ n + 1 \in 1..(n + 1)
  OBVIOUS
<1>6. \A i \in 1..n : s[i] # t
  BY <1>2 DEF ToSet
<1>7. IsInjective(Append(s, t))
  BY <1>2, <1>3, <1>4, <1>6 DEF IsInjective
<1>8. ToSet(Append(s, t)) = ToSet(s) \cup {t}
  BY <1>2, <1>3, <1>4, <1>5 DEF ToSet
<1> QED
  BY <1>3, <1>7, <1>8 DEF OneOfEach

\* Two lists with nothing in common.
LEMMA Joined ==
  ASSUME NEW s, NEW r, OneOfEach(s), OneOfEach(r), ToSet(s) \cap ToSet(r) = {}
  PROVE  /\ OneOfEach(s \o r) /\ ToSet(s \o r) = ToSet(s) \cup ToSet(r)
         /\ Len(s \o r) = Len(s) + Len(r)
<1>1. PICK n \in Nat, m \in Nat : n = Len(s) /\ m = Len(r)
  BY DEF OneOfEach
<1>2. /\ DOMAIN s = 1..n /\ DOMAIN r = 1..m
      /\ \A i, j \in 1..n : s[i] = s[j] => i = j
      /\ \A i, j \in 1..m : r[i] = r[j] => i = j
  BY <1>1 DEF OneOfEach, IsInjective
<1>3. /\ s \o r \in Seq(Tx) /\ DOMAIN (s \o r) = 1..(n + m) /\ Len(s \o r) = n + m
      /\ \A i \in 1..(n + m) : (s \o r)[i] = IF i <= n THEN s[i] ELSE r[i - n]
  BY <1>1 DEF OneOfEach
<1>4. \A i \in 1..(n + m) : (i <= n => i \in 1..n) /\ (~(i <= n) => i - n \in 1..m)
  OBVIOUS
<1>5. \A i \in 1..n, j \in 1..m : s[i] # r[j]
  <2>1. (\A i \in 1..n : s[i] \in ToSet(s)) /\ (\A j \in 1..m : r[j] \in ToSet(r))
    BY <1>2 DEF ToSet
  <2> QED
    BY <2>1
<1>6. IsInjective(s \o r)
  <2> SUFFICES ASSUME NEW i \in 1..(n + m), NEW j \in 1..(n + m), (s \o r)[i] = (s \o r)[j]
               PROVE  i = j
    BY <1>3 DEF IsInjective
  <2>1. CASE i <= n /\ j <= n
    BY <2>1, <1>2, <1>3, <1>4
  <2>2. CASE i <= n /\ ~(j <= n)
    BY <2>2, <1>5, <1>3, <1>4
  <2>3. CASE ~(i <= n) /\ j <= n
    BY <2>3, <1>5, <1>3, <1>4
  <2>4. CASE ~(i <= n) /\ ~(j <= n)
    <3>1. r[i - n] = r[j - n] /\ i - n \in 1..m /\ j - n \in 1..m
      BY <2>4, <1>3, <1>4
    <3>2. i - n = j - n
      BY <3>1, <1>2
    <3> QED
      BY <3>2
  <2> QED
    BY <2>1, <2>2, <2>3, <2>4
<1>7. ToSet(s \o r) \subseteq ToSet(s) \cup ToSet(r)
  BY <1>2, <1>3, <1>4 DEF ToSet
<1>8. ToSet(s) \subseteq ToSet(s \o r)
  <2>1. \A i \in 1..n : i \in 1..(n + m) /\ (s \o r)[i] = s[i]
    BY <1>3
  <2> QED
    BY <2>1, <1>2, <1>3 DEF ToSet
<1>9. ToSet(r) \subseteq ToSet(s \o r)
  <2>1. \A i \in 1..m : i + n \in 1..(n + m) /\ ~(i + n <= n) /\ (i + n) - n = i
    OBVIOUS
  <2>2. \A i \in 1..m : (s \o r)[i + n] = r[i]
    BY <1>3, <2>1
  <2>3. ASSUME NEW i \in 1..m PROVE r[i] \in ToSet(s \o r)
    BY <2>1, <2>2, <1>3 DEF ToSet
  <2> QED
    BY <2>3, <1>2 DEF ToSet
<1> QED
  BY <1>1, <1>3, <1>6, <1>7, <1>8, <1>9 DEF OneOfEach

\* The other way round.
LEMMA Reversed ==
  ASSUME NEW s, OneOfEach(s)
  PROVE  OneOfEach(Reverse(s)) /\ ToSet(Reverse(s)) = ToSet(s)
<1>1. PICK n \in Nat : n = Len(s)
  BY DEF OneOfEach
<1>2. /\ s \in [1..n -> Tx] /\ DOMAIN s = 1..n
      /\ \A i, j \in 1..n : s[i] = s[j] => i = j
  BY <1>1 DEF OneOfEach, IsInjective
<1>3. \A i \in 1..n : (n - i) + 1 \in 1..n /\ (n - ((n - i) + 1)) + 1 = i
  OBVIOUS
<1>4. /\ DOMAIN Reverse(s) = 1..n
      /\ \A i \in 1..n : Reverse(s)[i] = s[(n - i) + 1]
  BY <1>1 DEF Reverse
<1>5. Reverse(s) \in [1..n -> Tx]
  <2>1. Reverse(s) = [i \in 1..n |-> s[(n - i) + 1]]
    BY <1>1 DEF Reverse
  <2> QED
    BY <2>1, <1>2, <1>3
<1>6. IsInjective(Reverse(s))
  <2> SUFFICES ASSUME NEW i \in 1..n, NEW j \in 1..n, Reverse(s)[i] = Reverse(s)[j]
               PROVE  i = j
    BY <1>4 DEF IsInjective
  <2>1. (n - i) + 1 = (n - j) + 1
    BY <1>2, <1>3, <1>4
  <2> QED
    BY <2>1
<1>7. ToSet(Reverse(s)) = ToSet(s)
  <2>1. \A i \in 1..n : s[i] = Reverse(s)[(n - i) + 1]
    BY <1>3, <1>4
  <2> QED
    BY <2>1, <1>2, <1>3, <1>4 DEF ToSet
<1>8. Reverse(s) \in Seq(Tx)
  BY <1>5
<1> QED
  BY <1>6, <1>7, <1>8 DEF OneOfEach

\* RemoveFirst takes a transaction out, if it is there.
LEMMA FirstRemoved ==
  ASSUME NEW s, OneOfEach(s), NEW t
  PROVE  /\ OneOfEach(RemoveFirst(s, t)) /\ ToSet(RemoveFirst(s, t)) = ToSet(s) \ {t}
         /\ Len(RemoveFirst(s, t)) <= Len(s)
<1>1. PICK n \in Nat : n = Len(s)
  BY DEF OneOfEach
<1>2. /\ s \in [1..n -> Tx] /\ DOMAIN s = 1..n
      /\ \A i, j \in 1..n : s[i] = s[j] => i = j
  BY <1>1 DEF OneOfEach, IsInjective
<1>3. CASE t \notin ToSet(s)
  <2>1. RemoveFirst(s, t) = s
    BY <1>1, <1>2, <1>3 DEF RemoveFirst, ToSet
  <2> QED
    BY <2>1, <1>1, <1>3
<1>4. CASE t \in ToSet(s)
  <2>1. PICK k \in 1..n : s[k] = t
    BY <1>2, <1>4 DEF ToSet
  <2>2. SelectInSeq(s, LAMBDA v : v = t) = k
    <3>1. {i \in 1..n : s[i] = t} = {k}
      BY <1>2, <2>1
    <3>2. Min({k}) = k
      BY <2>1 DEF Min
    <3> QED
      BY <1>1, <3>1, <3>2 DEF SelectInSeq
  <2>3. RemoveFirst(s, t) = SubSeq(s, 1, k - 1) \o SubSeq(s, k + 1, n)
    BY <1>1, <2>1, <2>2 DEF RemoveFirst, RemoveAt
  <2> DEFINE p == SubSeq(s, 1, k - 1)
             q == SubSeq(s, k + 1, n)
  <2>4. /\ p \in Seq(Tx) /\ DOMAIN p = 1..(k - 1) /\ Len(p) = k - 1
        /\ \A i \in 1..(k - 1) : p[i] = s[i]
    BY <1>1, <1>2, <2>1 DEF OneOfEach
  <2>5. /\ q \in Seq(Tx) /\ DOMAIN q = 1..(n - k) /\ Len(q) = n - k
        /\ \A i \in 1..(n - k) : q[i] = s[i + k]
    BY <1>1, <1>2, <2>1 DEF OneOfEach
  <2> HIDE DEF p, q
  <2>6. /\ 1..(k - 1) \subseteq 1..n
        /\ \A i \in 1..(n - k) : i + k \in 1..n
        /\ \A i \in 1..n : i \in 1..(k - 1) \/ i = k \/ i - k \in 1..(n - k)
        /\ \A i \in 1..n : (i - k) + k = i
    BY <2>1
  <2>7. OneOfEach(p)
    <3> SUFFICES ASSUME NEW i \in 1..(k - 1), NEW j \in 1..(k - 1), p[i] = p[j]
                 PROVE  i = j
      BY <2>4 DEF OneOfEach, IsInjective
    <3> QED
      BY <1>2, <2>4, <2>6
  <2>8. OneOfEach(q)
    <3> SUFFICES ASSUME NEW i \in 1..(n - k), NEW j \in 1..(n - k), q[i] = q[j]
                 PROVE  i = j
      BY <2>5 DEF OneOfEach, IsInjective
    <3>1. i + k = j + k
      BY <1>2, <2>5, <2>6
    <3> QED
      BY <3>1, <2>1
  <2>9. ToSet(p) \cap ToSet(q) = {}
    <3> SUFFICES ASSUME NEW i \in 1..(k - 1), NEW j \in 1..(n - k), p[i] = q[j]
                 PROVE  FALSE
      BY <2>4, <2>5 DEF ToSet
    <3>1. i = j + k
      BY <1>2, <2>4, <2>5, <2>6
    <3> QED
      BY <3>1, <2>1
  <2>10. ToSet(p) \cup ToSet(q) = ToSet(s) \ {t}
    <3>1. ASSUME NEW u \in ToSet(p) \cup ToSet(q) PROVE u \in ToSet(s) /\ u # t
      <4>1. CASE u \in ToSet(p)
        <5>1. PICK i \in 1..(k - 1) : u = s[i]
          BY <4>1, <2>4 DEF ToSet
        <5>2. i \in 1..n /\ i # k
          BY <2>1
        <5> QED
          BY <5>1, <5>2, <1>2, <2>1 DEF ToSet
      <4>2. CASE u \in ToSet(q)
        <5>1. PICK i \in 1..(n - k) : u = s[i + k]
          BY <4>2, <2>5 DEF ToSet
        <5>2. i + k \in 1..n /\ i + k # k
          BY <2>1
        <5> QED
          BY <5>1, <5>2, <1>2, <2>1 DEF ToSet
      <4> QED
        BY <4>1, <4>2
    <3>2. ASSUME NEW u \in ToSet(s), u # t PROVE u \in ToSet(p) \cup ToSet(q)
      <4>1. PICK i \in 1..n : u = s[i]
        BY <1>2 DEF ToSet
      <4>2. i # k
        BY <3>2, <4>1, <2>1
      <4>3. CASE i \in 1..(k - 1)
        BY <4>1, <4>3, <2>4 DEF ToSet
      <4>4. CASE i - k \in 1..(n - k)
        <5>1. q[i - k] = u
          BY <4>1, <4>4, <2>5, <2>6
        <5> QED
          BY <5>1, <4>4, <2>5 DEF ToSet
      <4> QED
        BY <4>2, <4>3, <4>4, <2>6
    <3> QED
      BY <3>1, <3>2
  <2>11. /\ OneOfEach(p \o q) /\ ToSet(p \o q) = ToSet(s) \ {t}
         /\ Len(p \o q) = (k - 1) + (n - k)
    BY <2>4, <2>5, <2>7, <2>8, <2>9, <2>10, Joined
  <2>12. RemoveFirst(s, t) = p \o q
    BY <2>3 DEF p, q
  <2>13. (k - 1) + (n - k) <= n
    BY <2>1
  <2> QED
    BY <1>1, <2>11, <2>12, <2>13
<1> QED
  BY <1>3, <1>4

\* A loop over a block: what is to come is a tail of it.
LEMMA TailOfBlock ==
  ASSUME NEW block, OneOfEach(block), NEW k \in 0..Len(block), NEW list,
         list = SubSeq(block, k + 1, Len(block))
  PROVE  /\ OneOfEach(list) /\ ToSet(list) \subseteq ToSet(block)
         /\ Len(block) - Len(list) = k
         /\ ToSet(SubSeq(block, 1, k)) = ToSet(block) \ ToSet(list)
         /\ list # <<>> => /\ k + 1 \in 0..Len(block)
                          /\ Tail(list) = SubSeq(block, (k + 1) + 1, Len(block))
<1>1. PICK n \in Nat : n = Len(block)
  BY DEF OneOfEach
<1>2. /\ block \in [1..n -> Tx] /\ DOMAIN block = 1..n /\ k \in Nat /\ k <= n
      /\ \A i, j \in 1..n : block[i] = block[j] => i = j
  BY <1>1 DEF OneOfEach, IsInjective
<1>3. /\ list \in Seq(Tx) /\ DOMAIN list = 1..(n - k) /\ Len(list) = n - k
      /\ \A i \in 1..(n - k) : list[i] = block[i + k]
  BY <1>1, <1>2 DEF OneOfEach
<1> DEFINE p == SubSeq(block, 1, k)
<1>4. DOMAIN p = 1..k /\ \A i \in 1..k : p[i] = block[i]
  BY <1>1, <1>2 DEF OneOfEach
<1> HIDE DEF p
<1>5. /\ \A i \in 1..(n - k) : i + k \in 1..n
      /\ 1..k \subseteq 1..n
      /\ \A i \in 1..n : i \in 1..k \/ i - k \in 1..(n - k)
      /\ \A i \in 1..n : (i - k) + k = i
  BY <1>2
<1>6. OneOfEach(list)
  <2> SUFFICES ASSUME NEW i \in 1..(n - k), NEW j \in 1..(n - k), list[i] = list[j]
               PROVE  i = j
    BY <1>3 DEF OneOfEach, IsInjective
  <2>1. i + k = j + k
    BY <1>2, <1>3, <1>5
  <2> QED
    BY <2>1, <1>2
<1>7. ToSet(list) \subseteq ToSet(block)
  BY <1>2, <1>3, <1>5 DEF ToSet
<1>8. ToSet(p) = ToSet(block) \ ToSet(list)
  <2>1. ASSUME NEW u \in ToSet(p) PROVE u \in ToSet(block) /\ u \notin ToSet(list)
    <3>1. PICK i \in 1..k : u = block[i]
      BY <1>4 DEF ToSet
    <3>2. i \in 1..n /\ \A j \in 1..(n - k) : i # j + k
      BY <1>2
    <3>3. \A j \in 1..(n - k) : block[i] # block[j + k]
      BY <3>2, <1>2, <1>5
    <3> QED
      BY <3>1, <3>2, <3>3, <1>2, <1>3 DEF ToSet
  <2>2. ASSUME NEW u \in ToSet(block), u \notin ToSet(list) PROVE u \in ToSet(p)
    <3>1. PICK i \in 1..n : u = block[i]
      BY <1>2 DEF ToSet
    <3>2. CASE i \in 1..k
      BY <3>1, <3>2, <1>4 DEF ToSet
    <3>3. CASE i - k \in 1..(n - k)
      <4>1. list[i - k] = u
        BY <3>1, <3>3, <1>3, <1>5
      <4>2. u \in ToSet(list)
        BY <4>1, <3>3, <1>3 DEF ToSet
      <4> QED
        BY <4>2, <2>2
    <3> QED
      BY <3>2, <3>3, <1>5
  <2> QED
    BY <2>1, <2>2
<1>9. ASSUME list # <<>>
      PROVE  k + 1 \in 0..n /\ Tail(list) = SubSeq(block, (k + 1) + 1, n)
  <2>1. k + 1 \in 0..n
    BY <1>9, <1>2, <1>3
  <2>2. /\ Tail(list) \in Seq(Tx) /\ Len(Tail(list)) = (n - k) - 1
        /\ \A i \in 1..((n - k) - 1) : Tail(list)[i] = list[i + 1]
    BY <1>3, <1>9, <2>1
  <2>3. /\ SubSeq(block, (k + 1) + 1, n) \in Seq(Tx)
        /\ Len(SubSeq(block, (k + 1) + 1, n)) = (n - k) - 1
        /\ \A i \in 1..((n - k) - 1) :
              SubSeq(block, (k + 1) + 1, n)[i] = block[i + (k + 1)]
    BY <1>1, <1>2, <2>1 DEF OneOfEach
  <2>4. \A i \in 1..((n - k) - 1) :
           i + 1 \in 1..(n - k) /\ (i + 1) + k = i + (k + 1)
    BY <2>1, <1>2
  <2>5. \A i \in 1..((n - k) - 1) : Tail(list)[i] = SubSeq(block, (k + 1) + 1, n)[i]
    BY <1>3, <2>2, <2>3, <2>4
  <2> DEFINE q == SubSeq(block, (k + 1) + 1, n)
             r == Tail(list)
             m == (n - k) - 1
  <2>6. q \in Seq(Tx) /\ r \in Seq(Tx) /\ Len(q) = m /\ Len(r) = m
        /\ \A i \in 1..m : r[i] = q[i]
    BY <2>2, <2>3, <2>5
  <2> HIDE DEF q, r, m
  <2>7. q = r
    BY <2>6
  <2> QED
    BY <2>1, <2>7 DEF q, r
<1> QED
  BY <1>1, <1>2, <1>3, <1>6, <1>7, <1>8, <1>9 DEF p
-----------------------------------------------------------------------------
(* The transactions of a deleted block, taken back one after the other      *)

\* The last of some positions, which FoldLeft takes first.
LEMMA MaxExists ==
  ASSUME NEW n \in Nat, NEW S \in SUBSET (1..n), S # {}
  PROVE  Max(S) \in S /\ \A y \in S : Max(S) >= y
<1> DEFINE AtLeast(y) == {x \in S : x >= y}
           T == {AtLeast(y) : y \in S}
<1>1. IsFiniteSet(S)
  <2>1. PICK N : N = 1..n
    OBVIOUS
  <2>2. IsFiniteSet(N)
    BY <2>1, FS_Interval
  <2>3. S \in SUBSET N
    BY <2>1
  <2> QED
    BY <2>2, <2>3, FS_Subset
<1>2. T \in SUBSET (SUBSET S) /\ T # {}
  OBVIOUS
<1>3. \A r \in T : \E y \in S : r = AtLeast(y)
  OBVIOUS
<1>4. \A y \in S : AtLeast(y) \in T
  OBVIOUS
<1> HIDE DEF T
<1>5. PICK s \in T : \A r \in T : r \subseteq s => r = s
  <2>1. PICK N : N = S
    OBVIOUS
  <2>2. IsFiniteSet(N) /\ T \in SUBSET (SUBSET N) /\ T # {}
    BY <1>1, <1>2, <2>1
  <2> QED
    BY <2>2, SmallestSet
<1>6. PICK y \in S : s = AtLeast(y)
  BY <1>3
<1>7. ASSUME NEW z \in S, ~(y >= z) PROVE FALSE
  <2>1. AtLeast(z) \in T
    BY <1>4
  <2>2. y \in s /\ y \notin AtLeast(z)
    BY <1>6, <1>7
  <2>3. AtLeast(z) \subseteq s
    <3>1. \A x \in S : x \in Int
      OBVIOUS
    <3>2. ASSUME NEW x \in S, x >= z PROVE x >= y
      BY <3>1, <3>2, <1>7
    <3> QED
      BY <3>2, <1>6
  <2> QED
    BY <2>1, <2>2, <2>3, <1>5
<1>8. y \in S /\ \A z \in S : y >= z
  BY <1>7
<1> QED
  BY <1>8 DEF Max

\* One transaction undone in either balance.
LEMMA TakenBackOne ==
  ASSUME NEW f \in [Account -> Int], NEW t \in Tx
  PROVE  /\ TakeBack(Undo(f, t), t) \in [Account -> Int]
         /\ \A a \in Account : TakeBack(Undo(f, t), t)[a] =
              (f[a] + (IF From[t] = a THEN Spend(t) ELSE 0))
                    - (IF Paid(t) = a THEN Amount[t] ELSE 0)
<1>1. From[t] \in Account /\ Paid(t) \in Account
  BY LedgerAssumption DEF Paid
<1>2. Spend(t) \in Int /\ Amount[t] \in Int
  BY SpendOfTx
<1>3. PICK g \in [Account -> Int] : g = Undo(f, t)
  <2>1. f[From[t]] + Spend(t) \in Int
    BY <1>1, <1>2
  <2>2. Undo(f, t) \in [Account -> Int]
    BY <2>1 DEF Undo, Merge
  <2> QED
    BY <2>2
<1>4. \A a \in Account : g[a] = f[a] + (IF From[t] = a THEN Spend(t) ELSE 0)
  BY <1>1, <1>2, <1>3 DEF Undo, Merge
<1>5. TakeBack(g, t) = Merge(g, Paid(t), -Amount[t])
  BY DEF TakeBack, InTransferUndo, TransferUndo, Paid
<1>6. /\ Merge(g, Paid(t), -Amount[t]) \in [Account -> Int]
      /\ \A a \in Account : Merge(g, Paid(t), -Amount[t])[a] =
           g[a] - (IF Paid(t) = a THEN Amount[t] ELSE 0)
  BY <1>1, <1>2 DEF Merge
<1> QED
  BY <1>3, <1>4, <1>5, <1>6

\* The fold of DeleteLastBlock gives back what was spent, takes what was received.
LEMMA TakenBack ==
  ASSUME NEW s, OneOfEach(s), NEW f \in [Account -> Int]
  PROVE  LET back(g, t) == TakeBack(Undo(g, t), t)
         IN  FoldLeft(back, f, s) =
               [a \in Account |-> (f[a] + Spent(a, ToSet(s))) - Received(a, ToSet(s))]
<1> DEFINE back(g, t) == TakeBack(Undo(g, t), t)
           D == DOMAIN s
           Table(g) == g = [S \in SUBSET D |->
                              IF S = {} THEN f ELSE back(g[S \ {Max(S)}], s[Max(S)])]
           V == [Account -> Int]
<1>1. PICK n \in Nat : n = Len(s)
  BY DEF OneOfEach
<1>2. /\ s \in [1..n -> Tx] /\ D = 1..n
      /\ \A i, j \in 1..n : s[i] = s[j] => i = j
  BY <1>1 DEF OneOfEach, IsInjective
<1>3. FoldLeft(back, f, s) = (CHOOSE g : Table(g))[D]
  BY DEF FoldLeft, MapThenFoldSet
<1>4. ASSUME NEW v \in V, NEW t \in Tx PROVE back(v, t) \in V
  BY <1>4, TakenBackOne
<1>5. \E g \in [SUBSET D -> V] : Table(g)
  <2> DEFINE c == [S \in SUBSET D |-> Max(S)]
             step == [p \in D \X V |-> back(p[2], s[p[1]])]
  <2>1. \A S \in SUBSET D : S # {} => c[S] \in S
    BY <1>2, MaxExists
  <2>2. \A S \in SUBSET D : c[S] = Max(S)
    OBVIOUS
  <2>3. \A i \in D, v \in V : step[<<i, v>>] = back(v, s[i])
    OBVIOUS
  <2>4. \A i \in D, v \in V : back(v, s[i]) \in V
    <3> HIDE DEF back, V
    <3> QED
      BY <1>4, <1>2
  <2> HIDE DEF c, step, back, V
  <2>5. \A i \in D, v \in V : step[<<i, v>>] \in V
    BY <2>3, <2>4
  <2>6. IsFiniteSet(D)
    BY <1>2, FS_Interval
  <2>7. f \in V
    BY DEF V
  <2> HIDE DEF D
  <2>8. PICK g \in [SUBSET D -> V] : Recurs(g, D, c, f, step)
    BY <2>1, <2>5, <2>6, <2>7, RecursionExists
  <2>9. ASSUME NEW S \in SUBSET D, S # {} PROVE g[S] = back(g[S \ {Max(S)}], s[Max(S)])
    <3>1. c[S] \in D /\ S \ {c[S]} \in SUBSET D
      BY <2>1, <2>9
    <3>2. g[S \ {c[S]}] \in V
      BY <3>1
    <3>3. step[<<c[S], g[S \ {c[S]}]>>] = back(g[S \ {c[S]}], s[c[S]])
      BY <3>1, <3>2, <2>3
    <3> QED
      BY <2>8, <2>9, <3>3, <2>2 DEF Recurs
  <2>10. g[{}] = f
    BY <2>8 DEF Recurs
  <2> QED
    BY <2>9, <2>10
<1> DEFINE h == CHOOSE g : Table(g)
<1>6. Table(h)
  BY <1>5
<1> DEFINE P(k) == {s[i] : i \in 1..k}
           Expected(k) == [a \in Account |-> (f[a] + Spent(a, P(k))) - Received(a, P(k))]
<1>7. h[{}] = f /\ \A S \in SUBSET D : S # {} => h[S] = back(h[S \ {Max(S)}], s[Max(S)])
  BY <1>6
<1> HIDE DEF h, Table
<1>8. \A k \in 0..n : P(k) \in SUBSET Tx /\ IsFiniteSet(P(k))
  <2> SUFFICES ASSUME NEW k \in 0..n PROVE P(k) \in SUBSET Tx /\ IsFiniteSet(P(k))
    OBVIOUS
  <2>1. P(k) \in SUBSET ToSet(s)
    BY <1>2 DEF ToSet
  <2>2. ToSet(s) \in SUBSET Tx /\ IsFiniteSet(ToSet(s))
    BY SetFinite DEF OneOfEach
  <2> QED
    BY <2>1, <2>2, FS_Subset
<1>9. ASSUME NEW k \in 1..n, h[1..(k - 1)] = Expected(k - 1)
      PROVE  h[1..k] = Expected(k)
  <2>1. Max(1..k) = k
    <3>1. 1..k \in SUBSET (1..k) /\ 1..k # {} /\ k \in Nat /\ k \in 1..k
      OBVIOUS
    <3>2. Max(1..k) \in 1..k /\ \A y \in 1..k : Max(1..k) >= y
      BY <3>1, MaxExists
    <3> QED
      BY <3>1, <3>2
  <2>2. (1..k) \ {k} = 1..(k - 1) /\ 1..k \in SUBSET D /\ 1..k # {}
    <3>1. \A i \in 1..k : i = k \/ i \in 1..(k - 1)
      OBVIOUS
    <3>2. \A i \in 1..(k - 1) : i # k /\ i \in 1..k
      OBVIOUS
    <3>3. 1..k \subseteq 1..n /\ k \in 1..k
      OBVIOUS
    <3> QED
      BY <1>2, <3>1, <3>2, <3>3
  <2>3. h[1..k] = back(Expected(k - 1), s[k])
    BY <1>7, <1>9, <2>1, <2>2
  <2>4. s[k] \in Tx /\ k - 1 \in 0..n
    BY <1>2
  <2>5. s[k] \in P(k) /\ P(k) \ {s[k]} = P(k - 1)
    <3>1. k \in 1..k /\ 1..(k - 1) \subseteq 1..k /\ 1..k \subseteq 1..n
      OBVIOUS
    <3>2. \A i \in 1..k : i = k \/ i \in 1..(k - 1)
      OBVIOUS
    <3>3. \A i \in 1..(k - 1) : s[i] # s[k]
      BY <1>2, <3>1
    <3> QED
      BY <3>1, <3>2, <3>3
  <2>6. \A a \in Account :
           /\ Spent(a, P(k)) =
                Spent(a, P(k - 1)) + (IF From[s[k]] = a THEN Spend(s[k]) ELSE 0)
           /\ Received(a, P(k)) =
                Received(a, P(k - 1)) + (IF Paid(s[k]) = a THEN Amount[s[k]] ELSE 0)
           /\ Spent(a, P(k - 1)) \in Nat /\ Received(a, P(k - 1)) \in Nat
    <3>1. /\ P(k) \in SUBSET Tx /\ IsFiniteSet(P(k))
          /\ P(k - 1) \in SUBSET Tx /\ IsFiniteSet(P(k - 1))
      <4> HIDE DEF P
      <4>1. k \in 0..n
        OBVIOUS
      <4> QED
        BY <1>8, <2>4, <4>1
    <3> HIDE DEF P
    <3> TAKE a \in Account
    <3>2. Spent(a, P(k - 1)) \in Nat /\ Received(a, P(k - 1)) \in Nat
      BY <3>1, SpentSums, ReceivedSums
    <3>3. Spent(a, P(k)) =
            Spent(a, P(k) \ {s[k]}) + (IF From[s[k]] = a THEN Spend(s[k]) ELSE 0)
      BY <3>1, <2>5, SpentSums
    <3>4. Received(a, P(k)) =
            Received(a, P(k) \ {s[k]}) + (IF Paid(s[k]) = a THEN Amount[s[k]] ELSE 0)
      BY <3>1, <2>5, ReceivedSums
    <3> QED
      BY <3>2, <3>3, <3>4, <2>5
  <2> HIDE DEF P
  <2>7. Expected(k - 1) \in [Account -> Int]
    BY <2>6
  <2>8. /\ back(Expected(k - 1), s[k]) \in [Account -> Int]
        /\ \A a \in Account : back(Expected(k - 1), s[k])[a] =
              (Expected(k - 1)[a] + (IF From[s[k]] = a THEN Spend(s[k]) ELSE 0))
                    - (IF Paid(s[k]) = a THEN Amount[s[k]] ELSE 0)
    <3> HIDE DEF Expected
    <3> QED
      BY <2>4, <2>7, TakenBackOne
  <2>9. Spend(s[k]) \in Int /\ Amount[s[k]] \in Int
    BY <2>4, SpendOfTx
  <2>10. ASSUME NEW a \in Account PROVE h[1..k][a] = Expected(k)[a]
    <3>1. PICK x \in Int, y \in Int : x = (IF From[s[k]] = a THEN Spend(s[k]) ELSE 0)
                                    /\ y = (IF Paid(s[k]) = a THEN Amount[s[k]] ELSE 0)
      BY <2>9
    <3>2. PICK sp \in Int, re \in Int :
            sp = Spent(a, P(k - 1)) /\ re = Received(a, P(k - 1))
      BY <2>6
    <3>3. Expected(k)[a] = (f[a] + (sp + x)) - (re + y)
      BY <2>6, <3>1, <3>2
    <3>4. Expected(k - 1)[a] = (f[a] + sp) - re
      BY <3>2
    <3>5. h[1..k][a] = (Expected(k - 1)[a] + x) - y
      BY <2>3, <2>8, <3>1
    <3>6. PICK fa \in Int : fa = f[a]
      OBVIOUS
    <3> HIDE DEF Expected
    <3>7. h[1..k][a] = (((fa + sp) - re) + x) - y
      BY <3>4, <3>5, <3>6
    <3>8. Expected(k)[a] = (fa + (sp + x)) - (re + y)
      BY <3>3, <3>6
    <3>9. (((fa + sp) - re) + x) - y = (fa + (sp + x)) - (re + y)
      OBVIOUS
    <3> QED
      BY <3>7, <3>8, <3>9
  <2> QED
    BY <2>3, <2>8, <2>10
<1>10. h[1..0] = Expected(0)
  <2>1. P(0) = {} /\ 1..0 = {}
    OBVIOUS
  <2>2. \A a \in Account : Spent(a, P(0)) = 0 /\ Received(a, P(0)) = 0
    BY <2>1, FS_EmptySet, SpentSums, ReceivedSums
  <2> HIDE DEF P
  <2> QED
    BY <1>7, <2>1, <2>2
<1> HIDE DEF P, Expected
<1>11. \A k \in 0..n : h[1..k] = Expected(k)
  <2> DEFINE T == {1..k : k \in {i \in 0..n : h[1..i] # Expected(i)}}
  <2> SUFFICES ASSUME NEW bad \in 0..n, h[1..bad] # Expected(bad) PROVE FALSE
    OBVIOUS
  <2>a. PICK N : N = 1..n
    OBVIOUS
  <2>1. T \in SUBSET (SUBSET N) /\ T # {}
    BY <2>a
  <2>2. \A k \in 0..n : h[1..k] # Expected(k) => 1..k \in T
    OBVIOUS
  <2>3. \A r \in T : \E k \in 0..n : r = 1..k /\ h[1..k] # Expected(k)
    OBVIOUS
  <2>4. IsFiniteSet(N)
    BY <2>a, FS_Interval
  <2> HIDE DEF T
  <2>5. PICK r \in T : \A q \in T : q \subseteq r => q = r
    BY <2>1, <2>4, SmallestSet
  <2>6. PICK k \in 0..n : r = 1..k /\ h[1..k] # Expected(k)
    BY <2>3
  <2>7. k # 0
    BY <2>6, <1>10
  <2>8. k \in 1..n /\ k - 1 \in 0..n
    BY <2>7
  <2>9. h[1..(k - 1)] # Expected(k - 1)
    BY <1>9, <2>6, <2>8
  <2>10. 1..(k - 1) \in T
    BY <2>2, <2>8, <2>9
  <2>11. 1..(k - 1) \subseteq r /\ 1..(k - 1) # r
    <3>1. k \in 1..k /\ k \notin 1..(k - 1)
      BY <2>8
    <3> QED
      BY <3>1, <2>6
  <2> QED
    BY <2>5, <2>10, <2>11
<1>12. n \in 0..n /\ h[1..n] = Expected(n)
  BY <1>11
<1>13. P(n) = ToSet(s)
  BY <1>2 DEF P, ToSet
<1>14. FoldLeft(back, f, s) = Expected(n)
  BY <1>2, <1>3, <1>12 DEF h
<1> QED
  BY <1>13, <1>14 DEF Expected
-----------------------------------------------------------------------------
(* The task, and what the chain confirms                                    *)

\* A task has these fields, whatever they hold.
IsTask(t) ==
  t = [stage |-> t.stage, list |-> t.list, block |-> t.block, ids |-> t.ids,
       next |-> t.next, attempt |-> t.attempt]

\* The task is inside of applyBlock, from its acceptance to its end.
BlockUnderWay(t) ==
  \/ t.stage \in {"unconfirmed", "confirmed"}
  \/ t.stage = "undo" /\ t.next # "syncing"

Fresh(block) ==
  /\ block \in Blocks
  /\ ToSet(block) \cap Confirmed = {}

BlockFresh == BlockUnderWay(task) => Fresh(task.block)

Apart ==
  \A i, j \in DOMAIN chain :
    i # j /\ Saved(i) /\ Saved(j) => ToSet(chain[i]) \cap ToSet(chain[j]) = {}

\* Whatever ids the peers give to the transactions of their blocks.
AnyIds ==
  /\ IsTask(task)
  /\ chain \in Seq(Blocks)
  /\ BlockFresh
  /\ Apart

\* Each transaction has one id.
Single ==
  /\ BlockUnderWay(task) => IsInjective(task.block)
  /\ Saved(Len(chain))

IInv ==
  /\ AnyIds
  /\ events \in [Events -> 0..MaxEvents]
  /\ TrueIds => Single

-----------------------------------------------------------------------------
(* Events                                                                   *)

\* An event that a bound allows is counted, and what has happened has happened.
LEMMA Happened ==
  ASSUME events \in [Events -> 0..MaxEvents], NEW kinds, Happen(kinds)
  PROVE  /\ events' \in [Events -> 0..MaxEvents]
         /\ kinds \subseteq Events
         /\ \A kind \in Events : events'[kind] >= events[kind]
         /\ \A kind \in kinds : events'[kind] > 0
<1>1. IsFiniteSet(Events)
  <2>1. PICK S : S = {"expire", "sync", "replay", "delete", "overspend", "alias"}
    OBVIOUS
  <2>2. IsFiniteSet(S)
    <3>1. IsFiniteSet({"expire"})
      BY FS_Singleton
    <3>2. IsFiniteSet({"expire"} \cup {"sync"})
      BY <3>1, FS_AddElement
    <3>3. IsFiniteSet(({"expire"} \cup {"sync"}) \cup {"replay"})
      BY <3>2, FS_AddElement
    <3>4. IsFiniteSet((({"expire"} \cup {"sync"}) \cup {"replay"}) \cup {"delete"})
      BY <3>3, FS_AddElement
    <3>5. IsFiniteSet(((({"expire"} \cup {"sync"}) \cup {"replay"}) \cup {"delete"})
                      \cup {"overspend"})
      BY <3>4, FS_AddElement
    <3>6. IsFiniteSet((((({"expire"} \cup {"sync"}) \cup {"replay"}) \cup {"delete"})
                       \cup {"overspend"}) \cup {"alias"})
      BY <3>5, FS_AddElement
    <3>7. S = (((({"expire"} \cup {"sync"}) \cup {"replay"}) \cup {"delete"})
                       \cup {"overspend"}) \cup {"alias"}
      BY <2>1
    <3> QED
      BY <3>6, <3>7
  <2>3. Events \in SUBSET S
    BY <2>1, LedgerAssumption
  <2> QED
    BY <2>2, <2>3, FS_Subset
<1>2. \A kind \in Events : events[kind] \in Nat
  OBVIOUS
<1>3. MapThenSumSet(LAMBDA kind : events[kind], Events) = SumOf(events, Events)
  BY DEF MapThenSumSet, MapThenFoldSet, AnyOf, SumOf, SumTable
<1>4. PICK n \in Nat : n = SumOf(events, Events) /\ \A kind \in Events : events[kind] <= n
  BY <1>1, <1>2, SumNat
<1>5. /\ kinds \subseteq Events
      /\ n + Cardinality(kinds) <= MaxEvents
      /\ events' = [kind \in Events |-> IF kind \in kinds THEN events[kind] + 1
                                                          ELSE events[kind]]
  BY <1>3, <1>4 DEF Happen
<1>6. IsFiniteSet(kinds) /\ Cardinality(kinds) \in Nat
  BY <1>1, <1>5, FS_Subset, FS_CardinalityType
<1>7. kinds # {} => Cardinality(kinds) >= 1
  BY <1>6, FS_EmptySet
<1>8. ASSUME NEW kind \in Events PROVE events'[kind] \in 0..MaxEvents
  <2>1. events[kind] \in Nat /\ events[kind] <= n /\ MaxEvents \in Nat
    BY <1>2, <1>4, LedgerAssumption
  <2>2. CASE kind \in kinds
    <3>1. Cardinality(kinds) >= 1 /\ events'[kind] = events[kind] + 1
      BY <2>2, <1>5, <1>7
    <3> QED
      BY <3>1, <2>1, <1>5, <1>6
  <2>3. CASE kind \notin kinds
    BY <2>3, <1>5
  <2> QED
    BY <2>2, <2>3
<1>9. events' \in [Events -> 0..MaxEvents]
  BY <1>5, <1>8
<1> QED
  BY <1>2, <1>5, <1>9

\* The events that a step counts have happened after it.
LEMMA HappenedOther ==
  ASSUME IInv, NEW kinds, Happen(kinds)
  PROVE  \A kind \in kinds : kind \in Events /\ events'[kind] # 0
<1>1. events \in [Events -> 0..MaxEvents]
  BY DEF IInv
<1>2. \A kind \in kinds : kind \in Events /\ events'[kind] > 0
  BY <1>1, Happened
<1> QED
  BY <1>2

\* Every step counts its events, or none.
LEMMA EventsTyped ==
  ASSUME IInv, [Next]_vars
  PROVE  /\ events' \in [Events -> 0..MaxEvents]
         /\ \A kind \in Events : events'[kind] >= events[kind] /\ events[kind] \in Nat
<1>1. events \in [Events -> 0..MaxEvents]
  BY DEF IInv
<1>2. events' = events \/ \E kinds : Happen(kinds)
  BY DEF Next, vars, FillPool, ReceiveBlock, SyncBlock, Step, ApplyTransaction, ApplyFailed,
     ApplyUnknown, UndoTransaction, BlockApplyUnconfirmed, BlockApply, Expire, Event, Stage,
     ApplyEnd, UndoEnd, BlockRewind, BlockUnconfirmedEnd, BlockFatal, BlockSave,
     GenerateBlock, DeleteLastBlock, SyncStart, SyncFail, SyncEnd
<1> QED
  BY <1>1, <1>2, Happened

\* What has not happened after a step had not before it.
LEMMA OnlyBefore ==
  ASSUME IInv, [Next]_vars, NEW only, OnlyHappened(only)'
  PROVE  OnlyHappened(only)
<1>3. \A kind \in Events : events'[kind] >= events[kind] /\ events[kind] \in Nat
  BY EventsTyped
<1>4. ASSUME NEW kind \in Events \ only PROVE events[kind] = 0
  <2>1. events'[kind] = 0
    BY DEF OnlyHappened
  <2> QED
    BY <1>3, <2>1
<1> QED
  BY <1>4 DEF OnlyHappened

-----------------------------------------------------------------------------
(* The tasks that begin, and what a step may leave of one                  *)

\* No task is a task with no block under way.
LEMMA NoTaskIsTask ==
  IsTask(NoTask) /\ NoTask.stage = "idle" /\ ~BlockUnderWay(NoTask)
  BY DEF NoTask, IsTask, BlockUnderWay

\* A task that begins or goes on syncing has no block under way.
LEMMA BegunIsTask ==
  ASSUME NEW t, IsTask(t), NEW attempt, NEW queue, NEW begun,
         \/ begun = [t EXCEPT !.stage = "syncing", !.attempt = attempt]
         \/ begun = [t EXCEPT !.stage = "undo", !.list = queue, !.next = "syncing",
                              !.attempt = attempt]
  PROVE  IsTask(begun) /\ ~BlockUnderWay(begun)
<1>1. CASE begun = [t EXCEPT !.stage = "syncing", !.attempt = attempt]
  BY <1>1 DEF IsTask, BlockUnderWay
<1>2. CASE begun = [t EXCEPT !.stage = "undo", !.list = queue, !.next = "syncing",
                             !.attempt = attempt]
  BY <1>2 DEF IsTask, BlockUnderWay
<1> QED
  BY <1>1, <1>2

\* A sync between two blocks.
LEMMA SyncingIsTask ==
  ASSUME NEW attempt
  PROVE  IsTask(Syncing(attempt)) /\ ~BlockUnderWay(Syncing(attempt))
<1> DEFINE begun == Syncing(attempt)
<1>1. begun = [NoTask EXCEPT !.stage = "syncing", !.attempt = attempt]
  BY DEF Syncing
<1> HIDE DEF begun
<1>2. IsTask(begun) /\ ~BlockUnderWay(begun)
  BY <1>1, NoTaskIsTask, BegunIsTask
<1> QED
  BY <1>2 DEF begun

\* A sync that undoes the queue.
LEMMA SyncIsTask ==
  ASSUME NEW attempt, NEW begun, begun = Sync(attempt)
  PROVE  IsTask(begun) /\ ~BlockUnderWay(begun)
  BY NoTaskIsTask, BegunIsTask DEF Sync

\* A step that leaves the chain, and the block if one is under way, keeps the
\* invariant.
LEMMA Keeps ==
  ASSUME AnyIds, chain' = chain, IsTask(task'),
         BlockUnderWay(task') => BlockUnderWay(task) /\ task'.block = task.block
  PROVE  AnyIds' /\ (Single => Single')
<1>1. /\ \A i : Saved(i)' <=> Saved(i)
      /\ Confirmed' = Confirmed
  BY DEF Saved, Confirmed
<1>2. Apart'
  BY <1>1 DEF AnyIds, Apart
<1>3. BlockFresh'
  BY <1>1 DEF AnyIds, BlockFresh, Fresh
<1>4. Single => Single'
  BY <1>1 DEF Single
<1> QED
  BY <1>2, <1>3, <1>4 DEF AnyIds

-----------------------------------------------------------------------------
(* The chain, longer or shorter by a block *)

\* A new block joins the chain.
LEMMA SavedOnce ==
  ASSUME AnyIds, Fresh(task.block), chain' = Append(chain, task.block)
  PROVE  /\ chain' \in Seq(Blocks) /\ Apart'
         /\ IsInjective(task.block) /\ Saved(Len(chain)) => Saved(Len(chain))'
<1>0. PICK n \in Nat : n = Len(chain)
  BY DEF AnyIds
<1>1. chain \in Seq(Blocks) /\ task.block \in Blocks
  BY DEF AnyIds, Fresh
<1>2. /\ chain' \in Seq(Blocks) /\ DOMAIN chain' = 1..(n + 1)
      /\ \A i \in 1..n : chain'[i] = chain[i]
      /\ chain'[n + 1] = task.block
      /\ DOMAIN chain = 1..n /\ Len(chain') = n + 1
  BY <1>0, <1>1
<1>3. \A i \in 1..n : Saved(i)' <=> Saved(i)
  <2> TAKE i \in 1..n
  <2>1. \A k \in 1..i : chain'[k] = chain[k]
    BY <1>2
  <2> QED
    BY <2>1 DEF Saved
<1>4. ASSUME NEW i \in 1..n, Saved(i)'
      PROVE  ToSet(chain'[i]) \cap ToSet(task.block) = {}
  <2>1. Saved(i) /\ i \in DOMAIN chain /\ chain'[i] = chain[i]
    BY <1>2, <1>3, <1>4
  <2> QED
    BY <2>1 DEF Fresh, Confirmed
<1>5. \A i \in 1..(n + 1) : i \in 1..n \/ i = n + 1
  OBVIOUS
<1>6. Apart'
  <2> SUFFICES ASSUME NEW i \in 1..(n + 1), NEW j \in 1..(n + 1), i # j,
                      Saved(i)', Saved(j)'
               PROVE  ToSet(chain'[i]) \cap ToSet(chain'[j]) = {}
    BY <1>2 DEF Apart
  <2>1. CASE i \in 1..n /\ j \in 1..n
    BY <2>1, <1>2, <1>3 DEF AnyIds, Apart
  <2>2. CASE i = n + 1
    BY <2>2, <1>2, <1>4, <1>5
  <2>3. CASE j = n + 1
    BY <2>3, <1>2, <1>4, <1>5
  <2> QED
    BY <2>1, <2>2, <2>3, <1>5
<1>7. ASSUME IsInjective(task.block), Saved(Len(chain)) PROVE Saved(Len(chain))'
  <2>1. \A k \in 1..n : IsInjective(chain'[k])
    BY <1>0, <1>2, <1>7 DEF Saved
  <2>2. \A k \in 1..(n + 1) : IsInjective(chain'[k])
    BY <2>1, <1>2, <1>5, <1>7
  <2> QED
    BY <2>2, <1>2 DEF Saved
<1> QED
  BY <1>2, <1>6, <1>7

\* The last block leaves it.
LEMMA DeletedOnce ==
  ASSUME AnyIds, chain # <<>>, chain' = Front(chain)
  PROVE  /\ chain' \in Seq(Blocks) /\ Apart' /\ Confirmed' \subseteq Confirmed
         /\ Saved(Len(chain)) => Saved(Len(chain))'
<1>0. PICK n \in Nat \ {0} : n = Len(chain)
  BY DEF AnyIds
<1>1. chain \in Seq(Blocks) /\ DOMAIN chain = 1..n
  BY <1>0 DEF AnyIds
<1>2. /\ chain' \in Seq(Blocks) /\ DOMAIN chain' = 1..(n - 1) /\ Len(chain') = n - 1
      /\ \A i \in 1..(n - 1) : chain'[i] = chain[i]
  BY <1>0, <1>1 DEF Front
<1>3. 1..(n - 1) \subseteq 1..n
  BY <1>0
<1>4. \A i \in 1..(n - 1) : Saved(i)' <=> Saved(i)
  <2> TAKE i \in 1..(n - 1)
  <2>1. \A k \in 1..i : chain'[k] = chain[k]
    BY <1>2
  <2> QED
    BY <2>1 DEF Saved
<1>5. Apart'
  BY <1>1, <1>2, <1>3, <1>4 DEF Apart, AnyIds
<1>6. ASSUME NEW x \in Confirmed' PROVE x \in Confirmed
  <2>1. PICK i \in 1..(n - 1) : Saved(i)' /\ x \in ToSet(chain'[i])
    BY <1>2 DEF Confirmed
  <2>2. i \in DOMAIN chain /\ Saved(i) /\ x \in ToSet(chain[i])
    BY <2>1, <1>1, <1>2, <1>3, <1>4
  <2> QED
    BY <2>2 DEF Confirmed
<1>7. ASSUME Saved(Len(chain)) PROVE Saved(Len(chain))'
  <2>1. \A k \in 1..(n - 1) : IsInjective(chain'[k])
    BY <1>0, <1>2, <1>3, <1>7 DEF Saved
  <2> QED
    BY <2>1, <1>2 DEF Saved
<1> QED
  BY <1>2, <1>5, <1>6, <1>7

-----------------------------------------------------------------------------
(* A block that is accepted is new; one that is refused leaves the task.    *)

\* ProcessBlock keeps the invariant.
LEMMA ProcessKeeps ==
  ASSUME AnyIds, NEW block \in Blocks, NEW given, ProcessBlock(block, given)
  PROVE  AnyIds' /\ (Single /\ IsInjective(block) => Single')
<1>1. CASE Accept(block)
  <2>1. /\ task' = [task EXCEPT !.stage = "undo", !.list = unconfirmed, !.block = block,
                                !.next = "unconfirmed"]
        /\ chain' = chain
    BY <1>1 DEF Accept
  <2>2. IsTask(task') /\ task'.block = block
    BY <2>1 DEF AnyIds, IsTask
  <2>3. Fresh(block)
    BY <1>1 DEF Accept, Passes, Verified, Fresh
  <2>4. Confirmed' = Confirmed /\ \A i : Saved(i)' <=> Saved(i)
    BY <2>1 DEF Confirmed, Saved
  <2>5. AnyIds'
    BY <2>1, <2>2, <2>3, <2>4 DEF AnyIds, BlockFresh, Fresh, Apart
  <2>6. Single /\ IsInjective(block) => Single'
    BY <2>1, <2>2, <2>4 DEF Single
  <2> QED
    BY <2>5, <2>6
<1>2. ASSUME NEW i \in DOMAIN block, Fork2(block, i) PROVE AnyIds' /\ (Single => Single')
  BY <1>2, Keeps DEF Fork2, AnyIds
<1> QED
  BY <1>1, <1>2 DEF ProcessBlock

\* A block of a peer, too, has each transaction once, unless that is counted.
LEMMA SurprisesKeep ==
  ASSUME IInv, NEW block \in Blocks, NEW given \in Ids(block), ProcessBlock(block, given),
         Happen(Surprises(block, given))
  PROVE  AnyIds' /\ (Single /\ TrueIds' => Single')
<1>1. AnyIds' /\ (Single /\ IsInjective(block) => Single')
  BY ProcessKeeps DEF IInv
<1>2. ASSUME TrueIds' PROVE IsInjective(block)
  <2>1. "alias" \notin Surprises(block, given)
    BY <1>2, HappenedOther DEF TrueIds, OnlyHappened
  <2>2. \A i, j \in DOMAIN block : block[i] = block[j] => given[i] = given[j]
    BY <2>1 DEF Surprises
  <2>3. IsInjective(given) /\ DOMAIN given = DOMAIN block
    BY DEF ProcessBlock, VerifyPayload, Ids
  <2> QED
    BY <2>2, <2>3 DEF IsInjective
<1> QED
  BY <1>1, <1>2

\* It holds at the start.
LEMMA InitIInv == Init => IInv
<1> SUFFICES ASSUME Init PROVE IInv
  OBVIOUS
<1>1. chain = <<>> /\ chain \in Seq(Blocks) /\ DOMAIN chain = {} /\ Len(chain) = 0
  BY DEF Init
<1>2. AnyIds
  BY <1>1, NoTaskIsTask DEF Init, AnyIds, BlockFresh, Apart
<1>3. events \in [Events -> 0..MaxEvents]
  BY LedgerAssumption DEF Init
<1>4. Single
  BY <1>1, NoTaskIsTask DEF Init, Single, Saved
<1> QED
  BY <1>2, <1>3, <1>4 DEF IInv

\* A transaction of a loop keeps it.
LEMMA StepKeeps ==
  ASSUME AnyIds, NEW t \in Tx, Step(t)
  PROVE  AnyIds' /\ (Single => Single')
<1> USE DEF NextOfList, Applying, AnyIds, IsTask, BlockUnderWay
<1>1. CASE ApplyTransaction(t)
  BY <1>1, Keeps DEF ApplyTransaction
<1>2. CASE ApplyFailed(t)
  BY <1>2, Keeps DEF ApplyFailed
<1>3. CASE ApplyUnknown(t)
  BY <1>3, Keeps DEF ApplyUnknown
<1>4. CASE UndoTransaction(t)
  BY <1>4, Keeps DEF UndoTransaction
<1>5. CASE BlockApplyUnconfirmed(t)
  BY <1>5, Keeps DEF BlockApplyUnconfirmed
<1>6. CASE BlockApply(t)
  BY <1>6, Keeps DEF BlockApply
<1> QED
  BY <1>1, <1>2, <1>3, <1>4, <1>5, <1>6 DEF Step

\* The end of a loop keeps it; BlockSave relies on the block being new.
LEMMA StageKeeps ==
  ASSUME AnyIds, Stage
  PROVE  AnyIds' /\ (Single => Single')
<1>1. CASE ApplyEnd
  BY <1>1, Keeps, NoTaskIsTask, SyncingIsTask DEF ApplyEnd, Resting
<1>2. CASE UndoEnd
  <2>1. CASE task.next = "syncing"
    BY <1>2, <2>1, Keeps, SyncingIsTask DEF UndoEnd
  <2>2. CASE task.next # "syncing"
    BY <1>2, <2>2, Keeps DEF UndoEnd, AnyIds, IsTask, BlockUnderWay
  <2> QED
    BY <2>1, <2>2
<1>3. CASE BlockRewind
  BY <1>3, Keeps DEF BlockRewind, AnyIds, IsTask, BlockUnderWay
<1>4. CASE BlockUnconfirmedEnd
  BY <1>4, Keeps DEF BlockUnconfirmedEnd, AnyIds, IsTask, BlockUnderWay
<1>5. CASE BlockFatal
  BY <1>5, Keeps DEF BlockFatal, AnyIds, IsTask, BlockUnderWay
<1>6. CASE BlockSave
  <2>1. Fresh(task.block)
    BY <1>6 DEF BlockSave, AnyIds, BlockFresh, BlockUnderWay
  <2>2. /\ chain' \in Seq(Blocks) /\ Apart'
        /\ IsInjective(task.block) /\ Saved(Len(chain)) => Saved(Len(chain))'
    BY <1>6, <2>1, SavedOnce DEF BlockSave
  <2>3. IsTask(task') /\ ~BlockUnderWay(task') /\ BlockUnderWay(task)
    BY <1>6 DEF BlockSave, AnyIds, IsTask, BlockUnderWay
  <2> QED
    BY <2>2, <2>3 DEF AnyIds, BlockFresh, Single
<1> QED
  BY <1>1, <1>2, <1>3, <1>4, <1>5, <1>6 DEF Stage

\* DeleteLastBlock keeps it.
LEMMA DeleteKeeps ==
  ASSUME AnyIds, DeleteLastBlock
  PROVE  AnyIds' /\ (Single => Single')
<1>1. /\ chain # <<>> /\ chain' = Front(chain) /\ task' = task
      /\ task \in {NoTask, Syncing(task.attempt)}
  BY DEF DeleteLastBlock
<1>2. ~BlockUnderWay(task')
  BY <1>1, NoTaskIsTask, SyncingIsTask
<1>3. /\ chain' \in Seq(Blocks) /\ Apart'
      /\ Saved(Len(chain)) => Saved(Len(chain))'
  BY <1>1, DeletedOnce
<1> QED
  BY <1>1, <1>2, <1>3 DEF AnyIds, BlockFresh, Single

\* So every step does.
LEMMA NextIInv == IInv /\ [Next]_vars => IInv'
<1> SUFFICES ASSUME IInv, [Next]_vars
             PROVE  /\ AnyIds' /\ (Single /\ TrueIds' => Single')
                    /\ events' \in [Events -> 0..MaxEvents]
  BY OnlyBefore DEF IInv, TrueIds
<1>0. AnyIds /\ events' \in [Events -> 0..MaxEvents]
  BY EventsTyped DEF IInv
<1> DEFINE Goal == AnyIds' /\ (Single /\ TrueIds' => Single')
<1>1. ASSUME NEW list \in Lists(MaxTxsPerBlock), FillPool(list) PROVE Goal
  BY <1>1, <1>0, Keeps, NoTaskIsTask DEF FillPool, AnyIds, IsTask, BlockUnderWay
<1>2. ASSUME NEW block \in Blocks, NEW given \in Ids(block), ReceiveBlock(block, given)
      PROVE  Goal
  BY <1>2, SurprisesKeep DEF ReceiveBlock
<1>3. ASSUME NEW block \in Blocks, NEW given \in Ids(block), SyncBlock(block, given)
      PROVE  Goal
  BY <1>3, SurprisesKeep DEF SyncBlock
<1>4. ASSUME NEW t \in Tx, Step(t) PROVE Goal
  BY <1>4, <1>0, StepKeeps
<1>5. ASSUME NEW t \in Tx, Expire(t) PROVE Goal
  BY <1>5, <1>0, Keeps DEF Expire, AnyIds
<1>6. CASE Stage
  BY <1>6, <1>0, StageKeeps
<1>7. CASE GenerateBlock
  <2>1. PICK block \in Create(unconfirmed) : ProcessBlock(block, block)
    BY <1>7 DEF GenerateBlock
  <2>2. PICK k \in 0..Len(unconfirmed) : block \in [1..k -> Tx]
    BY <2>1 DEF Create, Lists
  <2>3. k \in Nat /\ Len(block) = k /\ k <= MaxTxsPerBlock
    BY <2>1, <2>2 DEF ProcessBlock, VerifyPayload
  <2>4. block \in Blocks
    <3>1. k \in 0..MaxTxsPerBlock
      BY <2>3, LedgerAssumption
    <3> QED
      BY <2>2, <3>1, Zenon DEF Blocks
  <2>5. IsInjective(block)
    BY <2>1 DEF ProcessBlock, VerifyPayload
  <2> QED
    BY <2>1, <2>4, <2>5, <1>0, ProcessKeeps
<1>8. CASE DeleteLastBlock
  BY <1>8, <1>0, DeleteKeeps
<1>9. CASE SyncStart
  BY <1>9, <1>0, Keeps, SyncIsTask DEF SyncStart
<1>10. CASE SyncFail
  BY <1>10, <1>0, Keeps, SyncIsTask, NoTaskIsTask DEF SyncFail
<1>11. CASE SyncEnd
  <2>1. IsTask(task') /\ ~BlockUnderWay(task') /\ chain' = chain
    BY <1>11 DEF SyncEnd, NoTask, IsTask, BlockUnderWay
  <2> QED
    BY <2>1, <1>0, Keeps
<1>12. CASE UNCHANGED vars
  BY <1>12, <1>0, Keeps DEF vars, AnyIds
<1> QED
  BY <1>0, <1>1, <1>2, <1>3, <1>4, <1>5, <1>6, <1>7, <1>8, <1>9, <1>10, <1>11, <1>12 DEF Next

(***************************************************************************)
(* In every behaviour, whatever ids the peers give: no transaction is in   *)
(* two saved blocks, since checkTransaction of blocks/verify.js looks at   *)
(* the payload once and applyBlock and saveBlock rely on it after the      *)
(* queue has been undone and the payload applied twice; and each block is  *)
(* saved, since it has no transaction twice, as long as no peer gives a    *)
(* transaction two ids.                                                    *)
(***************************************************************************)
THEOREM NothingConfirmedTwice == Spec => []ConfirmedOnce
<1>1. IInv => ConfirmedOnce
  BY DEF IInv, AnyIds, Single, Apart, ConfirmedOnce
<1> QED
  BY <1>1, InitIInv, NextIInv, PTL DEF Spec
-----------------------------------------------------------------------------
(* The lists of a task                                                      *)

Stages == {"idle", "apply", "applyIds", "undo", "unconfirmed", "confirmed", "syncing",
           "exited"}

TailOf(list, block) == \E k \in 0..Len(block) : list = SubSeq(block, k + 1, Len(block))

TaskOK(t) ==
  /\ IsTask(t)
  /\ t.stage \in Stages /\ t.attempt \in 0..Retries
  /\ t.next \in {"idle", "unconfirmed", "syncing"}
  /\ t.block \in Blocks
  /\ OneOfEach(t.list) /\ OneOfEach(t.ids)
  /\ t.stage = "undo" => ToSet(t.ids) \cap ToSet(t.list) = {}
  /\ t.stage \in {"idle", "syncing"} => t.ids = <<>>
  /\ t.stage \in {"unconfirmed", "confirmed"} =>
       OneOfEach(t.block) /\ TailOf(t.list, t.block)

\* The empty list.
LEMMA NoneOK == OneOfEach(<<>>) /\ ToSet(<<>>) = {} /\ <<>> \in Blocks
<1>1. <<>> \in Seq(Tx)
  OBVIOUS
<1>2. DOMAIN <<>> = 1..0 /\ 1..0 = {} /\ Len(<<>>) = 0
  OBVIOUS
<1>3. <<>> \in Blocks
  <2>1. 0 <= MaxTxsPerBlock /\ MaxTxsPerBlock \in Nat
    BY LedgerAssumption
  <2> QED
    BY <1>1, <1>2, <2>1, BlocksAre DEF Blocks
<1> QED
  BY <1>1, <1>2, <1>3 DEF OneOfEach, IsInjective, ToSet

\* The task that is none.
LEMMA NoTaskOK ==
  /\ TaskOK(NoTask) /\ NoTask.stage = "idle" /\ NoTask.next = "idle"
  /\ NoTask.attempt = 0 /\ NoTask.list = <<>> /\ NoTask.ids = <<>> /\ NoTask.block = <<>>
  BY NoneOK, NoTaskIsTask, LedgerAssumption DEF NoTask, TaskOK, Stages

\* A sync between two blocks has empty lists.
LEMMA SyncingOK ==
  ASSUME NEW attempt \in 0..Retries, NEW t, t = Syncing(attempt)
  PROVE  TaskOK(t) /\ t.stage = "syncing" /\ t.next = "idle" /\ t.attempt = attempt
         /\ t.list = <<>> /\ t.ids = <<>>
<1>1. t = [NoTask EXCEPT !.stage = "syncing", !.attempt = attempt]
  BY DEF Syncing
<1>2. PICK n : n = NoTask
  OBVIOUS
<1>3. TaskOK(n) /\ n.ids = <<>> /\ n.next = "idle" /\ n.list = <<>>
  BY <1>2, NoTaskOK
<1>4. IsTask(n) /\ t = [n EXCEPT !.stage = "syncing", !.attempt = attempt]
  BY <1>1, <1>2, <1>3 DEF TaskOK
<1>5. /\ IsTask(t) /\ t.stage = "syncing" /\ t.attempt = attempt /\ t.next = n.next
      /\ t.block = n.block /\ t.list = n.list /\ t.ids = n.ids
  BY <1>4 DEF IsTask
<1> QED
  BY <1>3, <1>5 DEF TaskOK, Stages

\* A sync begins with the whole queue to undo.
LEMMA SyncOK ==
  ASSUME NEW attempt \in 0..Retries, OneOfEach(unconfirmed), NEW t, t = Sync(attempt)
  PROVE  TaskOK(t) /\ t.stage = "undo" /\ t.next = "syncing" /\ t.attempt = attempt
         /\ t.list = unconfirmed
<1>1. PICK n : n = NoTask
  OBVIOUS
<1>2. TaskOK(n) /\ n.ids = <<>>
  BY <1>1, NoTaskOK
<1>3. IsTask(n) /\ t = [n EXCEPT !.stage = "undo", !.list = unconfirmed,
                                 !.next = "syncing", !.attempt = attempt]
  BY <1>1, <1>2 DEF TaskOK, Sync
<1>4. /\ IsTask(t) /\ t.stage = "undo" /\ t.attempt = attempt /\ t.next = "syncing"
      /\ t.block = n.block /\ t.list = unconfirmed /\ t.ids = n.ids
  BY <1>3 DEF IsTask
<1> QED
  BY <1>2, <1>4, NoneOK DEF TaskOK, Stages

\* The rest of the rest of a block is a rest of it.
LEMMA TailOfTail ==
  ASSUME NEW block, OneOfEach(block), NEW list, TailOf(list, block), list # <<>>
  PROVE  TailOf(Tail(list), block)
<1>1. PICK k \in 0..Len(block) : list = SubSeq(block, k + 1, Len(block))
  BY DEF TailOf
<1>2. k + 1 \in 0..Len(block) /\ Tail(list) = SubSeq(block, (k + 1) + 1, Len(block))
  BY <1>1, TailOfBlock
<1> QED
  BY <1>2 DEF TailOf

\* A transaction of the list is dealt with, the lists of ids apart.
LEMMA NextOfListOK ==
  ASSUME NEW t, TaskOK(t), t.list # <<>>, t.stage \in {"apply", "applyIds", "confirmed"},
         NEW r, r = [t EXCEPT !.list = Tail(t.list)]
  PROVE  /\ TaskOK(r) /\ r.stage = t.stage /\ r.next = t.next /\ r.attempt = t.attempt
         /\ r.block = t.block /\ r.ids = t.ids
         /\ ToSet(r.list) = ToSet(t.list) \ {Head(t.list)}
<1>1. /\ IsTask(r) /\ r.stage = t.stage /\ r.next = t.next /\ r.attempt = t.attempt
      /\ r.block = t.block /\ r.ids = t.ids /\ r.list = Tail(t.list)
  BY DEF TaskOK, IsTask
<1>2. OneOfEach(r.list) /\ ToSet(r.list) = ToSet(t.list) \ {Head(t.list)}
  BY <1>1, HeadTail DEF TaskOK
<1>3. t.stage = "confirmed" => TailOf(r.list, r.block)
  BY <1>1, TailOfTail DEF TaskOK
<1> QED
  BY <1>1, <1>2, <1>3 DEF TaskOK

\* A transaction is undone and goes to the ids.
LEMMA UndoneOK ==
  ASSUME NEW t, TaskOK(t), t.list # <<>>, t.stage = "undo",
         NEW r, r = [t EXCEPT !.list = Tail(t.list), !.ids = Append(t.ids, Head(t.list))]
  PROVE  /\ TaskOK(r) /\ r.stage = t.stage /\ r.next = t.next /\ r.attempt = t.attempt
         /\ r.block = t.block
         /\ ToSet(r.list) = ToSet(t.list) \ {Head(t.list)}
         /\ ToSet(r.ids) = ToSet(t.ids) \cup {Head(t.list)}
<1>0. PICK x : x = Head(t.list)
  OBVIOUS
<1>1. /\ IsTask(r) /\ r.stage = t.stage /\ r.next = t.next /\ r.attempt = t.attempt
      /\ r.block = t.block /\ r.ids = Append(t.ids, x) /\ r.list = Tail(t.list)
  BY <1>0 DEF TaskOK, IsTask
<1>2. /\ OneOfEach(r.list) /\ ToSet(r.list) = ToSet(t.list) \ {x}
      /\ x \in Tx /\ x \in ToSet(t.list)
  BY <1>0, <1>1, HeadTail DEF TaskOK
<1>3. OneOfEach(r.ids) /\ ToSet(r.ids) = ToSet(t.ids) \cup {x}
  <2>1. x \notin ToSet(t.ids) /\ OneOfEach(t.ids)
    BY <1>2 DEF TaskOK
  <2> QED
    BY <1>1, <1>2, <2>1, Appended
<1>4. ToSet(r.ids) \cap ToSet(r.list) = {}
  BY <1>2, <1>3 DEF TaskOK
<1> QED
  BY <1>0, <1>1, <1>2, <1>3, <1>4 DEF TaskOK

\* A transaction of the block is applied and leaves the ids.
LEMMA BlockStepOK ==
  ASSUME NEW t, TaskOK(t), t.list # <<>>, t.stage = "unconfirmed",
         NEW r, r = [t EXCEPT !.list = Tail(t.list),
                              !.ids = RemoveFirst(t.ids, Head(t.list))]
  PROVE  /\ TaskOK(r) /\ r.stage = t.stage /\ r.next = t.next /\ r.attempt = t.attempt
         /\ r.block = t.block
         /\ ToSet(r.list) = ToSet(t.list) \ {Head(t.list)}
         /\ ToSet(r.ids) = ToSet(t.ids) \ {Head(t.list)}
<1>0. PICK x : x = Head(t.list)
  OBVIOUS
<1>1. /\ IsTask(r) /\ r.stage = t.stage /\ r.next = t.next /\ r.attempt = t.attempt
      /\ r.block = t.block /\ r.ids = RemoveFirst(t.ids, x) /\ r.list = Tail(t.list)
  BY <1>0 DEF TaskOK, IsTask
<1>2. OneOfEach(r.list) /\ ToSet(r.list) = ToSet(t.list) \ {x}
  BY <1>0, <1>1, HeadTail DEF TaskOK
<1>3. OneOfEach(r.ids) /\ ToSet(r.ids) = ToSet(t.ids) \ {x}
  BY <1>1, FirstRemoved DEF TaskOK
<1>4. TailOf(r.list, r.block)
  BY <1>1, TailOfTail DEF TaskOK
<1> QED
  BY <1>0, <1>1, <1>2, <1>3, <1>4 DEF TaskOK

\* A loop over the block of the task begins.
LEMMA BlockLoopOK ==
  ASSUME NEW t, TaskOK(t), OneOfEach(t.block), NEW stage \in {"unconfirmed", "confirmed"},
         NEW r, r = [t EXCEPT !.stage = stage, !.list = t.block]
  PROVE  /\ TaskOK(r) /\ r.stage = stage /\ r.next = t.next /\ r.attempt = t.attempt
         /\ r.block = t.block /\ r.ids = t.ids /\ r.list = t.block
<1>1. /\ IsTask(r) /\ r.stage = stage /\ r.next = t.next /\ r.attempt = t.attempt
      /\ r.block = t.block /\ r.ids = t.ids /\ r.list = t.block
  BY DEF TaskOK, IsTask
<1>2. TailOf(r.list, r.block)
  <2>1. t.block = SubSeq(t.block, 0 + 1, Len(t.block)) /\ 0 \in 0..Len(t.block)
    BY DEF OneOfEach
  <2> QED
    BY <1>1, <2>1 DEF TailOf
<1> QED
  BY <1>1, <1>2 DEF TaskOK, Stages

\* A block is accepted, with the queue to undo.
LEMMA AcceptOK ==
  ASSUME NEW t, TaskOK(t), t.ids = <<>>, NEW block \in Blocks, OneOfEach(unconfirmed),
         NEW r, r = [t EXCEPT !.stage = "undo", !.list = unconfirmed, !.block = block,
                              !.next = "unconfirmed"]
  PROVE  /\ TaskOK(r) /\ r.stage = "undo" /\ r.next = "unconfirmed"
         /\ r.attempt = t.attempt /\ r.block = block /\ r.ids = <<>>
         /\ r.list = unconfirmed
<1>1. /\ IsTask(r) /\ r.stage = "undo" /\ r.next = "unconfirmed" /\ r.attempt = t.attempt
      /\ r.block = block /\ r.ids = t.ids /\ r.list = unconfirmed
  BY DEF TaskOK, IsTask
<1> QED
  BY <1>1, NoneOK DEF TaskOK, Stages

\* A list is to be applied.
LEMMA QueueLoopOK ==
  ASSUME NEW t, TaskOK(t), NEW list, OneOfEach(list),
         NEW r, r = [t EXCEPT !.stage = "apply", !.list = list]
  PROVE  /\ TaskOK(r) /\ r.stage = "apply" /\ r.next = t.next
         /\ r.attempt = t.attempt /\ r.block = t.block /\ r.ids = t.ids
         /\ r.list = list
<1>1. /\ IsTask(r) /\ r.stage = "apply" /\ r.next = t.next /\ r.attempt = t.attempt
      /\ r.block = t.block /\ r.ids = t.ids /\ r.list = list
  BY DEF TaskOK, IsTask
<1> QED
  BY <1>1 DEF TaskOK, Stages

\* The ids are to be applied.
LEMMA SaveOK ==
  ASSUME NEW t, TaskOK(t),
         NEW r, r = [t EXCEPT !.stage = "applyIds", !.list = t.ids, !.block = <<>>]
  PROVE  /\ TaskOK(r) /\ r.stage = "applyIds" /\ r.next = t.next
         /\ r.attempt = t.attempt /\ r.ids = t.ids /\ r.list = t.ids
<1>1. /\ IsTask(r) /\ r.stage = "applyIds" /\ r.next = t.next /\ r.attempt = t.attempt
      /\ r.block = <<>> /\ r.ids = t.ids /\ r.list = t.ids
  BY DEF TaskOK, IsTask
<1> QED
  BY <1>1, NoneOK DEF TaskOK, Stages

\* The node exits, with the task as it is.
LEMMA ExitOK ==
  ASSUME NEW t, TaskOK(t), NEW r, r = [t EXCEPT !.stage = "exited"]
  PROVE  TaskOK(r) /\ r.stage = "exited" /\ r.next = t.next /\ r.attempt = t.attempt
<1>1. /\ IsTask(r) /\ r.stage = "exited" /\ r.next = t.next /\ r.attempt = t.attempt
      /\ r.block = t.block /\ r.ids = t.ids /\ r.list = t.list
  BY DEF TaskOK, IsTask
<1> QED
  BY <1>1 DEF TaskOK, Stages
-----------------------------------------------------------------------------
(* Events and money                                                         *)

Typed ==
  /\ balance \in [Account -> Int]
  /\ u_balance \in [Account -> Int]
  /\ rewound \in [Account -> Nat]
  /\ OneOfEach(unconfirmed) /\ Len(unconfirmed) <= MaxTxsPerBlock

Shape == IInv /\ Single /\ Typed /\ TaskOK(task)

\* The money that moves with a transaction.
Cost(a, t) == IF From[t] = a THEN Spend(t) ELSE 0
Gain(a, t) == IF Paid(t) = a THEN Amount[t] ELSE 0

\* These are natural numbers.
LEMMA Moves ==
  ASSUME NEW t \in Tx
  PROVE  /\ From[t] \in Account /\ Paid(t) \in Account
         /\ Spend(t) \in Nat /\ Amount[t] \in Nat
         /\ \A a : Cost(a, t) \in Nat /\ Gain(a, t) \in Nat
         /\ Cost(From[t], t) = Spend(t)
<1>1. From[t] \in Account /\ Paid(t) \in Account
  BY LedgerAssumption DEF Paid
<1>2. Spend(t) \in Nat /\ Amount[t] \in Nat
  BY SpendOfTx
<1> QED
  BY <1>1, <1>2 DEF Cost, Gain

\* Merge and Pay move them, and nothing else.
LEMMA Merged ==
  ASSUME NEW f \in [Account -> Int], NEW t \in Tx
  PROVE  /\ Merge(f, From[t], -Spend(t)) \in [Account -> Int]
         /\ \A a \in Account : Merge(f, From[t], -Spend(t))[a] = f[a] - Cost(a, t)
         /\ Merge(f, From[t], Spend(t)) \in [Account -> Int]
         /\ \A a \in Account : Merge(f, From[t], Spend(t))[a] = f[a] + Cost(a, t)
         /\ Pay(f, t) \in [Account -> Int]
         /\ \A a \in Account : Pay(f, t)[a] = f[a] + Gain(a, t)
         /\ Apply(f, t) = Merge(f, From[t], -Spend(t))
<1>1. From[t] \in Account /\ Paid(t) \in Account /\ Spend(t) \in Int /\ Amount[t] \in Int
  BY Moves
<1>2. ASSUME NEW g \in [Account -> Int], NEW b \in Account, NEW x \in Int
      PROVE  /\ Merge(g, b, x) \in [Account -> Int]
             /\ \A a \in Account : Merge(g, b, x)[a] = IF b = a THEN g[a] + x ELSE g[a]
  <2>1. g[b] + x \in Int
    OBVIOUS
  <2> QED
    BY <2>1 DEF Merge
<1>3. -Spend(t) \in Int
  BY <1>1
<1>4. Pay(f, t) = Merge(f, Paid(t), Amount[t])
  BY DEF Pay, InTransferApply, TransferApply, Paid
<1> DEFINE b == From[t]
           x == Spend(t)
<1>8. b \in Account /\ x \in Int /\ -x \in Int
  BY <1>1
<1>9. \A a \in Account : Cost(a, t) = IF b = a THEN x ELSE 0
  BY DEF Cost
<1> HIDE DEF b, x
<1>a. /\ Merge(f, b, -x) \in [Account -> Int]
      /\ \A a \in Account : Merge(f, b, -x)[a] = f[a] - Cost(a, t)
  <2>1. /\ Merge(f, b, -x) \in [Account -> Int]
        /\ \A a \in Account : Merge(f, b, -x)[a] = IF b = a THEN f[a] + (-x) ELSE f[a]
    BY <1>2, <1>8
  <2> QED
    BY <1>8, <1>9, <2>1
<1>b. /\ Merge(f, b, x) \in [Account -> Int]
      /\ \A a \in Account : Merge(f, b, x)[a] = f[a] + Cost(a, t)
  <2>1. /\ Merge(f, b, x) \in [Account -> Int]
        /\ \A a \in Account : Merge(f, b, x)[a] = IF b = a THEN f[a] + x ELSE f[a]
    BY <1>2, <1>8
  <2> QED
    BY <1>8, <1>9, <2>1
<1>5. /\ Merge(f, From[t], -Spend(t)) \in [Account -> Int]
      /\ \A a \in Account : Merge(f, From[t], -Spend(t))[a] = f[a] - Cost(a, t)
  BY <1>a DEF b, x
<1>6. /\ Merge(f, From[t], Spend(t)) \in [Account -> Int]
      /\ \A a \in Account : Merge(f, From[t], Spend(t))[a] = f[a] + Cost(a, t)
  BY <1>b DEF b, x
<1>7. /\ Merge(f, Paid(t), Amount[t]) \in [Account -> Int]
      /\ \A a \in Account : Merge(f, Paid(t), Amount[t])[a] = f[a] + Gain(a, t)
  BY <1>1, <1>2 DEF Gain
<1> QED
  BY <1>4, <1>5, <1>6, <1>7 DEF Apply

\* Spent and Received, with one transaction more or less.
LEMMA Sums ==
  ASSUME NEW S \in SUBSET Tx, IsFiniteSet(S)
  PROVE  /\ \A a : Spent(a, S) \in Nat /\ Received(a, S) \in Nat
         /\ S = {} => \A a : Spent(a, S) = 0 /\ Received(a, S) = 0
         /\ \A a : \A t \in S : /\ Spent(a, S) = Spent(a, S \ {t}) + Cost(a, t)
                                /\ Received(a, S) = Received(a, S \ {t}) + Gain(a, t)
  BY SpentSums, ReceivedSums DEF Cost, Gain

\* The set is one larger.
LEMMA SumsMore ==
  ASSUME NEW S \in SUBSET Tx, IsFiniteSet(S), NEW t \in Tx \ S
  PROVE  \A a : /\ Spent(a, S \cup {t}) = Spent(a, S) + Cost(a, t)
                /\ Received(a, S \cup {t}) = Received(a, S) + Gain(a, t)
<1>1. PICK W : W = S \cup {t}
  OBVIOUS
<1>2. W \in SUBSET Tx /\ IsFiniteSet(W) /\ t \in W /\ W \ {t} = S
  BY <1>1, FS_AddElement
<1> QED
  BY <1>1, <1>2, Sums

\* The payload of a block, and the block to be deleted.
LEMMA PayloadOK ==
  ASSUME Shape, BlockUnderWay(task)
  PROVE  OneOfEach(task.block) /\ ToSet(task.block) \cap Confirmed = {}
<1>1. /\ task.block \in Blocks /\ IsInjective(task.block)
      /\ ToSet(task.block) \cap Confirmed = {}
  BY DEF Shape, IInv, AnyIds, BlockFresh, Fresh, Single
<1>2. task.block \in Seq(Tx)
  BY <1>1, LedgerAssumption, BlocksAre DEF Blocks
<1> QED
  BY <1>1, <1>2 DEF OneOfEach

\* The block to be deleted.
LEMMA LastOK ==
  ASSUME Shape, chain # <<>>
  PROVE  OneOfEach(Last(chain)) /\ Last(chain) \in Blocks /\ Len(chain) \in DOMAIN chain
<1>1. chain \in Seq(Blocks) /\ Saved(Len(chain))
  BY DEF Shape, IInv, AnyIds, Single
<1>2. Len(chain) \in DOMAIN chain /\ Last(chain) = chain[Len(chain)]
  BY <1>1 DEF Last
<1>3. Last(chain) \in Blocks
  BY <1>1, <1>2
<1>4. Last(chain) \in Seq(Tx)
  BY <1>3, LedgerAssumption, BlocksAre DEF Blocks
<1> QED
  BY <1>1, <1>2, <1>3, <1>4 DEF OneOfEach, Saved
-----------------------------------------------------------------------------
(* Every step keeps the types and the lists                                 *)

\* The shape at the start.
LEMMA InitShape == Init => Shape
<1> SUFFICES ASSUME Init PROVE Shape
  OBVIOUS
<1>1. Typed
  <2>1. /\ balance \in [Account -> Int] /\ u_balance \in [Account -> Int]
        /\ rewound \in [Account -> Nat]
    BY LedgerAssumption DEF Init
  <2>2. OneOfEach(unconfirmed) /\ Len(unconfirmed) <= MaxTxsPerBlock
    BY NoneOK, LedgerAssumption DEF Init
  <2> QED
    BY <2>1, <2>2 DEF Typed
<1>2. Single
  BY NoTaskIsTask DEF Init, Single, Saved
<1> QED
  BY <1>1, <1>2, InitIInv, NoTaskOK DEF Shape, Init

\* What is typed stays typed when these do not change.
LEMMA TypedSame ==
  ASSUME Typed, balance' = balance, u_balance' = u_balance, rewound' = rewound,
         unconfirmed' = unconfirmed
  PROVE  Typed'
  BY DEF Typed

\* A transaction of a loop keeps it.
LEMMA StepShape ==
  ASSUME Shape, NEW t \in Tx, Step(t)
  PROVE  Typed' /\ TaskOK(task')
<1> USE DEF Shape
<1>1. CASE ApplyTransaction(t)
  <2>1. /\ task.list # <<>> /\ task.stage \in {"apply", "applyIds"}
        /\ task' = [task EXCEPT !.list = Tail(task.list)]
        /\ u_balance' = Merge(u_balance, From[t], -Spend(t))
        /\ UNCHANGED <<balance, unconfirmed, chain, events, rewound>>
    BY <1>1 DEF ApplyTransaction, Applying, NextOfList, ApplyUnconfirmed
  <2>2. TaskOK(task')
    BY <2>1, NextOfListOK
  <2>3. u_balance' \in [Account -> Int]
    BY <2>1, Merged DEF Typed
  <2> QED
    BY <2>1, <2>2, <2>3 DEF Typed
<1>2. CASE ApplyFailed(t)
  <2>1. /\ task.list # <<>> /\ task.stage \in {"apply", "applyIds"}
        /\ task' = [task EXCEPT !.list = Tail(task.list)]
        /\ unconfirmed' = RemoveFirst(unconfirmed, t)
        /\ UNCHANGED <<balance, u_balance, chain, events, rewound>>
    BY <1>2 DEF ApplyFailed, Applying, NextOfList, RemoveUnconfirmed
  <2>2. TaskOK(task')
    BY <2>1, NextOfListOK
  <2>3. OneOfEach(unconfirmed') /\ Len(unconfirmed') <= Len(unconfirmed)
    BY <2>1, FirstRemoved DEF Typed
  <2>4. Len(unconfirmed') \in Nat /\ Len(unconfirmed) \in Nat /\ MaxTxsPerBlock \in Nat
    BY <2>3, LedgerAssumption DEF Typed, OneOfEach
  <2> QED
    BY <2>1, <2>2, <2>3, <2>4 DEF Typed
<1>3. CASE ApplyUnknown(t)
  <2>1. /\ task.list # <<>> /\ task.stage \in {"apply", "applyIds"}
        /\ task' = [task EXCEPT !.list = Tail(task.list)]
        /\ UNCHANGED <<balance, u_balance, unconfirmed, chain, events, rewound>>
    BY <1>3 DEF ApplyUnknown, Applying, NextOfList
  <2>2. TaskOK(task')
    BY <2>1, NextOfListOK
  <2> QED
    BY <2>1, <2>2, TypedSame
<1>4. CASE UndoTransaction(t)
  <2>1. /\ task.list # <<>> /\ task.stage = "undo" /\ t = Head(task.list)
        /\ task' = [task EXCEPT !.list = Tail(task.list), !.ids = Append(task.ids, t)]
        /\ u_balance' = Merge(u_balance, From[t], Spend(t))
        /\ UNCHANGED <<balance, unconfirmed, chain, events, rewound>>
    BY <1>4 DEF UndoTransaction, UndoUnconfirmed
  <2>2. TaskOK(task')
    BY <2>1, UndoneOK
  <2>3. u_balance' \in [Account -> Int]
    BY <2>1, Merged DEF Typed
  <2> QED
    BY <2>1, <2>2, <2>3 DEF Typed
<1>5. CASE BlockApplyUnconfirmed(t)
  <2>1. /\ task.list # <<>> /\ task.stage = "unconfirmed" /\ t = Head(task.list)
        /\ task' = [task EXCEPT !.list = Tail(task.list), !.ids = RemoveFirst(task.ids, t)]
        /\ u_balance' = Merge(u_balance, From[t], -Spend(t))
        /\ UNCHANGED <<balance, unconfirmed, chain, events, rewound>>
    BY <1>5 DEF BlockApplyUnconfirmed, ApplyUnconfirmed
  <2>2. TaskOK(task')
    BY <2>1, BlockStepOK
  <2>3. u_balance' \in [Account -> Int]
    BY <2>1, Merged DEF Typed
  <2> QED
    BY <2>1, <2>2, <2>3 DEF Typed
<1>6. CASE BlockApply(t)
  <2>1. /\ task.list # <<>> /\ task.stage = "confirmed"
        /\ task' = [task EXCEPT !.list = Tail(task.list)]
        /\ balance' = Pay(Apply(balance, t), t)
        /\ u_balance' = Pay(u_balance, t)
        /\ unconfirmed' = RemoveFirst(unconfirmed, t)
        /\ UNCHANGED <<chain, events, rewound>>
    BY <1>6 DEF BlockApply, NextOfList, RemoveUnconfirmed
  <2>2. TaskOK(task')
    BY <2>1, NextOfListOK
  <2>3. u_balance' \in [Account -> Int]
    BY <2>1, Merged DEF Typed
  <2>4. balance' \in [Account -> Int]
    <3>1. Apply(balance, t) \in [Account -> Int]
      BY Merged DEF Typed
    <3> QED
      BY <2>1, <3>1, Merged
  <2>5. OneOfEach(unconfirmed') /\ Len(unconfirmed') <= Len(unconfirmed)
    BY <2>1, FirstRemoved DEF Typed
  <2>6. Len(unconfirmed') \in Nat /\ Len(unconfirmed) \in Nat /\ MaxTxsPerBlock \in Nat
    BY <2>5, LedgerAssumption DEF Typed, OneOfEach
  <2> QED
    BY <2>1, <2>2, <2>3, <2>4, <2>5, <2>6 DEF Typed
<1> QED
  BY <1>1, <1>2, <1>3, <1>4, <1>5, <1>6 DEF Step

\* The end of a loop keeps it.
LEMMA StageShape ==
  ASSUME Shape, Stage
  PROVE  Typed' /\ TaskOK(task')
<1> USE DEF Shape
<1>0. task.attempt \in 0..Retries
  BY DEF TaskOK
<1>1. CASE ApplyEnd
  <2>1. TaskOK(task')
    BY <1>0, <1>1, NoTaskOK, SyncingOK DEF ApplyEnd, Resting
  <2> QED
    BY <1>1, <2>1, TypedSame DEF ApplyEnd
<1>2. CASE UndoEnd
  <2>1. CASE task.next = "syncing"
    <3>1. TaskOK(task')
      BY <1>0, <1>2, <2>1, SyncingOK DEF UndoEnd
    <3> QED
      BY <1>2, <3>1, TypedSame DEF UndoEnd
  <2>2. CASE task.next # "syncing"
    <3>1. OneOfEach(task.block)
      BY <1>2, <2>2, PayloadOK DEF UndoEnd, BlockUnderWay
    <3>2. task' = [task EXCEPT !.stage = "unconfirmed", !.list = task.block]
      BY <1>2, <2>2 DEF UndoEnd
    <3>3. TaskOK(task')
      BY <3>1, <3>2, BlockLoopOK
    <3> QED
      BY <1>2, <3>3, TypedSame DEF UndoEnd
  <2> QED
    BY <2>1, <2>2
<1>3. CASE BlockRewind
  <2>1. OneOfEach(task.block) /\ TailOf(task.list, task.block)
    BY <1>3 DEF BlockRewind, TaskOK
  <2>2. PICK k \in 0..Len(task.block) :
          task.list = SubSeq(task.block, k + 1, Len(task.block))
    BY <2>1 DEF TailOf
  <2>3. Done = SubSeq(task.block, 1, k) /\ ToSet(Done) \in SUBSET ToSet(task.block)
    <3>1. /\ Len(task.block) - Len(task.list) = k
          /\ ToSet(SubSeq(task.block, 1, k)) = ToSet(task.block) \ ToSet(task.list)
      BY <2>1, <2>2, TailOfBlock
    <3>2. Done = SubSeq(task.block, 1, k)
      BY <3>1 DEF Done
    <3> QED
      BY <3>1, <3>2
  <2>4. ToSet(task.block) \in SUBSET Tx /\ IsFiniteSet(ToSet(task.block))
    BY <2>1, SetFinite DEF OneOfEach
  <2>5. ToSet(Done) \in SUBSET Tx /\ IsFiniteSet(ToSet(Done))
    BY <2>3, <2>4, FS_Subset
  <2>6. \A a : Spent(a, ToSet(task.block)) \in Nat /\ Spent(a, ToSet(Done)) \in Nat
    BY <2>4, <2>5, Sums
  <2>9. \A a : Returned(a) = Spent(a, ToSet(Done))
    <3>1. ToSet(Done) \in SUBSET ToSet(task.block)
      BY <2>3
    <3> QED
      BY <2>1, <3>1, ReturnedIsSpent DEF OneOfEach
  <2>7. u_balance' \in [Account -> Int] /\ rewound' \in [Account -> Nat]
    BY <1>3, <2>6, <2>9 DEF BlockRewind, Typed
  <2>8. TaskOK(task')
    BY <1>3, <2>1, BlockLoopOK DEF BlockRewind
  <2> QED
    BY <1>3, <2>7, <2>8 DEF BlockRewind, Typed
<1>4. CASE BlockUnconfirmedEnd
  <2>1. OneOfEach(task.block)
    BY <1>4 DEF BlockUnconfirmedEnd, TaskOK
  <2>2. TaskOK(task')
    BY <1>4, <2>1, BlockLoopOK DEF BlockUnconfirmedEnd
  <2> QED
    BY <1>4, <2>2, TypedSame DEF BlockUnconfirmedEnd
<1>5. CASE BlockFatal
  <2>1. TaskOK(task')
    BY <1>5, ExitOK DEF BlockFatal
  <2> QED
    BY <1>5, <2>1, TypedSame DEF BlockFatal
<1>6. CASE BlockSave
  <2>1. TaskOK(task')
    BY <1>6, SaveOK DEF BlockSave
  <2> QED
    BY <1>6, <2>1, TypedSame DEF BlockSave
<1> QED
  BY <1>1, <1>2, <1>3, <1>4, <1>5, <1>6 DEF Stage

\* A task in which a block may be accepted has no ids.
LEMMA IdleOK ==
  ASSUME task \in {NoTask, Syncing(task.attempt)}, task.attempt \in 0..Retries
  PROVE  /\ task.ids = <<>> /\ task.stage \in {"idle", "syncing"} /\ task.next = "idle"
         /\ task.list = <<>> /\ TaskOK(task)
<1>1. CASE task = NoTask
  BY <1>1, NoTaskOK
<1>2. CASE task = Syncing(task.attempt)
  BY <1>2, SyncingOK
<1> QED
  BY <1>1, <1>2

\* A block that is accepted or refused keeps it.
LEMMA ProcessShape ==
  ASSUME Shape, NEW block \in Blocks, NEW given, ProcessBlock(block, given)
  PROVE  Typed' /\ TaskOK(task')
<1> USE DEF Shape
<1>1. CASE Accept(block)
  <2>1. task.ids = <<>>
    BY IdleOK DEF ProcessBlock, TaskOK
  <2>2. TaskOK(task')
    BY <1>1, <2>1, AcceptOK DEF Accept, Typed
  <2> QED
    BY <1>1, <2>2 DEF Accept, Typed
<1>2. ASSUME NEW i \in DOMAIN block, Fork2(block, i) PROVE Typed' /\ TaskOK(task')
  <2>1. PICK t \in Tx : t = block[i]
    <3>1. block \in Seq(Tx)
      BY LedgerAssumption, BlocksAre DEF Blocks
    <3> QED
      BY <3>1
  <2>2. /\ u_balance' = Merge(u_balance, From[t], Spend(t))
        /\ unconfirmed' = RemoveFirst(unconfirmed, t)
        /\ UNCHANGED <<balance, chain, task, rewound>>
    BY <1>2, <2>1 DEF Fork2, UndoUnconfirmed, RemoveUnconfirmed
  <2>3. u_balance' \in [Account -> Int]
    BY <2>2, Merged DEF Typed
  <2>4. OneOfEach(unconfirmed') /\ Len(unconfirmed') <= Len(unconfirmed)
    BY <2>2, FirstRemoved DEF Typed
  <2>5. Len(unconfirmed') \in Nat /\ Len(unconfirmed) \in Nat /\ MaxTxsPerBlock \in Nat
    BY <2>4, LedgerAssumption DEF Typed, OneOfEach
  <2> QED
    BY <2>2, <2>3, <2>4, <2>5 DEF Typed
<1> QED
  BY <1>1, <1>2 DEF ProcessBlock

\* The block that is made of the queue.
LEMMA GeneratedOK ==
  ASSUME NEW block \in Create(unconfirmed), NEW given, ProcessBlock(block, given)
  PROVE  block \in Blocks /\ ToSet(block) = ToSet(unconfirmed)
<1>2. PICK k \in 0..Len(unconfirmed) : block \in [1..k -> Tx]
  BY DEF Create, Lists
<1>3. k \in Nat /\ Len(block) = k /\ k <= MaxTxsPerBlock
  BY <1>2 DEF ProcessBlock, VerifyPayload
<1>4. block \in Blocks
  <2>1. k \in 0..MaxTxsPerBlock
    BY <1>3, LedgerAssumption
  <2> QED
    BY <1>2, <2>1, Zenon DEF Blocks
<1> QED
  BY <1>4 DEF Create

\* Both balances after the last block is gone.
LEMMA Deleted ==
  ASSUME Shape, DeleteLastBlock, NEW gone, gone = ToSet(Last(chain))
  PROVE  /\ balance' = [a \in Account |-> (balance[a] + Spent(a, gone)) - Received(a, gone)]
         /\ u_balance' =
              [a \in Account |-> (u_balance[a] + Spent(a, gone)) - Received(a, gone)]
         /\ gone \in SUBSET Tx /\ IsFiniteSet(gone)
<1>1. OneOfEach(Last(chain))
  BY LastOK DEF DeleteLastBlock
<1>2. PICK undone : undone = Reverse(Last(chain))
  OBVIOUS
<1>3. OneOfEach(undone) /\ ToSet(undone) = gone
  BY <1>1, <1>2, Reversed
<1>4. balance \in [Account -> Int] /\ u_balance \in [Account -> Int]
  BY DEF Shape, Typed
<1> DEFINE back(f, t) == TakeBack(Undo(f, t), t)
<1>5. balance' = FoldLeft(back, balance, undone)
  BY <1>2 DEF DeleteLastBlock
<1>6. u_balance' = FoldLeft(back, u_balance, undone)
  BY <1>2 DEF DeleteLastBlock
<1>7. FoldLeft(back, balance, undone) =
        [a \in Account |-> (balance[a] + Spent(a, gone)) - Received(a, gone)]
  BY <1>3, <1>4, TakenBack
<1>8. FoldLeft(back, u_balance, undone) =
        [a \in Account |-> (u_balance[a] + Spent(a, gone)) - Received(a, gone)]
  BY <1>3, <1>4, TakenBack
<1>9. gone \in SUBSET Tx /\ IsFiniteSet(gone)
  BY <1>1, SetFinite DEF OneOfEach
<1> QED
  BY <1>5, <1>6, <1>7, <1>8, <1>9

\* Every step keeps the types and the lists as they should be.
LEMMA ShapeKept == Shape /\ TrueIds' /\ [Next]_vars => Shape'
<1> SUFFICES ASSUME Shape, [Next]_vars PROVE Typed' /\ TaskOK(task')
  BY NextIInv DEF Shape, IInv
<1> USE DEF Shape
<1>0. task.attempt \in 0..Retries
  BY DEF TaskOK
<1>1. ASSUME NEW list \in Lists(MaxTxsPerBlock), FillPool(list)
      PROVE  Typed' /\ TaskOK(task')
  <2>1. OneOfEach(list)
    <3>1. list \in Seq(Tx) /\ IsInjective(list)
      BY LedgerAssumption, BlocksAre DEF Lists
    <3> QED
      BY <3>1 DEF OneOfEach
  <2>2. /\ unconfirmed' = unconfirmed \o list
        /\ task' = [task EXCEPT !.stage = "apply", !.list = list]
        /\ ToSet(list) \cap ToSet(unconfirmed) = {}
        /\ Len(unconfirmed) + Len(list) <= MaxTxsPerBlock
        /\ UNCHANGED <<balance, u_balance, chain, events, rewound>>
    BY <1>1 DEF FillPool
  <2>3. OneOfEach(unconfirmed') /\ Len(unconfirmed') <= MaxTxsPerBlock
    BY <2>1, <2>2, Joined DEF Typed
  <2>4. TaskOK(task')
    BY <2>1, <2>2, QueueLoopOK
  <2> QED
    BY <2>2, <2>3, <2>4 DEF Typed
<1>2. ASSUME NEW block \in Blocks, NEW given, ReceiveBlock(block, given)
      PROVE  Typed' /\ TaskOK(task')
  BY <1>2, ProcessShape DEF ReceiveBlock
<1>3. ASSUME NEW block \in Blocks, NEW given, SyncBlock(block, given)
      PROVE  Typed' /\ TaskOK(task')
  BY <1>3, ProcessShape DEF SyncBlock
<1>4. ASSUME NEW t \in Tx, Step(t) PROVE Typed' /\ TaskOK(task')
  BY <1>4, StepShape
<1>5. ASSUME NEW t \in Tx, Expire(t) PROVE Typed' /\ TaskOK(task')
  <2>2. OneOfEach(unconfirmed') /\ Len(unconfirmed') <= Len(unconfirmed)
    BY <1>5, FirstRemoved DEF Typed, Expire, RemoveUnconfirmed
  <2>3. Len(unconfirmed') \in Nat /\ Len(unconfirmed) \in Nat /\ MaxTxsPerBlock \in Nat
    BY <2>2, LedgerAssumption DEF Typed, OneOfEach
  <2> QED
    BY <1>5, <2>2, <2>3 DEF Expire, Typed
<1>6. CASE Stage
  BY <1>6, StageShape
<1>7. CASE GenerateBlock
  <2>1. PICK block \in Create(unconfirmed) : ProcessBlock(block, block)
    BY <1>7 DEF GenerateBlock
  <2>2. block \in Blocks
    BY <2>1, GeneratedOK
  <2> QED
    BY <2>1, <2>2, ProcessShape
<1>8. CASE DeleteLastBlock
  <2>2. PICK gone : gone = ToSet(Last(chain))
    OBVIOUS
  <2>3. \A a : Spent(a, gone) \in Nat /\ Received(a, gone) \in Nat
    BY <1>8, <2>2, Deleted, Sums
  <2>4. balance' \in [Account -> Int] /\ u_balance' \in [Account -> Int]
    BY <1>8, <2>2, <2>3, Deleted DEF Typed
  <2> QED
    BY <1>8, <2>4 DEF DeleteLastBlock, Typed
<1>9. CASE SyncStart
  <2>2. 1 \in 0..Retries
    BY LedgerAssumption
  <2>3. TaskOK(task')
    BY <1>9, <2>2, SyncOK DEF SyncStart, Typed
  <2> QED
    BY <1>9, <2>3 DEF SyncStart, Typed
<1>10. CASE SyncFail
  <2>1. TaskOK(task')
    <3>1. CASE task.attempt < Retries
      <4>1. task.attempt + 1 \in 0..Retries
        BY <1>0, <3>1, LedgerAssumption
      <4> QED
        BY <1>10, <3>1, <4>1, SyncOK DEF SyncFail, Typed
    <3>2. CASE ~(task.attempt < Retries)
      BY <1>10, <3>2, NoTaskOK DEF SyncFail
    <3> QED
      BY <3>1, <3>2
  <2> QED
    BY <1>10, <2>1, TypedSame DEF SyncFail
<1>11. CASE SyncEnd
  <2>1. TaskOK(task')
    BY <1>11, NoTaskOK, Reversed, QueueLoopOK DEF SyncEnd, Typed
  <2> QED
    BY <1>11, <2>1, TypedSame DEF SyncEnd
<1>12. CASE UNCHANGED vars
  BY <1>12, TypedSame DEF vars
<1> QED
  BY <1>1, <1>2, <1>3, <1>4, <1>5, <1>6, <1>7, <1>8, <1>9, <1>10, <1>11, <1>12 DEF Next
-----------------------------------------------------------------------------
(* The lists as sets, and the confirmed half of the ledger                  *)

Queue == ToSet(unconfirmed)
Ahead == ToSet(task.list)
Kept == ToSet(task.ids)
Payload == ToSet(task.block)

\* What the loop over the block has dealt with.
Behind == Payload \ Ahead

(* Replayed, inside of applyBlock too: what of the block has been applied  *)
(* counts as confirmed.                                                    *)
Counted == IF task.stage = "confirmed" THEN Confirmed \cup Behind ELSE Confirmed

Recounted ==
  task.stage # "exited" =>
    \A a \in Account :
      balance[a] = Balance0[a] + Received(a, Counted) - Spent(a, Counted)

\* QueueUnconfirmed, at every step.
QueueNew ==
  /\ Queue \cap Confirmed \subseteq IF task.stage = "apply" THEN Ahead ELSE {}
  /\ task.stage = "confirmed" => Queue \cap Behind = {}

\* Sums over two sets with nothing in common add up.
LEMMA SumsUnion ==
  ASSUME NEW S \in SUBSET Tx, IsFiniteSet(S), NEW R \in SUBSET Tx, IsFiniteSet(R),
         S \cap R = {}, NEW a
  PROVE  /\ Spent(a, S \cup R) = Spent(a, S) + Spent(a, R)
         /\ Received(a, S \cup R) = Received(a, S) + Received(a, R)
<1> DEFINE Fine(U) == /\ Spent(a, S \cup U) = Spent(a, S) + Spent(a, U)
                      /\ Received(a, S \cup U) = Received(a, S) + Received(a, U)
           T == {U \in SUBSET R : ~Fine(U)}
<1> SUFFICES ASSUME T # {} PROVE FALSE
  OBVIOUS
<1>1. T \in SUBSET (SUBSET R)
  OBVIOUS
<1>2. (\A U \in T : ~Fine(U)) /\ (\A U \in (SUBSET R) \ T : Fine(U))
  OBVIOUS
<1> HIDE DEF T
<1>3. PICK U \in T : \A r \in T : r \subseteq U => r = U
  BY <1>1, SmallestSet
<1>4. U \in SUBSET R /\ IsFiniteSet(U) /\ U \in SUBSET Tx /\ ~Fine(U)
  BY <1>1, <1>2, FS_Subset
<1>5. Spent(a, S) \in Nat /\ Received(a, S) \in Nat
  BY Sums
<1>6. U # {}
  <2> SUFFICES ASSUME U = {} PROVE FALSE
    OBVIOUS
  <2>1. S \cup U = S
    OBVIOUS
  <2>2. Spent(a, U) = 0 /\ Received(a, U) = 0
    BY <1>4, Sums
  <2> QED
    BY <1>4, <1>5, <2>1, <2>2
<1>7. PICK t \in U : TRUE
  BY <1>6
<1>8. PICK W : W = U \ {t}
  OBVIOUS
<1>9. /\ W \in SUBSET R /\ W \notin T /\ t \notin W /\ W \in SUBSET Tx /\ IsFiniteSet(W)
      /\ t \in Tx /\ t \notin S \cup W
  BY <1>3, <1>4, <1>8, FS_Subset
<1>10. Fine(W)
  BY <1>2, <1>9
<1>11. /\ S \cup U = (S \cup W) \cup {t} /\ U = W \cup {t}
       /\ S \cup W \in SUBSET Tx /\ IsFiniteSet(S \cup W)
  BY <1>8, <1>9, FS_Union
<1>12. /\ Spent(a, U) = Spent(a, W) + Cost(a, t)
       /\ Received(a, U) = Received(a, W) + Gain(a, t)
  BY <1>9, <1>11, SumsMore
<1>13. PICK V : V = S \cup W
  OBVIOUS
<1>14. /\ Spent(a, V \cup {t}) = Spent(a, V) + Cost(a, t)
       /\ Received(a, V \cup {t}) = Received(a, V) + Gain(a, t)
  BY <1>9, <1>11, <1>13, SumsMore
<1>15. /\ Spent(a, W) \in Nat /\ Received(a, W) \in Nat
       /\ Cost(a, t) \in Nat /\ Gain(a, t) \in Nat
  BY <1>9, Sums, Moves
<1>16. /\ Spent(a, S \cup U) = Spent(a, V) + Cost(a, t)
       /\ Received(a, S \cup U) = Received(a, V) + Gain(a, t)
       /\ Spent(a, V) = Spent(a, S) + Spent(a, W)
       /\ Received(a, V) = Received(a, S) + Received(a, W)
  BY <1>10, <1>11, <1>13, <1>14
<1>17. /\ Spent(a, S \cup U) = Spent(a, S) + Spent(a, U)
       /\ Received(a, S \cup U) = Received(a, S) + Received(a, U)
  BY <1>5, <1>12, <1>15, <1>16
<1> QED
  BY <1>4, <1>17

\* What is in the blocks of a chain, all of which are confirmed if all are saved.
In(c) == UNION {ToSet(c[i]) : i \in DOMAIN c}

\* Shape has them saved.
LEMMA AllConfirmed == chain \in Seq(Blocks) /\ Saved(Len(chain)) => Confirmed = In(chain)
<1> SUFFICES ASSUME chain \in Seq(Blocks), Saved(Len(chain)) PROVE Confirmed = In(chain)
  OBVIOUS
<1>1. PICK n \in Nat : n = Len(chain) /\ DOMAIN chain = 1..n
  OBVIOUS
<1>2. \A i \in DOMAIN chain : Saved(i)
  BY <1>1 DEF Saved
<1>3. {j \in DOMAIN chain : Saved(j)} = DOMAIN chain
  BY <1>2
<1> QED
  BY <1>3 DEF Confirmed, In

\* A chain confirms finitely many transactions.
LEMMA ConfirmedOK ==
  ASSUME chain \in Seq(Blocks), Saved(Len(chain))
  PROVE  Confirmed \in SUBSET Tx /\ IsFiniteSet(Confirmed)
<1>1. PICK n \in Nat : n = Len(chain)
  OBVIOUS
<1>2. DOMAIN chain = 1..n /\ \A i \in 1..n : chain[i] \in Blocks
  BY <1>1
<1>3. \A i \in 1..n : ToSet(chain[i]) \in SUBSET Tx /\ IsFiniteSet(ToSet(chain[i]))
  BY <1>2, SetFinite, LedgerAssumption, BlocksAre DEF Blocks
<1> DEFINE P == {ToSet(chain[i]) : i \in 1..n}
           D == 1..n
<1>4. IsFiniteSet(D)
  BY FS_Interval
<1>5. [i \in D |-> ToSet(chain[i])] \in Surjection(D, P)
  BY DEF Surjection
<1>6. \A r \in P : r \in SUBSET Tx /\ IsFiniteSet(r)
  BY <1>3
<1>7. Confirmed = UNION P
  BY <1>2, AllConfirmed DEF In
<1> HIDE DEF P, D
<1>8. IsFiniteSet(P)
  BY <1>4, <1>5, FS_Surjection
<1>9. IsFiniteSet(UNION P)
  BY <1>6, <1>8, FS_UNION
<1> QED
  BY <1>6, <1>7, <1>9

\* All these sets are finite sets of transactions.
LEMMA SetsOK ==
  ASSUME Shape
  PROVE  /\ Queue \in SUBSET Tx /\ IsFiniteSet(Queue)
         /\ Ahead \in SUBSET Tx /\ IsFiniteSet(Ahead)
         /\ Kept \in SUBSET Tx /\ IsFiniteSet(Kept)
         /\ Payload \in SUBSET Tx /\ IsFiniteSet(Payload)
         /\ Behind \in SUBSET Tx /\ IsFiniteSet(Behind)
         /\ Confirmed \in SUBSET Tx /\ IsFiniteSet(Confirmed)
         /\ Counted \in SUBSET Tx /\ IsFiniteSet(Counted)
<1>1. Queue \in SUBSET Tx /\ IsFiniteSet(Queue)
  BY SetFinite DEF Shape, Typed, OneOfEach, Queue
<1>2. Ahead \in SUBSET Tx /\ IsFiniteSet(Ahead) /\ Kept \in SUBSET Tx /\ IsFiniteSet(Kept)
  BY SetFinite DEF Shape, TaskOK, OneOfEach, Ahead, Kept
<1>3. Payload \in SUBSET Tx /\ IsFiniteSet(Payload)
  <2>1. task.block \in Seq(Tx)
    BY LedgerAssumption, BlocksAre DEF Shape, TaskOK, Blocks
  <2> QED
    BY <2>1, SetFinite DEF Payload
<1>4. Behind \in SUBSET Payload
  BY DEF Behind
<1>5. Behind \in SUBSET Tx /\ IsFiniteSet(Behind)
  BY <1>3, <1>4, FS_Subset
<1>6. Confirmed \in SUBSET Tx /\ IsFiniteSet(Confirmed)
  BY ConfirmedOK DEF Shape, Single, IInv, AnyIds
<1>7. Confirmed \cup Behind \in SUBSET Tx /\ IsFiniteSet(Confirmed \cup Behind)
  BY <1>5, <1>6, FS_Union
<1> QED
  BY <1>1, <1>2, <1>3, <1>5, <1>6, <1>7 DEF Counted

\* What the chain confirms after a block is saved or deleted.
LEMMA SavedConfirms ==
  ASSUME Shape, BlockUnderWay(task), chain' = Append(chain, task.block)
  PROVE  Confirmed' = Confirmed \cup Payload
<1>0. /\ chain \in Seq(Blocks) /\ chain' \in Seq(Blocks)
      /\ Confirmed = In(chain) /\ Confirmed' = In(chain')
  <2>1. AnyIds /\ Single /\ Fresh(task.block)
    BY DEF Shape, IInv, AnyIds, BlockFresh
  <2>2. /\ chain \in Seq(Blocks) /\ Saved(Len(chain))
        /\ chain' \in Seq(Blocks) /\ Saved(Len(chain))'
    BY <2>1, SavedOnce DEF AnyIds, Single
  <2>3. (chain \in Seq(Blocks) /\ Saved(Len(chain)) => Confirmed = In(chain))'
    BY AllConfirmed, PTL
  <2> QED
    BY <2>2, <2>3, AllConfirmed
<1>1. PICK n \in Nat : n = Len(chain)
  BY <1>0
<1>2. DOMAIN chain = 1..n
  BY <1>0, <1>1
<1>3. /\ DOMAIN chain' = 1..(n + 1)
      /\ \A i \in 1..n : chain'[i] = chain[i]
      /\ chain'[n + 1] = task.block
  BY <1>0, <1>1
<1>4. \A i \in 1..(n + 1) : i \in 1..n \/ i = n + 1
  OBVIOUS
<1>5. 1..n \subseteq 1..(n + 1) /\ n + 1 \in 1..(n + 1)
  OBVIOUS
<1>6. ASSUME NEW x PROVE x \in Confirmed' <=> x \in Confirmed \cup Payload
  <2>1. ASSUME x \in Confirmed' PROVE x \in Confirmed \cup Payload
    <3>1. PICK i \in 1..(n + 1) : x \in ToSet(chain'[i])
      BY <2>1, <1>3, <1>0 DEF In
    <3> QED
      BY <3>1, <1>2, <1>3, <1>4, <1>0 DEF In, Payload
  <2>2. ASSUME x \in Confirmed PROVE x \in Confirmed'
    <3>1. PICK i \in 1..n : x \in ToSet(chain[i])
      BY <2>2, <1>2, <1>0 DEF In
    <3> QED
      BY <3>1, <1>3, <1>5, <1>0 DEF In
  <2>3. ASSUME x \in Payload PROVE x \in Confirmed'
    BY <2>3, <1>3, <1>5, <1>0 DEF In, Payload
  <2> QED
    BY <2>1, <2>2, <2>3
<1> QED
  BY <1>6

\* What the chain confirms after its last block is deleted.
LEMMA DeletedConfirms ==
  ASSUME Shape, chain # <<>>, chain' = Front(chain), NEW gone, gone = ToSet(Last(chain))
  PROVE  Confirmed = Confirmed' \cup gone /\ Confirmed' \cap gone = {}
<1>0. /\ chain \in Seq(Blocks) /\ chain' \in Seq(Blocks) /\ Saved(Len(chain)) /\ Apart
      /\ Confirmed = In(chain) /\ Confirmed' = In(chain')
  <2>1. AnyIds /\ Single
    BY DEF Shape, IInv
  <2>2. /\ chain \in Seq(Blocks) /\ Saved(Len(chain)) /\ Apart
        /\ chain' \in Seq(Blocks) /\ Saved(Len(chain))'
    BY <2>1, DeletedOnce DEF AnyIds, Single
  <2>3. (chain \in Seq(Blocks) /\ Saved(Len(chain)) => Confirmed = In(chain))'
    BY AllConfirmed, PTL
  <2> QED
    BY <2>2, <2>3, AllConfirmed
<1>1. PICK n \in Nat : n = Len(chain) /\ n >= 1
  BY <1>0
<1>2. DOMAIN chain = 1..n /\ gone = ToSet(chain[n])
  BY <1>0, <1>1 DEF Last
<1>3. /\ DOMAIN chain' = 1..(n - 1)
      /\ \A i \in 1..(n - 1) : chain'[i] = chain[i]
  BY <1>0, <1>1 DEF Front
<1>4. \A i \in 1..n : i \in 1..(n - 1) \/ i = n
  OBVIOUS
<1>5. 1..(n - 1) \subseteq 1..n /\ n \in 1..n /\ n \notin 1..(n - 1)
  BY <1>1
<1>6. \A i \in 1..(n - 1) : ToSet(chain[i]) \cap gone = {}
  <2>1. \A i \in 1..n : Saved(i)
    BY <1>0, <1>1 DEF Saved
  <2>2. \A i, j \in 1..n : i # j => ToSet(chain[i]) \cap ToSet(chain[j]) = {}
    BY <1>0, <1>2, <2>1 DEF Apart
  <2> QED
    BY <1>2, <1>5, <2>2
<1>7. ASSUME NEW x PROVE x \in Confirmed <=> x \in Confirmed' \cup gone
  <2>1. ASSUME x \in Confirmed PROVE x \in Confirmed' \cup gone
    <3>1. PICK i \in 1..n : x \in ToSet(chain[i])
      BY <2>1, <1>2, <1>0 DEF In
    <3> QED
      BY <3>1, <1>2, <1>3, <1>4, <1>0 DEF In
  <2>2. ASSUME x \in Confirmed' PROVE x \in Confirmed
    <3>1. PICK i \in 1..(n - 1) : x \in ToSet(chain[i])
      BY <2>2, <1>3, <1>0 DEF In
    <3> QED
      BY <3>1, <1>2, <1>5, <1>0 DEF In
  <2>3. ASSUME x \in gone PROVE x \in Confirmed
    BY <2>3, <1>2, <1>5, <1>0 DEF In
  <2> QED
    BY <2>1, <2>2, <2>3
<1>8. ASSUME NEW x, x \in Confirmed', x \in gone PROVE FALSE
  <2>1. PICK i \in 1..(n - 1) : x \in ToSet(chain[i])
    BY <1>8, <1>3, <1>0 DEF In
  <2> QED
    BY <2>1, <1>6, <1>8
<1> QED
  BY <1>7, <1>8

-----------------------------------------------------------------------------
(* What the steps do, to the sets of transactions that the lists hold *)

\* The loop goes on, with the next transaction of its list.
Loop(t) ==
  /\ t \in Ahead
  /\ Ahead' = Ahead \ {t}
  /\ task'.stage = task.stage /\ task'.next = task.next /\ task'.attempt = task.attempt

Applies(t) ==
  /\ task.stage \in {"apply", "applyIds"} /\ Loop(t)
  /\ task.stage = "applyIds" => t \in Queue
  /\ Affordable(t)
  /\ \A a \in Account : u_balance'[a] = u_balance[a] - Cost(a, t)
  /\ UNCHANGED <<balance, unconfirmed, chain, events, rewound>>

Fails(t) ==
  /\ task.stage \in {"apply", "applyIds"} /\ Loop(t)
  /\ Queue' = Queue \ {t}
  /\ UNCHANGED <<balance, u_balance, chain, events, rewound>>

Skips(t) ==
  /\ task.stage = "applyIds" /\ Loop(t)
  /\ t \notin Queue
  /\ UNCHANGED <<balance, u_balance, unconfirmed, chain, events, rewound>>

Undoes(t) ==
  /\ task.stage = "undo" /\ Loop(t)
  /\ Kept' = Kept \cup {t} /\ Payload' = Payload
  /\ \A a \in Account : u_balance'[a] = u_balance[a] + Cost(a, t)
  /\ UNCHANGED <<balance, unconfirmed, chain, events, rewound>>

AppliesOfBlock(t) ==
  /\ task.stage = "unconfirmed" /\ Loop(t)
  /\ Kept' = Kept \ {t} /\ Payload' = Payload /\ t \in Payload
  /\ Spend(t) <= u_balance[From[t]]
  /\ \A a \in Account : u_balance'[a] = u_balance[a] - Cost(a, t)
  /\ UNCHANGED <<balance, unconfirmed, chain, events, rewound>>

Confirms(t) ==
  /\ task.stage = "confirmed" /\ Loop(t)
  /\ Kept' = Kept /\ Payload' = Payload /\ t \in Payload /\ t \notin Confirmed
  /\ \A a \in Account : balance'[a] = (balance[a] - Cost(a, t)) + Gain(a, t)
  /\ \A a \in Account : u_balance'[a] = u_balance[a] + Gain(a, t)
  /\ Queue' = Queue \ {t}
  /\ UNCHANGED <<chain, events, rewound>>

\* The steps of the loops do no more and no less than these say.
LEMMA StepDoes ==
  ASSUME Shape, NEW t \in Tx, Step(t)
  PROVE  \/ Applies(t) \/ Fails(t) \/ Skips(t) \/ Undoes(t)
         \/ AppliesOfBlock(t) \/ Confirms(t)
<1>0. /\ TaskOK(task) /\ OneOfEach(unconfirmed)
      /\ balance \in [Account -> Int] /\ u_balance \in [Account -> Int]
  BY DEF Shape, Typed
<1>1. task.list # <<>> /\ t = Head(task.list)
  BY DEF Step, ApplyTransaction, ApplyFailed, ApplyUnknown, Applying, UndoTransaction,
     BlockApplyUnconfirmed, BlockApply
<1>2. t \in Ahead
  BY <1>0, <1>1, HeadTail DEF TaskOK, Ahead
<1>3. RemoveUnconfirmed(t) => Queue' = Queue \ {t}
  BY <1>0, FirstRemoved DEF RemoveUnconfirmed, Queue
<1>4. task.stage \in {"unconfirmed", "confirmed"} =>
        t \in Payload /\ Payload \cap Confirmed = {}
  <2> SUFFICES ASSUME task.stage \in {"unconfirmed", "confirmed"}
               PROVE  t \in Payload /\ Payload \cap Confirmed = {}
    OBVIOUS
  <2>1. OneOfEach(task.block) /\ Payload \cap Confirmed = {}
    BY PayloadOK DEF BlockUnderWay, Payload
  <2>2. PICK k \in 0..Len(task.block) :
          task.list = SubSeq(task.block, k + 1, Len(task.block))
    BY <1>0 DEF TaskOK, TailOf
  <2>3. Ahead \subseteq Payload
    BY <2>1, <2>2, TailOfBlock DEF Ahead, Payload
  <2> QED
    BY <1>2, <2>1, <2>3
<1>5. ASSUME NextOfList, task.stage \in {"apply", "applyIds", "confirmed"}
      PROVE  Loop(t) /\ Kept' = Kept /\ Payload' = Payload
  <2>1. task' = [task EXCEPT !.list = Tail(task.list)]
    BY <1>5 DEF NextOfList
  <2> QED
    BY <1>0, <1>1, <1>2, <1>5, <2>1, NextOfListOK DEF Loop, Ahead, Kept, Payload
<1>6. CASE ApplyTransaction(t)
  <2>1. \A a \in Account : u_balance'[a] = u_balance[a] - Cost(a, t)
    BY <1>0, <1>6, Merged DEF ApplyTransaction, ApplyUnconfirmed
  <2>2. task.stage = "applyIds" => t \in Queue
    BY <1>6 DEF ApplyTransaction, Known, Queue
  <2> QED
    BY <1>5, <1>6, <2>1, <2>2 DEF ApplyTransaction, Applying, Applies
<1>7. CASE ApplyFailed(t)
  BY <1>3, <1>5, <1>7 DEF ApplyFailed, Applying, Fails
<1>8. CASE ApplyUnknown(t)
  BY <1>5, <1>8 DEF ApplyUnknown, Applying, Known, Skips, Queue
<1>9. CASE UndoTransaction(t)
  <2>1. /\ task' = [task EXCEPT !.list = Tail(task.list), !.ids = Append(task.ids, t)]
        /\ task.stage = "undo"
    BY <1>9 DEF UndoTransaction
  <2>2. Loop(t) /\ Kept' = Kept \cup {t} /\ Payload' = Payload
    <3>1. /\ task'.stage = task.stage /\ task'.next = task.next
          /\ task'.attempt = task.attempt /\ task'.block = task.block
          /\ ToSet(task'.list) = ToSet(task.list) \ {t}
          /\ ToSet(task'.ids) = ToSet(task.ids) \cup {t}
      BY <1>0, <1>1, <2>1, UndoneOK
    <3> QED
      BY <1>2, <3>1 DEF Loop, Ahead, Kept, Payload
  <2>3. \A a \in Account : u_balance'[a] = u_balance[a] + Cost(a, t)
    BY <1>0, <1>9, Merged DEF UndoTransaction, UndoUnconfirmed
  <2> QED
    BY <1>9, <2>2, <2>3 DEF UndoTransaction, Undoes
<1>10. CASE BlockApplyUnconfirmed(t)
  <2>1. /\ task' = [task EXCEPT !.list = Tail(task.list), !.ids = RemoveFirst(task.ids, t)]
        /\ task.stage = "unconfirmed"
    BY <1>10 DEF BlockApplyUnconfirmed
  <2>2. Loop(t) /\ Kept' = Kept \ {t} /\ Payload' = Payload
    <3>1. /\ task'.stage = task.stage /\ task'.next = task.next
          /\ task'.attempt = task.attempt /\ task'.block = task.block
          /\ ToSet(task'.list) = ToSet(task.list) \ {t}
          /\ ToSet(task'.ids) = ToSet(task.ids) \ {t}
      BY <1>0, <1>1, <2>1, BlockStepOK
    <3> QED
      BY <1>2, <3>1 DEF Loop, Ahead, Kept, Payload
  <2>3. \A a \in Account : u_balance'[a] = u_balance[a] - Cost(a, t)
    BY <1>0, <1>10, Merged DEF BlockApplyUnconfirmed, ApplyUnconfirmed
  <2> QED
    BY <1>4, <1>10, <2>2, <2>3 DEF BlockApplyUnconfirmed, AppliesOfBlock
<1>11. CASE BlockApply(t)
  <2>1. PICK f : f = Merge(balance, From[t], -Spend(t))
    OBVIOUS
  <2>2. /\ f \in [Account -> Int] /\ \A a \in Account : f[a] = balance[a] - Cost(a, t)
        /\ f = Apply(balance, t)
    BY <1>0, <2>1, Merged
  <2>3. \A a \in Account : Pay(f, t)[a] = f[a] + Gain(a, t)
    BY <2>2, Merged
  <2>4. \A a \in Account : balance'[a] = (balance[a] - Cost(a, t)) + Gain(a, t)
    BY <1>11, <2>2, <2>3 DEF BlockApply
  <2>5. \A a \in Account : u_balance'[a] = u_balance[a] + Gain(a, t)
    BY <1>0, <1>11, Merged DEF BlockApply
  <2>6. Loop(t) /\ Kept' = Kept /\ Payload' = Payload
    BY <1>5, <1>11 DEF BlockApply
  <2> QED
    BY <1>3, <1>4, <1>11, <2>4, <2>5, <2>6 DEF BlockApply, Confirms
<1> QED
  BY <1>6, <1>7, <1>8, <1>9, <1>10, <1>11 DEF Step

\* A loop that is over, and where the task goes on.
QueueApplied ==
  /\ task.stage \in {"apply", "applyIds"} /\ Ahead = {} /\ Ahead' = {}
  /\ task'.stage = IF task.attempt = 0 THEN "idle" ELSE "syncing"
  /\ task'.next = "idle" /\ task'.attempt = task.attempt
  /\ UNCHANGED <<balance, u_balance, unconfirmed, chain, events, rewound>>

QueueUndone ==
  /\ task.stage = "undo" /\ Ahead = {}
  /\ task'.attempt = task.attempt
  /\ \/ task.next = "syncing" /\ task'.stage = "syncing" /\ task'.next = "idle"
     \/ /\ task.next # "syncing" /\ task'.stage = "unconfirmed" /\ task'.next = task.next
        /\ Ahead' = Payload /\ Payload' = Payload /\ Kept' = Kept
  /\ UNCHANGED <<balance, u_balance, unconfirmed, chain, events, rewound>>

\* Whatever came of the loop, the confirmed half begins.
HalfDone ==
  /\ task.stage = "unconfirmed" /\ task'.stage = "confirmed"
  /\ task'.next = task.next /\ task'.attempt = task.attempt
  /\ Ahead' = Payload /\ Payload' = Payload /\ Kept' = Kept
  /\ UNCHANGED <<balance, unconfirmed, chain, events>>

Rewinds ==
  /\ HalfDone
  /\ \E t \in Ahead : Spend(t) > u_balance[From[t]]
  /\ Behind \subseteq Payload
  /\ \A a \in Account : u_balance'[a] = u_balance[a] + Spent(a, Behind)
  /\ \A a \in Account : rewound'[a] = rewound[a] + Spent(a, Payload)

Ends == HalfDone /\ Ahead = {} /\ UNCHANGED <<u_balance, rewound>>

Exits ==
  /\ task.stage = "confirmed" /\ task'.stage = "exited"
  /\ task'.next = task.next /\ task'.attempt = task.attempt
  /\ \E t \in Ahead : Spend(t) > balance[From[t]]
  /\ UNCHANGED <<balance, u_balance, unconfirmed, chain, events, rewound>>

Saves ==
  /\ task.stage = "confirmed" /\ task'.stage = "applyIds"
  /\ task'.next = task.next /\ task'.attempt = task.attempt
  /\ Ahead = {} /\ Ahead' = Kept
  /\ Confirmed' = Confirmed \cup Payload
  /\ UNCHANGED <<balance, u_balance, unconfirmed, events, rewound>>

\* A list that is over.
LEMMA EmptyList ==
  ASSUME Shape
  PROVE  task.list = <<>> => Ahead = {}
  BY NoneOK DEF Ahead

\* The ends of the loops do what these say.
LEMMA StageDoes ==
  ASSUME Shape, Stage
  PROVE  QueueApplied \/ QueueUndone \/ Rewinds \/ Ends \/ Exits \/ Saves
<1>0. TaskOK(task) /\ task.attempt \in 0..Retries
  BY DEF Shape, TaskOK
<1>1. CASE ApplyEnd
  <2>1. /\ task'.list = <<>> /\ task'.next = "idle" /\ task'.attempt = task.attempt
        /\ task'.stage = IF task.attempt = 0 THEN "idle" ELSE "syncing"
    <3>1. CASE task.attempt = 0
      BY <1>1, <3>1, NoTaskOK DEF ApplyEnd, Resting
    <3>2. CASE task.attempt # 0
      BY <1>0, <1>1, <3>2, SyncingOK DEF ApplyEnd, Resting
    <3> QED
      BY <3>1, <3>2
  <2>2. Ahead' = {}
    BY <2>1, NoneOK DEF Ahead
  <2> QED
    BY <1>1, <2>1, <2>2, EmptyList DEF ApplyEnd, QueueApplied
<1>2. CASE UndoEnd
  <2>1. CASE task.next = "syncing"
    <3>1. task'.stage = "syncing" /\ task'.next = "idle" /\ task'.attempt = task.attempt
      BY <1>0, <1>2, <2>1, SyncingOK DEF UndoEnd
    <3> QED
      BY <1>2, <2>1, <3>1, EmptyList DEF UndoEnd, QueueUndone
  <2>2. CASE task.next # "syncing"
    <3>1. OneOfEach(task.block)
      BY <1>2, <2>2, PayloadOK DEF UndoEnd, BlockUnderWay
    <3>2. task' = [task EXCEPT !.stage = "unconfirmed", !.list = task.block]
      BY <1>2, <2>2 DEF UndoEnd
    <3>3. /\ task'.stage = "unconfirmed" /\ task'.next = task.next
          /\ task'.attempt = task.attempt /\ task'.block = task.block
          /\ task'.ids = task.ids /\ task'.list = task.block
      BY <1>0, <3>1, <3>2, BlockLoopOK
    <3>4. Ahead' = Payload /\ Payload' = Payload /\ Kept' = Kept
      BY <3>3 DEF Ahead, Payload, Kept
    <3> QED
      BY <1>2, <2>2, <3>3, <3>4, EmptyList DEF UndoEnd, QueueUndone
  <2> QED
    BY <2>1, <2>2
<1>3. ASSUME task.stage = "unconfirmed",
             task' = [task EXCEPT !.stage = "confirmed", !.list = task.block]
      PROVE  /\ task'.stage = "confirmed"
             /\ task'.next = task.next /\ task'.attempt = task.attempt
             /\ Ahead' = Payload /\ Payload' = Payload /\ Kept' = Kept
  <2>1. OneOfEach(task.block)
    BY <1>0, <1>3 DEF TaskOK
  <2>2. /\ task'.stage = "confirmed" /\ task'.next = task.next
        /\ task'.attempt = task.attempt /\ task'.block = task.block
        /\ task'.ids = task.ids /\ task'.list = task.block
    BY <1>0, <1>3, <2>1, BlockLoopOK
  <2> QED
    BY <2>2 DEF Ahead, Payload, Kept
<1>4. CASE BlockRewind
  <2>1. HalfDone
    BY <1>3, <1>4 DEF BlockRewind, HalfDone
  <2>2. OneOfEach(task.block) /\ TailOf(task.list, task.block)
    BY <1>0, <1>4 DEF BlockRewind, TaskOK
  <2>3. PICK k \in 0..Len(task.block) :
          task.list = SubSeq(task.block, k + 1, Len(task.block))
    BY <2>2 DEF TailOf
  <2>4. /\ Len(task.block) - Len(task.list) = k
        /\ ToSet(SubSeq(task.block, 1, k)) = ToSet(task.block) \ ToSet(task.list)
    BY <2>2, <2>3, TailOfBlock
  <2>5. ToSet(Done) = Behind /\ Behind \subseteq Payload
    BY <2>4 DEF Done, Behind, Payload, Ahead
  <2>6. \E t \in Ahead : Spend(t) > u_balance[From[t]]
    <3>1. Head(task.list) \in Ahead
      BY <1>0, <1>4, HeadTail DEF BlockRewind, TaskOK, Ahead
    <3> QED
      BY <1>4, <3>1 DEF BlockRewind
  <2>9. \A a : Returned(a) = Spent(a, Behind)
    <3>1. ToSet(Done) \in SUBSET ToSet(task.block)
      BY <2>5 DEF Payload
    <3> QED
      BY <2>2, <2>5, <3>1, ReturnedIsSpent DEF OneOfEach
  <2>7. \A a \in Account : u_balance'[a] = u_balance[a] + Spent(a, Behind)
    BY <1>4, <2>9 DEF BlockRewind
  <2>8. \A a \in Account : rewound'[a] = rewound[a] + Spent(a, Payload)
    BY <1>4 DEF BlockRewind, Payload
  <2> QED
    BY <2>1, <2>5, <2>6, <2>7, <2>8 DEF Rewinds
<1>5. CASE BlockUnconfirmedEnd
  BY <1>3, <1>5, EmptyList DEF BlockUnconfirmedEnd, HalfDone, Ends
<1>6. CASE BlockFatal
  <2>1. Head(task.list) \in Ahead
    BY <1>0, <1>6, HeadTail DEF BlockFatal, TaskOK, Ahead
  <2>2. task'.stage = "exited" /\ task'.next = task.next /\ task'.attempt = task.attempt
    BY <1>0, <1>6, ExitOK DEF BlockFatal
  <2> QED
    BY <1>6, <2>1, <2>2 DEF BlockFatal, Exits
<1>7. CASE BlockSave
  <2>1. /\ task'.stage = "applyIds" /\ task'.next = task.next
        /\ task'.attempt = task.attempt /\ task'.list = task.ids
    BY <1>0, <1>7, SaveOK DEF BlockSave
  <2>2. Ahead' = Kept
    BY <2>1 DEF Ahead, Kept
  <2>3. Confirmed' = Confirmed \cup Payload
    BY <1>7, SavedConfirms DEF BlockSave, BlockUnderWay
  <2> QED
    BY <1>7, <2>1, <2>2, <2>3, EmptyList DEF BlockSave, Saves
<1> QED
  BY <1>1, <1>2, <1>4, <1>5, <1>6, <1>7 DEF Stage

\* What begins in a task that rests.
Rests == task.stage \in {"idle", "syncing"} /\ Ahead = {}
Idle == task.stage = "idle" /\ task.attempt = 0 /\ task.next = "idle" /\ Ahead = {}

Fills ==
  /\ Idle
  /\ task'.stage = "apply" /\ task'.next = task.next /\ task'.attempt = task.attempt
  /\ Ahead' \cap Queue = {} /\ Queue' = Queue \cup Ahead'
  /\ UNCHANGED <<balance, u_balance, chain, events, rewound>>

Accepts(payload) ==
  /\ Rests
  /\ task'.stage = "undo" /\ task'.next = "unconfirmed" /\ task'.attempt = task.attempt
  /\ Ahead' = Queue /\ Payload' = payload /\ Kept' = {}
  /\ payload \cap Confirmed = {}
  /\ UNCHANGED <<balance, u_balance, unconfirmed, chain, rewound>>

Refuses(payload) ==
  /\ Rests /\ task' = task
  /\ \E t \in Tx : /\ t \in payload /\ t \in Confirmed
                   /\ \A a \in Account : u_balance'[a] = u_balance[a] + Cost(a, t)
                   /\ Queue' = Queue \ {t}
  /\ UNCHANGED <<balance, chain, rewound>>

Receives(payload) ==
  /\ Accepts(payload) \/ Refuses(payload)
  /\ payload \cap Confirmed # {} => OnlyHappened({"delete", "overspend"})' = FALSE
  /\ (\E a \in Account : Spent(a, payload) > balance[a]) => OnlyHappened({})' = FALSE

Generates ==
  /\ Idle
  /\ Accepts(Queue) \/ Refuses(Queue)
  /\ UNCHANGED events

Deletes(gone) ==
  /\ Rests /\ task' = task
  /\ OnlyHappened({"overspend"})' = FALSE
  /\ gone \in SUBSET Tx /\ IsFiniteSet(gone)
  /\ Confirmed = Confirmed' \cup gone /\ Confirmed' \cap gone = {}
  /\ \A a \in Account :
       /\ balance'[a] = (balance[a] + Spent(a, gone)) - Received(a, gone)
       /\ u_balance'[a] = (u_balance[a] + Spent(a, gone)) - Received(a, gone)
  /\ UNCHANGED <<unconfirmed, rewound>>

\* A sync begins, fails or ends.
Syncs ==
  /\ \/ Idle /\ task'.stage = "undo" /\ OnlyHappened({"delete", "overspend"})' = FALSE
     \/ task.stage = "syncing" /\ task'.stage \in {"undo", "idle"} /\ UNCHANGED events
     \/ /\ task.stage = "syncing" /\ task'.stage = "apply" /\ Ahead' = Queue
        /\ UNCHANGED events
  /\ UNCHANGED <<balance, u_balance, unconfirmed, chain, rewound>>

Expires(t) ==
  /\ task' = task
  /\ OnlyHappened({"delete", "overspend"})' = FALSE
  /\ Queue' = Queue \ {t}
  /\ UNCHANGED <<balance, u_balance, chain, rewound>>

\* With no task the loops are over and no sync goes on.
LEMMA IdleIs ==
  ASSUME task = NoTask
  PROVE  Idle
  BY NoTaskOK, NoneOK DEF Idle, Ahead

\* A block is accepted, with no transaction of the chain, or refused for one.
LEMMA ProcessDoes ==
  ASSUME Shape, NEW block \in Blocks, NEW given, ProcessBlock(block, given)
  PROVE  Accepts(ToSet(block)) \/ Refuses(ToSet(block))
<1>0. OneOfEach(unconfirmed) /\ u_balance \in [Account -> Int] /\ block \in Seq(Tx)
  BY LedgerAssumption, BlocksAre DEF Shape, Typed, Blocks
<1>1. /\ task.ids = <<>> /\ task.stage \in {"idle", "syncing"} /\ task.list = <<>>
      /\ TaskOK(task)
  BY IdleOK DEF ProcessBlock, Shape, TaskOK
<1>2. Rests
  BY <1>1, NoneOK DEF Rests, Ahead
<1>3. CASE Accept(block)
  <2>1. task' = [task EXCEPT !.stage = "undo", !.list = unconfirmed, !.block = block,
                             !.next = "unconfirmed"]
    BY <1>3 DEF Accept
  <2>2. /\ task'.stage = "undo" /\ task'.next = "unconfirmed"
        /\ task'.attempt = task.attempt /\ task'.block = block /\ task'.ids = <<>>
        /\ task'.list = unconfirmed
    BY <1>1, <2>1 DEF TaskOK, IsTask
  <2>3. Ahead' = Queue /\ Payload' = ToSet(block) /\ Kept' = {}
    BY <2>2, NoneOK DEF Ahead, Queue, Payload, Kept
  <2>4. ToSet(block) \cap Confirmed = {}
    BY <1>3 DEF Accept, Passes, Verified
  <2> QED
    BY <1>2, <1>3, <2>2, <2>3, <2>4 DEF Accept, Accepts
<1>4. ASSUME NEW i \in DOMAIN block, Fork2(block, i) PROVE Refuses(ToSet(block))
  <2>1. PICK t \in Tx : t = block[i]
    BY <1>0
  <2>2. t \in ToSet(block)
    BY <2>1 DEF ToSet
  <2>3. \A a \in Account : u_balance'[a] = u_balance[a] + Cost(a, t)
    BY <1>0, <1>4, <2>1, Merged DEF Fork2, UndoUnconfirmed
  <2>4. Queue' = Queue \ {t}
    BY <1>0, <1>4, <2>1, FirstRemoved DEF Fork2, RemoveUnconfirmed, Queue
  <2> QED
    BY <1>2, <1>4, <2>1, <2>2, <2>3, <2>4 DEF Fork2, Refuses
<1> QED
  BY <1>3, <1>4 DEF ProcessBlock

\* The blocks of peers, with the events that are counted for them.
LEMMA SurprisesDo ==
  ASSUME Shape, NEW block \in Blocks, NEW given, ProcessBlock(block, given),
         Happen(Surprises(block, given))
  PROVE  Receives(ToSet(block))
<1>0. PICK kinds : kinds = Surprises(block, given)
  OBVIOUS
<1>1. /\ ToSet(block) \cap Confirmed # {} => "replay" \in kinds
      /\ (\E a \in Account : Spent(a, ToSet(block)) > balance[a]) => "overspend" \in kinds
  BY <1>0 DEF Surprises
<1>2. \A kind \in kinds : kind \in Events /\ events'[kind] # 0
  BY <1>0, HappenedOther DEF Shape
<1>3. /\ "replay" \in kinds => OnlyHappened({"delete", "overspend"})' = FALSE
      /\ "overspend" \in kinds => OnlyHappened({})' = FALSE
  BY <1>2 DEF OnlyHappened
<1>4. Accepts(ToSet(block)) \/ Refuses(ToSet(block))
  BY ProcessDoes
<1> QED
  BY <1>1, <1>3, <1>4 DEF Receives

\* Every step does one of these.
Does ==
  \/ \E t \in Tx : \/ Applies(t) \/ Fails(t) \/ Skips(t) \/ Undoes(t)
                   \/ AppliesOfBlock(t) \/ Confirms(t) \/ Expires(t)
  \/ QueueApplied \/ QueueUndone \/ Rewinds \/ Ends \/ Exits \/ Saves
  \/ Fills \/ Generates \/ Syncs
  \/ \E payload \in SUBSET Tx : Receives(payload)
  \/ \E gone : Deletes(gone)
  \/ UNCHANGED vars

\* So every step of the specification does one of these.
LEMMA NextDoes ==
  ASSUME Shape, [Next]_vars
  PROVE  Does
<1>0. /\ TaskOK(task) /\ OneOfEach(unconfirmed) /\ task.attempt \in 0..Retries
      /\ balance \in [Account -> Int] /\ u_balance \in [Account -> Int]
  BY DEF Shape, Typed, TaskOK
<1>1. ASSUME NEW list \in Lists(MaxTxsPerBlock), FillPool(list) PROVE Fills
  <2>1. OneOfEach(list)
    <3>1. list \in Seq(Tx) /\ IsInjective(list)
      BY LedgerAssumption, BlocksAre DEF Lists
    <3> QED
      BY <3>1 DEF OneOfEach
  <2>2. /\ unconfirmed' = unconfirmed \o list
        /\ task' = [task EXCEPT !.stage = "apply", !.list = list]
        /\ ToSet(list) \cap ToSet(unconfirmed) = {}
        /\ UNCHANGED <<balance, u_balance, chain, events, rewound>>
    BY <1>1 DEF FillPool
  <2>3. /\ task'.stage = "apply" /\ task'.next = task.next /\ task'.attempt = task.attempt
        /\ task'.list = list
    BY <1>0, <2>2 DEF TaskOK, IsTask
  <2>4. Ahead' = ToSet(list) /\ Queue' = Queue \cup ToSet(list)
    BY <1>0, <2>1, <2>2, <2>3, Joined DEF Ahead, Queue
  <2>5. Idle
    BY <1>1, IdleIs DEF FillPool
  <2> QED
    BY <2>2, <2>3, <2>4, <2>5 DEF Fills, Queue
<1>2. ASSUME NEW block \in Blocks, NEW given,
             ReceiveBlock(block, given) \/ SyncBlock(block, given)
      PROVE  \E payload \in SUBSET Tx : Receives(payload)
  <2>1. Receives(ToSet(block))
    BY <1>2, SurprisesDo DEF ReceiveBlock, SyncBlock
  <2>2. ToSet(block) \in SUBSET Tx
    <3>1. block \in Seq(Tx)
      BY LedgerAssumption, BlocksAre DEF Blocks
    <3> QED
      BY <3>1, SetFinite
  <2> QED
    BY <2>1, <2>2
<1>3. ASSUME NEW t \in Tx, Step(t)
      PROVE  \/ Applies(t) \/ Fails(t) \/ Skips(t) \/ Undoes(t)
             \/ AppliesOfBlock(t) \/ Confirms(t)
  BY <1>3, StepDoes
<1>4. ASSUME NEW t \in Tx, Expire(t) PROVE Expires(t)
  <2>1. OnlyHappened({"delete", "overspend"})' = FALSE
    BY <1>4, HappenedOther DEF Shape, Expire, Event, OnlyHappened
  <2>2. Queue' = Queue \ {t}
    BY <1>0, <1>4, FirstRemoved DEF Expire, RemoveUnconfirmed, Queue
  <2> QED
    BY <1>4, <2>1, <2>2 DEF Expire, Expires
<1>5. CASE Stage
  BY <1>5, StageDoes DEF Does
<1>6. CASE GenerateBlock
  <2>1. PICK block \in Create(unconfirmed) : ProcessBlock(block, block)
    BY <1>6 DEF GenerateBlock
  <2>2. block \in Blocks /\ ToSet(block) = Queue
    BY <2>1, GeneratedOK DEF Queue
  <2>3. Accepts(Queue) \/ Refuses(Queue)
    BY <2>1, <2>2, ProcessDoes
  <2>4. Idle /\ events' = events
    BY <1>6, IdleIs DEF GenerateBlock
  <2> QED
    BY <2>3, <2>4 DEF Generates, Does
<1>7. CASE DeleteLastBlock
  <2>1. PICK gone : gone = ToSet(Last(chain))
    OBVIOUS
  <2>2. /\ gone \in SUBSET Tx /\ IsFiniteSet(gone)
        /\ \A a \in Account :
             /\ balance'[a] = (balance[a] + Spent(a, gone)) - Received(a, gone)
             /\ u_balance'[a] = (u_balance[a] + Spent(a, gone)) - Received(a, gone)
    BY <1>7, <2>1, Deleted
  <2>3. Confirmed = Confirmed' \cup gone /\ Confirmed' \cap gone = {}
    BY <1>7, <2>1, DeletedConfirms DEF DeleteLastBlock
  <2>4. OnlyHappened({"overspend"})' = FALSE
    BY <1>7, HappenedOther DEF Shape, DeleteLastBlock, Event, OnlyHappened
  <2>5. Rests
    BY <1>0, <1>7, IdleOK, NoneOK DEF DeleteLastBlock, Rests, Ahead
  <2>6. Deletes(gone)
    BY <1>7, <2>2, <2>3, <2>4, <2>5 DEF DeleteLastBlock, Deletes
  <2> QED
    BY <2>6 DEF Does
<1>8. CASE SyncStart
  <2>1. 1 \in 0..Retries
    BY LedgerAssumption
  <2>2. task'.stage = "undo"
    BY <1>0, <1>8, <2>1, SyncOK DEF SyncStart
  <2>3. OnlyHappened({"delete", "overspend"})' = FALSE
    BY <1>8, HappenedOther DEF Shape, SyncStart, Event, OnlyHappened
  <2> QED
    BY <1>8, <2>2, <2>3, IdleIs DEF SyncStart, Syncs, Does
<1>9. CASE SyncFail
  <2>1. task'.stage \in {"undo", "idle"}
    <3>1. CASE task.attempt < Retries
      <4>1. task.attempt + 1 \in 0..Retries
        BY <1>0, <3>1, LedgerAssumption
      <4> QED
        BY <1>0, <1>9, <3>1, <4>1, SyncOK DEF SyncFail
    <3>2. CASE ~(task.attempt < Retries)
      BY <1>9, <3>2, NoTaskOK DEF SyncFail
    <3> QED
      BY <3>1, <3>2
  <2> QED
    BY <1>9, <2>1 DEF SyncFail, Syncs, Does
<1>10. CASE SyncEnd
  <2>1. /\ OneOfEach(Reverse(unconfirmed)) /\ ToSet(Reverse(unconfirmed)) = Queue
    BY <1>0, Reversed DEF Queue
  <2>2. PICK n : n = NoTask
    OBVIOUS
  <2>3. TaskOK(n) /\ task' = [n EXCEPT !.stage = "apply", !.list = Reverse(unconfirmed)]
    BY <1>10, <2>2, NoTaskOK DEF SyncEnd
  <2>4. task'.stage = "apply" /\ task'.list = Reverse(unconfirmed)
    BY <2>3 DEF TaskOK, IsTask
  <2>5. Ahead' = Queue
    BY <2>1, <2>4 DEF Ahead
  <2> QED
    BY <1>10, <2>4, <2>5 DEF SyncEnd, Syncs, Does
<1>11. CASE UNCHANGED vars
  BY <1>11 DEF Does
<1> QED
  BY <1>1, <1>2, <1>3, <1>4, <1>5, <1>6, <1>7, <1>8, <1>9, <1>10, <1>11 DEF Next, Does
-----------------------------------------------------------------------------
(* The confirmed balances and the queue                                     *)

\* The chain says what is confirmed.
LEMMA SameChain ==
  ASSUME chain' = chain
  PROVE  Confirmed' = Confirmed
  BY DEF Confirmed, Saved

\* Nothing moves, nothing is counted.
LEMMA RecountedSame ==
  ASSUME Recounted, balance' = balance, task.stage # "exited",
         Counted' = Counted \/ task'.stage = "exited"
  PROVE  Recounted'
  BY DEF Recounted

\* The confirmed balances stay those of what is counted.
LEMMA RecountedKept == Shape /\ Recounted /\ Does => Recounted'
<1> SUFFICES ASSUME Shape, Recounted, Does PROVE Recounted'
  OBVIOUS
<1>0. /\ Confirmed \in SUBSET Tx /\ IsFiniteSet(Confirmed)
      /\ Counted \in SUBSET Tx /\ IsFiniteSet(Counted)
      /\ balance \in [Account -> Int]
      /\ \A a \in Account : Balance0[a] \in Int
  BY SetsOK, LedgerAssumption DEF Shape, Typed
<1>1. ASSUME balance' = balance, chain' = chain,
             task.stage \notin {"confirmed", "exited"}, task'.stage # "confirmed"
      PROVE  Recounted'
  BY <1>1, SameChain, RecountedSame DEF Counted
<1>2. ASSUME NEW t \in Tx,
             Applies(t) \/ Fails(t) \/ Skips(t) \/ Undoes(t) \/ AppliesOfBlock(t)
      PROVE  Recounted'
  <2>1. /\ balance' = balance /\ chain' = chain /\ task'.stage = task.stage
        /\ task.stage \notin {"confirmed", "exited"}
    BY <1>2 DEF Applies, Fails, Skips, Undoes, AppliesOfBlock, Loop
  <2> QED
    BY <1>1, <2>1
<1>3. ASSUME NEW t \in Tx, Confirms(t) PROVE Recounted'
  <2>1. PICK S : S = Counted
    OBVIOUS
  <2>2. Counted' = S \cup {t} /\ t \in Tx \ S
    <3>1. /\ task.stage = "confirmed" /\ task'.stage = "confirmed" /\ Confirmed' = Confirmed
          /\ t \in Ahead /\ Ahead' = Ahead \ {t} /\ Payload' = Payload /\ t \in Payload
          /\ t \notin Confirmed
      BY <1>3, SameChain DEF Confirms, Loop
    <3> QED
      BY <2>1, <3>1 DEF Counted, Behind
  <2>3. S \in SUBSET Tx /\ IsFiniteSet(S)
    BY <1>0, <2>1
  <2>4. \A a : Spent(a, S) \in Nat /\ Received(a, S) \in Nat
    BY <2>3, Sums
  <2>5. \A a : /\ Spent(a, S \cup {t}) = Spent(a, S) + Cost(a, t)
               /\ Received(a, S \cup {t}) = Received(a, S) + Gain(a, t)
    BY <2>2, <2>3, SumsMore
  <2>6. ASSUME NEW a \in Account
        PROVE  balance'[a] = Balance0[a] + Received(a, S \cup {t}) - Spent(a, S \cup {t})
    <3>1. /\ Cost(a, t) \in Nat /\ Gain(a, t) \in Nat
          /\ Spent(a, S) \in Nat /\ Received(a, S) \in Nat
          /\ balance[a] \in Int /\ Balance0[a] \in Int
      BY <1>0, <2>4, Moves
    <3>2. balance'[a] = (balance[a] - Cost(a, t)) + Gain(a, t)
      BY <1>3 DEF Confirms
    <3>3. balance[a] = Balance0[a] + Received(a, S) - Spent(a, S)
      BY <1>3, <2>1 DEF Recounted, Confirms
    <3>4. /\ Spent(a, S \cup {t}) = Spent(a, S) + Cost(a, t)
          /\ Received(a, S \cup {t}) = Received(a, S) + Gain(a, t)
      BY <2>5
    <3> QED
      BY <3>1, <3>2, <3>3, <3>4
  <2> QED
    BY <2>2, <2>6 DEF Recounted
<1>4. ASSUME task' = task, balance' = balance, chain' = chain PROVE Recounted'
  <2>1. Counted' = Counted
    BY <1>4, SameChain DEF Counted, Behind, Payload, Ahead
  <2>2. CASE task.stage = "exited"
    BY <1>4, <2>2 DEF Recounted
  <2>3. CASE task.stage # "exited"
    BY <1>4, <2>1, <2>3, RecountedSame
  <2> QED
    BY <2>2, <2>3
<1>5. ASSUME NEW t \in Tx, Expires(t) PROVE Recounted'
  BY <1>4, <1>5 DEF Expires
<1>6. CASE QueueApplied
  BY <1>1, <1>6 DEF QueueApplied
<1>7. CASE QueueUndone
  BY <1>1, <1>7 DEF QueueUndone
<1>8. ASSUME HalfDone PROVE Recounted'
  <2>1. Counted' = Confirmed /\ Counted = Confirmed
    BY <1>8, SameChain DEF HalfDone, Counted, Behind
  <2> QED
    BY <1>8, <2>1, RecountedSame DEF HalfDone
<1>9. CASE Exits
  BY <1>9, RecountedSame DEF Exits
<1>10. CASE Saves
  <2>1. Counted' = Confirmed \cup Payload
    BY <1>10 DEF Saves, Counted
  <2>2. Counted = Confirmed \cup Payload
    BY <1>10 DEF Saves, Counted, Behind
  <2> QED
    BY <1>10, <2>1, <2>2, RecountedSame DEF Saves
<1>11. CASE Fills
  BY <1>1, <1>11 DEF Fills, Idle
<1>12. ASSUME NEW payload, Accepts(payload) \/ Refuses(payload) PROVE Recounted'
  <2>1. CASE Accepts(payload)
    BY <1>1, <2>1 DEF Accepts, Rests
  <2>2. CASE Refuses(payload)
    BY <1>4, <2>2 DEF Refuses
  <2> QED
    BY <1>12, <2>1, <2>2
<1>13. CASE Syncs
  BY <1>1, <1>13 DEF Syncs, Idle
<1>14. ASSUME NEW gone, Deletes(gone) PROVE Recounted'
  <2>1. PICK S : S = Confirmed'
    OBVIOUS
  <2>2. /\ gone \in SUBSET Tx /\ IsFiniteSet(gone)
        /\ Confirmed = S \cup gone /\ S \cap gone = {}
    BY <1>14, <2>1 DEF Deletes
  <2>3. S \in SUBSET Tx /\ IsFiniteSet(S)
    BY <1>0, <2>2, FS_Subset
  <2>4. task.stage \in {"idle", "syncing"} /\ task' = task
    BY <1>14 DEF Deletes, Rests
  <2>5. Counted' = S /\ Counted = S \cup gone
    BY <2>1, <2>2, <2>4 DEF Counted
  <2>6. ASSUME NEW a \in Account
        PROVE  balance'[a] = Balance0[a] + Received(a, S) - Spent(a, S)
    <3>1. /\ Spent(a, S \cup gone) = Spent(a, S) + Spent(a, gone)
          /\ Received(a, S \cup gone) = Received(a, S) + Received(a, gone)
      BY <2>2, <2>3, SumsUnion
    <3>2. /\ Spent(a, S) \in Nat /\ Received(a, S) \in Nat
          /\ Spent(a, gone) \in Nat /\ Received(a, gone) \in Nat
          /\ balance[a] \in Int /\ Balance0[a] \in Int
      BY <1>0, <2>2, <2>3, Sums
    <3>3. balance[a] = Balance0[a] + Received(a, S \cup gone) - Spent(a, S \cup gone)
      BY <2>4, <2>5 DEF Recounted
    <3>4. balance'[a] = (balance[a] + Spent(a, gone)) - Received(a, gone)
      BY <1>14 DEF Deletes
    <3> QED
      BY <3>1, <3>2, <3>3, <3>4
  <2> QED
    BY <2>5, <2>6 DEF Recounted
<1>15. CASE UNCHANGED vars
  BY <1>4, <1>15 DEF vars
<1> QED
  BY <1>2, <1>3, <1>5, <1>6, <1>7, <1>8, <1>9, <1>10, <1>11, <1>12, <1>13, <1>14, <1>15
     DEF Does, Rewinds, Ends, Receives, Generates

\* Nothing that is confirmed comes to wait in the queue.
LEMMA QueueNewKept == Shape /\ QueueNew /\ Does => QueueNew'
<1> SUFFICES ASSUME Shape, QueueNew, Does PROVE QueueNew'
  OBVIOUS
<1>1. ASSUME chain' = chain, Queue' \subseteq Queue,
             task.stage # "apply", task'.stage # "confirmed"
      PROVE  QueueNew'
  BY <1>1, SameChain DEF QueueNew
<1>2. ASSUME NEW t \in Tx, Applies(t) \/ Fails(t) PROVE QueueNew'
  <2>1. /\ Confirmed' = Confirmed /\ Queue' \subseteq Queue /\ Ahead' = Ahead \ {t}
        /\ task'.stage = task.stage /\ task.stage \in {"apply", "applyIds"}
    BY <1>2, SameChain DEF Applies, Fails, Loop, Queue
  <2>2. t \notin Queue' \cap Confirmed
    BY <1>2 DEF Applies, Fails, Affordable, Verified
  <2> QED
    BY <2>1, <2>2 DEF QueueNew
<1>3. ASSUME NEW t \in Tx, Skips(t) \/ Undoes(t) \/ AppliesOfBlock(t) PROVE QueueNew'
  BY <1>1, <1>3 DEF Skips, Undoes, AppliesOfBlock, Loop, Queue
<1>4. ASSUME NEW t \in Tx, Confirms(t) PROVE QueueNew'
  <2>1. /\ task.stage = "confirmed" /\ task'.stage = "confirmed" /\ Confirmed' = Confirmed
        /\ t \in Ahead /\ Ahead' = Ahead \ {t} /\ Payload' = Payload /\ t \in Payload
        /\ Queue' = Queue \ {t}
    BY <1>4, SameChain DEF Confirms, Loop
  <2> QED
    BY <2>1 DEF QueueNew, Behind
<1>5. ASSUME task' = task, chain' = chain, Queue' \subseteq Queue PROVE QueueNew'
  <2>1. Confirmed' = Confirmed /\ Ahead' = Ahead /\ Behind' = Behind
    BY <1>5, SameChain DEF Ahead, Behind, Payload
  <2> QED
    BY <1>5, <2>1 DEF QueueNew
<1>6. ASSUME NEW t \in Tx, Expires(t) PROVE QueueNew'
  BY <1>5, <1>6 DEF Expires
<1>7. CASE QueueApplied
  <2>1. /\ Confirmed' = Confirmed /\ Queue' = Queue /\ Ahead = {} /\ Ahead' = {}
        /\ task'.stage # "confirmed"
    BY <1>7, SameChain DEF QueueApplied, Queue
  <2> QED
    BY <2>1 DEF QueueNew
<1>8. CASE QueueUndone
  BY <1>1, <1>8 DEF QueueUndone, Queue
<1>9. ASSUME HalfDone PROVE QueueNew'
  <2>1. /\ Confirmed' = Confirmed /\ Queue' = Queue /\ Behind' = {}
        /\ task.stage # "apply"
    BY <1>9, SameChain DEF HalfDone, Queue, Behind
  <2> QED
    BY <2>1 DEF QueueNew
<1>10. CASE Exits
  BY <1>1, <1>10 DEF Exits, Queue
<1>11. CASE Saves
  <2>1. /\ Confirmed' = Confirmed \cup Payload /\ Queue' = Queue /\ Behind = Payload
        /\ task'.stage = "applyIds" /\ task.stage = "confirmed"
    BY <1>11 DEF Saves, Queue, Behind
  <2> QED
    BY <2>1 DEF QueueNew
<1>12. CASE Fills
  <2>1. /\ Confirmed' = Confirmed /\ Queue' = Queue \cup Ahead' /\ task.stage = "idle"
        /\ task'.stage = "apply"
    BY <1>12, SameChain DEF Fills, Idle
  <2> QED
    BY <2>1 DEF QueueNew
<1>13. ASSUME NEW payload, Accepts(payload) \/ Refuses(payload) PROVE QueueNew'
  <2>1. CASE Accepts(payload)
    BY <1>1, <2>1 DEF Accepts, Rests, Queue
  <2>2. CASE Refuses(payload)
    BY <1>5, <2>2 DEF Refuses
  <2> QED
    BY <1>13, <2>1, <2>2
<1>14. CASE Syncs
  <2>1. /\ task.stage # "apply" /\ task'.stage # "confirmed"
        /\ chain' = chain /\ Queue' = Queue
    BY <1>14 DEF Syncs, Idle, Queue
  <2> QED
    BY <1>1, <2>1
<1>15. ASSUME NEW gone, Deletes(gone) PROVE QueueNew'
  <2>1. /\ task.stage \in {"idle", "syncing"} /\ task' = task /\ Queue' = Queue
        /\ Confirmed' \subseteq Confirmed
    BY <1>15 DEF Deletes, Rests, Queue
  <2> QED
    BY <2>1 DEF QueueNew
<1>16. CASE UNCHANGED vars
  BY <1>5, <1>16 DEF vars, Queue
<1> QED
  BY <1>2, <1>3, <1>4, <1>6, <1>7, <1>8, <1>9, <1>10, <1>11, <1>12, <1>13, <1>14, <1>15,
     <1>16
     DEF Does, Rewinds, Ends, Receives, Generates
-----------------------------------------------------------------------------
(* The unconfirmed balances                                                 *)

(* QueueReserved, at every step of every loop: what u_balance is less by.  *)
Promised ==
  CASE task.stage \in {"apply", "applyIds"} -> Queue \ Ahead
    [] task.stage \in {"undo", "confirmed"} -> Ahead
    [] task.stage = "unconfirmed" -> Behind
    [] OTHER -> Queue

Held ==
  task.stage # "exited" =>
    \A a \in Account : u_balance[a] = (balance[a] - Spent(a, Promised)) + rewound[a]

\* The lists of the task have all of the queue.
Covered ==
  /\ task.stage = "apply" => Ahead \subseteq Queue
  /\ task.stage \in {"undo", "confirmed"} => Queue \subseteq Kept \cup Ahead
  /\ task.stage = "unconfirmed" => Queue \subseteq Kept \cup Behind

NoSync == task.attempt = 0 /\ task.stage # "syncing" /\ task.next # "syncing"

Exact == OnlyHappened({"delete", "overspend"}) => NoSync /\ Covered /\ Held

\* What is promised, loop by loop, before a step
LEMMA PromisedIs ==
  /\ task.stage \in {"apply", "applyIds"} => Promised = Queue \ Ahead
  /\ task.stage \in {"undo", "confirmed"} => Promised = Ahead
  /\ task.stage = "unconfirmed" => Promised = Behind
  /\ task.stage \in {"idle", "syncing"} => Promised = Queue
  BY DEF Promised

\* and after it.
LEMMA PromisedWill ==
  /\ task'.stage \in {"apply", "applyIds"} => Promised' = Queue' \ Ahead'
  /\ task'.stage \in {"undo", "confirmed"} => Promised' = Ahead'
  /\ task'.stage = "unconfirmed" => Promised' = Behind'
  /\ task'.stage \in {"idle", "syncing"} => Promised' = Queue'
  BY DEF Promised

\* It is a finite set, with a sum.
LEMMA PromisedOK ==
  ASSUME Shape
  PROVE  /\ Promised \in SUBSET Tx /\ IsFiniteSet(Promised)
         /\ \A a : Spent(a, Promised) \in Nat
<1>1. /\ Queue \in SUBSET Tx /\ IsFiniteSet(Queue)
      /\ Ahead \in SUBSET Tx /\ IsFiniteSet(Ahead)
      /\ Behind \in SUBSET Tx /\ IsFiniteSet(Behind)
  BY SetsOK
<1>2. Queue \ Ahead \in SUBSET Queue
  OBVIOUS
<1>3. Queue \ Ahead \in SUBSET Tx /\ IsFiniteSet(Queue \ Ahead)
  BY <1>1, <1>2, FS_Subset
<1>4. Promised \in {Queue, Ahead, Behind, Queue \ Ahead}
  BY DEF Promised
<1>5. Promised \in SUBSET Tx /\ IsFiniteSet(Promised)
  BY <1>1, <1>3, <1>4
<1> QED
  BY <1>5, Sums

\* The numbers that Held relates.
LEMMA Numbers ==
  ASSUME Shape, NEW a \in Account
  PROVE  /\ balance[a] \in Int /\ u_balance[a] \in Int /\ rewound[a] \in Nat
         /\ Spent(a, Promised) \in Nat
  BY PromisedOK DEF Shape, Typed

\* No balance moves and the same is promised.
LEMMA HeldSame ==
  ASSUME Held, task.stage # "exited", balance' = balance, u_balance' = u_balance,
         rewound' = rewound, Promised' = Promised
  PROVE  Held'
  BY DEF Held

\* One more is promised, and taken from u_balance.
LEMMA HeldMore ==
  ASSUME Shape, Held, task.stage # "exited", balance' = balance, rewound' = rewound,
         NEW t \in Tx, t \notin Promised, Promised' = Promised \cup {t},
         \A a \in Account : u_balance'[a] = u_balance[a] - Cost(a, t)
  PROVE  Held'
<1>1. PICK P : P = Promised
  OBVIOUS
<1>2. P \in SUBSET Tx /\ IsFiniteSet(P) /\ t \in Tx \ P
  BY <1>1, PromisedOK
<1>3. ASSUME NEW a \in Account
      PROVE  u_balance'[a] = (balance'[a] - Spent(a, P \cup {t})) + rewound'[a]
  <2>1. Spent(a, P \cup {t}) = Spent(a, P) + Cost(a, t)
    BY <1>2, SumsMore
  <2>2. /\ balance[a] \in Int /\ u_balance[a] \in Int /\ rewound[a] \in Nat
        /\ Spent(a, P) \in Nat /\ Cost(a, t) \in Nat
    BY <1>1, Numbers, Moves
  <2>3. u_balance[a] = (balance[a] - Spent(a, P)) + rewound[a]
    BY <1>1 DEF Held
  <2>4. u_balance'[a] = u_balance[a] - Cost(a, t)
    OBVIOUS
  <2> QED
    BY <2>1, <2>2, <2>3, <2>4
<1> QED
  BY <1>1, <1>3 DEF Held

\* One less is promised, and given back.
LEMMA HeldLess ==
  ASSUME Shape, Held, task.stage # "exited", balance' = balance, rewound' = rewound,
         NEW t \in Promised, Promised' = Promised \ {t},
         \A a \in Account : u_balance'[a] = u_balance[a] + Cost(a, t)
  PROVE  Held'
<1>1. PICK P : P = Promised
  OBVIOUS
<1>2. P \in SUBSET Tx /\ IsFiniteSet(P) /\ t \in P /\ t \in Tx
  BY <1>1, PromisedOK
<1>3. PICK R : R = P \ {t}
  OBVIOUS
<1>4. R \in SUBSET Tx /\ IsFiniteSet(R)
  BY <1>2, <1>3, FS_Subset
<1>5. ASSUME NEW a \in Account
      PROVE  u_balance'[a] = (balance'[a] - Spent(a, R)) + rewound'[a]
  <2>1. Spent(a, P) = Spent(a, R) + Cost(a, t)
    BY <1>2, <1>3, Sums
  <2>2. /\ balance[a] \in Int /\ u_balance[a] \in Int /\ rewound[a] \in Nat
        /\ Spent(a, R) \in Nat /\ Cost(a, t) \in Nat
    BY <1>2, <1>4, Numbers, Moves, Sums
  <2>3. u_balance[a] = (balance[a] - Spent(a, P)) + rewound[a]
    BY <1>1 DEF Held
  <2>4. u_balance'[a] = u_balance[a] + Cost(a, t)
    OBVIOUS
  <2> QED
    BY <2>1, <2>2, <2>3, <2>4
<1> QED
  BY <1>1, <1>3, <1>5 DEF Held

\* A promise is kept: balance pays what u_balance has paid.
LEMMA HeldConfirms ==
  ASSUME Shape, Held, NEW t \in Tx, Confirms(t)
  PROVE  Held'
<1>1. PICK P : P = Ahead
  OBVIOUS
<1>2. P \in SUBSET Tx /\ IsFiniteSet(P) /\ t \in P
  BY <1>1, SetsOK DEF Confirms, Loop
<1>3. PICK R : R = P \ {t}
  OBVIOUS
<1>4. R \in SUBSET Tx /\ IsFiniteSet(R)
  BY <1>2, <1>3, FS_Subset
<1>5. Promised = P /\ Promised' = R /\ task.stage # "exited"
  BY <1>1, <1>3, PromisedIs, PromisedWill DEF Confirms, Loop
<1>6. ASSUME NEW a \in Account
      PROVE  u_balance'[a] = (balance'[a] - Spent(a, R)) + rewound'[a]
  <2>1. Spent(a, P) = Spent(a, R) + Cost(a, t)
    BY <1>2, <1>3, Sums
  <2>2. /\ balance[a] \in Int /\ u_balance[a] \in Int /\ rewound[a] \in Nat
        /\ Spent(a, R) \in Nat /\ Cost(a, t) \in Nat /\ Gain(a, t) \in Nat
    BY <1>2, <1>4, Numbers, Moves, Sums
  <2>3. u_balance[a] = (balance[a] - Spent(a, P)) + rewound[a]
    BY <1>5 DEF Held
  <2>4. /\ u_balance'[a] = u_balance[a] + Gain(a, t)
        /\ balance'[a] = (balance[a] - Cost(a, t)) + Gain(a, t)
        /\ rewound' = rewound
    BY DEF Confirms
  <2> QED
    BY <2>1, <2>2, <2>3, <2>4
<1> QED
  BY <1>5, <1>6 DEF Held

\* The rewind gives back what was applied, and the whole block is promised.
LEMMA HeldRewinds ==
  ASSUME Shape, Held, Rewinds
  PROVE  Held'
<1>1. PICK P : P = Behind
  OBVIOUS
<1>2. PICK R : R = Payload
  OBVIOUS
<1>3. /\ P \in SUBSET Tx /\ IsFiniteSet(P) /\ R \in SUBSET Tx /\ IsFiniteSet(R)
      /\ task.stage # "exited"
  BY <1>1, <1>2, SetsOK DEF Rewinds, HalfDone
<1>4. Promised = P /\ Promised' = R
  BY <1>1, <1>2, PromisedIs, PromisedWill DEF Rewinds, HalfDone
<1>5. ASSUME NEW a \in Account
      PROVE  u_balance'[a] = (balance'[a] - Spent(a, R)) + rewound'[a]
  <2>1. /\ balance[a] \in Int /\ u_balance[a] \in Int /\ rewound[a] \in Nat
        /\ Spent(a, R) \in Nat /\ Spent(a, P) \in Nat
    BY <1>3, Numbers, Sums
  <2>2. u_balance[a] = (balance[a] - Spent(a, P)) + rewound[a]
    BY <1>3, <1>4 DEF Held
  <2>3. /\ u_balance'[a] = u_balance[a] + Spent(a, P)
        /\ rewound'[a] = rewound[a] + Spent(a, R)
        /\ balance' = balance
    BY <1>1, <1>2 DEF Rewinds, HalfDone
  <2> QED
    BY <2>1, <2>2, <2>3
<1> QED
  BY <1>4, <1>5 DEF Held

\* A deleted block moves both balances alike.
LEMMA HeldDeletes ==
  ASSUME Shape, Held, NEW gone, Deletes(gone)
  PROVE  Held'
<1>1. Promised' = Promised /\ task.stage # "exited" /\ rewound' = rewound
  BY PromisedIs, PromisedWill DEF Deletes, Rests, Queue
<1>2. ASSUME NEW a \in Account
      PROVE  u_balance'[a] = (balance'[a] - Spent(a, Promised)) + rewound[a]
  <2>1. /\ balance[a] \in Int /\ u_balance[a] \in Int /\ rewound[a] \in Nat
        /\ Spent(a, gone) \in Nat /\ Received(a, gone) \in Nat
        /\ Spent(a, Promised) \in Nat
    BY Numbers, Sums DEF Deletes
  <2>2. u_balance[a] = (balance[a] - Spent(a, Promised)) + rewound[a]
    BY <1>1 DEF Held
  <2>3. /\ balance'[a] = (balance[a] + Spent(a, gone)) - Received(a, gone)
        /\ u_balance'[a] = (u_balance[a] + Spent(a, gone)) - Received(a, gone)
    BY DEF Deletes
  <2> QED
    BY <2>1, <2>2, <2>3
<1> QED
  BY <1>1, <1>2 DEF Held

\* The loops over the queue keep Exact.
LEMMA QueueStepExact ==
  ASSUME Shape, NoSync, Covered, Held, NEW t \in Tx, Applies(t) \/ Fails(t) \/ Skips(t)
  PROVE  NoSync' /\ Covered' /\ Held'
<1>0. /\ task.stage \in {"apply", "applyIds"} /\ task'.stage = task.stage
      /\ t \in Ahead /\ Ahead' = Ahead \ {t} /\ balance' = balance /\ rewound' = rewound
      /\ Queue' = Queue \/ Queue' = Queue \ {t}
      /\ NoSync'
  BY DEF Applies, Fails, Skips, Loop, Queue, NoSync
<1>1. Covered'
  BY <1>0 DEF Covered
<1>2. Promised = Queue \ Ahead /\ Promised' = Queue' \ Ahead'
  BY <1>0, PromisedIs, PromisedWill
<1>3. CASE Applies(t)
  <2>1. t \in Queue /\ Queue' = Queue
    BY <1>0, <1>3 DEF Applies, Covered, Queue
  <2>2. Promised' = Promised \cup {t} /\ t \notin Promised
    BY <1>0, <1>2, <2>1
  <2>3. Held'
    BY <1>0, <1>3, <2>2, HeldMore DEF Applies
  <2> QED
    BY <1>0, <1>1, <2>3
<1>4. CASE Fails(t)
  <2>1. Promised' = Promised
    BY <1>0, <1>2, <1>4 DEF Fails
  <2> QED
    BY <1>0, <1>1, <1>4, <2>1, HeldSame DEF Fails
<1>5. CASE Skips(t)
  <2>1. Promised' = Promised
    BY <1>0, <1>2, <1>5 DEF Skips, Queue
  <2> QED
    BY <1>0, <1>1, <1>5, <2>1, HeldSame DEF Skips
<1> QED
  BY <1>3, <1>4, <1>5

\* So do the loops that a block goes through,
LEMMA BlockStepExact ==
  ASSUME Shape, NoSync, Covered, Held, NEW t \in Tx,
         Undoes(t) \/ AppliesOfBlock(t) \/ Confirms(t)
  PROVE  NoSync' /\ Covered' /\ Held'
<1>0. /\ task'.stage = task.stage /\ t \in Ahead /\ Ahead' = Ahead \ {t} /\ NoSync'
      /\ Payload' = Payload
  BY DEF Undoes, AppliesOfBlock, Confirms, Loop, NoSync
<1>1. CASE Undoes(t)
  <2>1. task.stage = "undo" /\ Queue' = Queue /\ Kept' = Kept \cup {t}
    BY <1>1 DEF Undoes, Queue
  <2>2. Covered'
    BY <1>0, <2>1 DEF Covered
  <2>3. Promised' = Promised \ {t} /\ t \in Promised
    BY <1>0, <2>1, PromisedIs, PromisedWill
  <2>4. Held'
    BY <1>1, <2>1, <2>3, HeldLess DEF Undoes
  <2> QED
    BY <1>0, <2>2, <2>4
<1>2. CASE AppliesOfBlock(t)
  <2>1. /\ task.stage = "unconfirmed" /\ Queue' = Queue /\ Kept' = Kept \ {t}
        /\ t \in Payload
    BY <1>2 DEF AppliesOfBlock, Queue
  <2>2. Behind' = Behind \cup {t} /\ t \notin Behind
    BY <1>0, <2>1 DEF Behind
  <2>3. Covered'
    BY <1>0, <2>1, <2>2 DEF Covered
  <2>4. Promised' = Promised \cup {t} /\ t \notin Promised
    BY <1>0, <2>1, <2>2, PromisedIs, PromisedWill
  <2>5. Held'
    BY <1>2, <2>1, <2>4, HeldMore DEF AppliesOfBlock
  <2> QED
    BY <1>0, <2>3, <2>5
<1>3. CASE Confirms(t)
  <2>1. task.stage = "confirmed" /\ Queue' = Queue \ {t} /\ Kept' = Kept
    BY <1>3 DEF Confirms
  <2>2. Covered'
    BY <1>0, <2>1 DEF Covered
  <2>3. Held'
    BY <1>3, HeldConfirms
  <2> QED
    BY <1>0, <2>2, <2>3
<1> QED
  BY <1>1, <1>2, <1>3

\* the ends of the loops,
LEMMA StageExact ==
  ASSUME Shape, NoSync, Covered, Held,
         QueueApplied \/ QueueUndone \/ Rewinds \/ Ends \/ Exits \/ Saves
  PROVE  NoSync' /\ Covered' /\ Held'
<1>1. CASE QueueApplied
  <2>1. /\ task'.stage = "idle" /\ task.stage \in {"apply", "applyIds"} /\ Ahead = {}
        /\ Queue' = Queue
    BY <1>1 DEF QueueApplied, NoSync, Queue
  <2>2. Promised' = Promised
    BY <2>1, PromisedIs, PromisedWill
  <2>3. Held'
    BY <1>1, <2>1, <2>2, HeldSame DEF QueueApplied
  <2> QED
    BY <1>1, <2>1, <2>3 DEF QueueApplied, NoSync, Covered
<1>2. CASE QueueUndone
  <2>1. /\ task'.stage = "unconfirmed" /\ task.stage = "undo" /\ Ahead = {}
        /\ Queue' = Queue /\ Behind' = {} /\ Kept' = Kept
    BY <1>2 DEF QueueUndone, NoSync, Queue, Behind
  <2>2. Promised' = Promised
    BY <2>1, PromisedIs, PromisedWill
  <2>3. Held'
    BY <1>2, <2>1, <2>2, HeldSame DEF QueueUndone
  <2> QED
    BY <1>2, <2>1, <2>3 DEF QueueUndone, NoSync, Covered
<1>3. ASSUME HalfDone, Behind \subseteq Payload PROVE NoSync' /\ Covered'
  <2>1. /\ task'.stage = "confirmed" /\ task.stage = "unconfirmed" /\ Queue' = Queue
        /\ Kept' = Kept /\ Ahead' = Payload
    BY <1>3 DEF HalfDone, Queue
  <2> QED
    BY <1>3, <2>1 DEF HalfDone, NoSync, Covered
<1>4. CASE Rewinds
  BY <1>3, <1>4, HeldRewinds DEF Rewinds
<1>5. CASE Ends
  <2>1. Behind = Payload
    BY <1>5 DEF Ends, Behind
  <2>2. Promised' = Promised
    BY <1>5, <2>1, PromisedIs, PromisedWill DEF Ends, HalfDone
  <2>3. Held'
    BY <1>5, <2>2, HeldSame DEF Ends, HalfDone
  <2> QED
    BY <1>3, <1>5, <2>1, <2>3 DEF Ends
<1>6. CASE Exits
  BY <1>6 DEF Exits, NoSync, Covered, Held
<1>7. CASE Saves
  <2>1. /\ task'.stage = "applyIds" /\ task.stage = "confirmed" /\ Ahead = {}
        /\ Ahead' = Kept /\ Queue' = Queue
    BY <1>7 DEF Saves, Queue
  <2>2. Promised = {} /\ Promised' = {}
    BY <2>1, PromisedIs, PromisedWill DEF Covered
  <2>3. Held'
    BY <1>7, <2>1, <2>2, HeldSame DEF Saves
  <2> QED
    BY <1>7, <2>1, <2>3 DEF Saves, NoSync, Covered
<1> QED
  BY <1>1, <1>2, <1>4, <1>5, <1>6, <1>7

\* a block that is accepted,
LEMMA AcceptExact ==
  ASSUME Shape, NoSync, Held, NEW payload, Accepts(payload)
  PROVE  NoSync' /\ Covered' /\ Held'
<1>1. /\ task.stage = "idle" /\ task'.stage = "undo" /\ Ahead' = Queue /\ Queue' = Queue
      /\ NoSync'
  BY DEF Accepts, Rests, NoSync, Queue
<1>2. Promised' = Promised
  BY <1>1, PromisedIs, PromisedWill
<1>3. Held'
  BY <1>1, <1>2, HeldSame DEF Accepts
<1> QED
  BY <1>1, <1>3 DEF Covered

\* and every other step; expiry, sync and replay are excluded by its events.
LEMMA ExactKept == Shape /\ QueueNew /\ Exact /\ [Next]_vars => Exact'
<1> SUFFICES ASSUME Shape, QueueNew, Exact, [Next]_vars,
                    OnlyHappened({"delete", "overspend"})'
             PROVE  NoSync' /\ Covered' /\ Held'
  BY DEF Exact
<1>1. NoSync /\ Covered /\ Held
  BY OnlyBefore DEF Shape, Exact
<1>2. Does
  BY NextDoes
<1>3. CASE Fills
  <2>1. /\ task.stage = "idle" /\ task'.stage = "apply" /\ Ahead' \cap Queue = {}
        /\ Queue' = Queue \cup Ahead' /\ NoSync'
    BY <1>1, <1>3 DEF Fills, Idle, NoSync
  <2>2. Promised' = Promised
    BY <2>1, PromisedIs, PromisedWill
  <2>3. Held'
    BY <1>1, <1>3, <2>1, <2>2, HeldSame DEF Fills
  <2> QED
    BY <2>1, <2>3 DEF Covered
<1>4. ASSUME NEW payload, Accepts(payload) PROVE NoSync' /\ Covered' /\ Held'
  BY <1>1, <1>4, AcceptExact
<1>5. ASSUME NEW payload, Receives(payload) PROVE Accepts(payload)
  BY <1>5 DEF Receives, Refuses
<1>6. ASSUME Generates PROVE Accepts(Queue)
  BY <1>6 DEF Generates, Refuses, Idle, QueueNew
<1>7. ~Syncs
  BY <1>1 DEF Syncs, NoSync
<1>8. ASSUME NEW t \in Tx, Expires(t) PROVE FALSE
  BY <1>8 DEF Expires
<1>9. ASSUME NEW gone, Deletes(gone) PROVE NoSync' /\ Covered' /\ Held'
  BY <1>1, <1>9, HeldDeletes DEF Deletes, Rests, NoSync, Covered
<1>10. CASE UNCHANGED vars
  <2>1. task' = task /\ Queue' = Queue /\ Ahead' = Ahead /\ Behind' = Behind /\ Kept' = Kept
    BY <1>10 DEF vars, Queue, Ahead, Behind, Payload, Kept
  <2>2. Promised' = Promised
    BY <2>1 DEF Promised
  <2> QED
    BY <1>1, <1>10, <2>1, <2>2 DEF vars, NoSync, Covered, Held
<1> QED
  BY <1>1, <1>2, <1>3, <1>4, <1>5, <1>6, <1>7, <1>8, <1>9, <1>10,
     QueueStepExact, BlockStepExact, StageExact DEF Does
-----------------------------------------------------------------------------
(* What can be paid                                                         *)

\* What is promised can be paid for.
Positive == \A a \in Account : u_balance[a] >= 0
Affords ==
  task.stage \in {"idle", "apply", "applyIds"} =>
    \A t \in Promised : Spend(t) <= balance[From[t]]

Solvent == OnlyHappened({"overspend"}) => Positive /\ Affords

\* And so can the block that is accepted, in both of its halves.
Payable ==
  OnlyHappened({}) =>
    /\ \A a \in Account : rewound[a] = 0
    /\ task.stage # "exited"
    /\ task.stage = "undo" => \A a \in Account : Spent(a, Payload) <= balance[a]
    /\ task.stage = "unconfirmed" => \A a \in Account : Spent(a, Ahead) <= u_balance[a]

\* Fewer kinds of events, fewer happened.
LEMMA OnlyFewer ==
  /\ OnlyHappened({}) => OnlyHappened({"overspend"})
  /\ OnlyHappened({"overspend"}) => OnlyHappened({"delete", "overspend"})
  BY DEF OnlyHappened

\* What is promised was verified when it was applied, and balance has not moved since.
LEMMA SolventKept == Shape /\ QueueNew /\ Exact /\ Solvent /\ [Next]_vars => Solvent'
<1> SUFFICES ASSUME Shape, QueueNew, Exact, Solvent, [Next]_vars,
                    OnlyHappened({"overspend"})'
             PROVE  Positive' /\ Affords'
  BY DEF Solvent
<1>1. /\ OnlyHappened({"overspend"}) /\ OnlyHappened({"delete", "overspend"})
      /\ OnlyHappened({"delete", "overspend"})'
  BY OnlyBefore, OnlyFewer DEF Shape, OnlyHappened
<1>2. NoSync /\ Covered /\ Held /\ Positive /\ Affords
  BY <1>1 DEF Exact, Solvent
<1>3. Does
  BY NextDoes
<1>4. \A a \in Account : u_balance[a] \in Int /\ u_balance[a] >= 0
  BY <1>2 DEF Shape, Typed, Positive
<1>5. ASSUME u_balance' = u_balance PROVE Positive'
  BY <1>2, <1>5 DEF Positive
<1>6. ASSUME balance' = balance, task.stage \in {"idle", "apply", "applyIds"},
             Promised' \subseteq Promised
      PROVE  Affords'
  BY <1>2, <1>6 DEF Affords
<1>7. ASSUME task'.stage \notin {"idle", "apply", "applyIds"} PROVE Affords'
  BY <1>7 DEF Affords
<1>8. ASSUME NEW t \in Tx, \A a \in Account : u_balance'[a] = u_balance[a] - Cost(a, t),
             Spend(t) <= u_balance[From[t]]
      PROVE  Positive'
  <2>1. ASSUME NEW a \in Account PROVE u_balance'[a] >= 0
    <3>1. CASE From[t] = a
      <4>1. Cost(a, t) = Spend(t) /\ Spend(t) \in Nat
        BY <3>1, Moves
      <4> QED
        BY <1>4, <1>8, <3>1, <4>1
    <3>2. CASE From[t] # a
      <4>1. Cost(a, t) = 0
        BY <3>2 DEF Cost
      <4> QED
        BY <1>4, <1>8, <4>1
    <3> QED
      BY <3>1, <3>2
  <2> QED
    BY <2>1 DEF Positive
<1>9. ASSUME NEW f, \A a \in Account : f[a] \in Nat /\ u_balance'[a] = u_balance[a] + f[a]
      PROVE  Positive'
  BY <1>4, <1>9 DEF Positive
<1>10. ASSUME NEW t \in Tx, Applies(t) PROVE Positive' /\ Affords'
  <2>1. Positive'
    BY <1>8, <1>10 DEF Applies, Affordable
  <2>2. /\ task.stage \in {"apply", "applyIds"} /\ task'.stage = task.stage
        /\ Ahead' = Ahead \ {t} /\ Queue' = Queue /\ balance' = balance
        /\ Spend(t) <= balance[From[t]]
    BY <1>10 DEF Applies, Loop, Queue, Affordable, Verified
  <2>3. Promised' \subseteq Promised \cup {t}
    BY <2>2, PromisedIs, PromisedWill
  <2> QED
    BY <1>2, <2>1, <2>2, <2>3 DEF Affords
<1>11. ASSUME NEW t \in Tx, Fails(t) \/ Skips(t) PROVE Positive' /\ Affords'
  <2>1. /\ task.stage \in {"apply", "applyIds"} /\ task'.stage = task.stage
        /\ t \in Ahead /\ Ahead' = Ahead \ {t}
        /\ u_balance' = u_balance /\ balance' = balance
        /\ t \notin Queue'
        /\ Queue' \subseteq Queue
    BY <1>11 DEF Fails, Skips, Loop, Queue
  <2>2. Promised' \subseteq Promised
    BY <2>1, PromisedIs, PromisedWill
  <2> QED
    BY <1>5, <1>6, <2>1, <2>2
<1>12. ASSUME NEW t \in Tx, Undoes(t) PROVE Positive' /\ Affords'
  <2>1. \A a \in Account : Cost(a, t) \in Nat
    BY Moves
  <2>2. PICK f : f = [a \in Account |-> Cost(a, t)]
    OBVIOUS
  <2>3. Positive'
    BY <1>9, <1>12, <2>1, <2>2 DEF Undoes
  <2> QED
    BY <1>7, <1>12, <2>3 DEF Undoes, Loop
<1>13. ASSUME NEW t \in Tx, AppliesOfBlock(t) PROVE Positive' /\ Affords'
  BY <1>7, <1>8, <1>13 DEF AppliesOfBlock, Loop
<1>14. ASSUME NEW t \in Tx, Confirms(t) PROVE Positive' /\ Affords'
  <2>1. \A a \in Account : Gain(a, t) \in Nat
    BY Moves
  <2>2. PICK f : f = [a \in Account |-> Gain(a, t)]
    OBVIOUS
  <2>3. Positive'
    BY <1>9, <1>14, <2>1, <2>2 DEF Confirms
  <2> QED
    BY <1>7, <1>14, <2>3 DEF Confirms, Loop
<1>15. CASE QueueApplied
  <2>1. /\ task'.stage = "idle" /\ task.stage \in {"apply", "applyIds"} /\ Ahead = {}
        /\ Queue' = Queue /\ balance' = balance /\ u_balance' = u_balance
    BY <1>2, <1>15 DEF QueueApplied, NoSync, Queue
  <2>2. Promised' \subseteq Promised
    BY <2>1, PromisedIs, PromisedWill
  <2> QED
    BY <1>5, <1>6, <2>1, <2>2
<1>16. CASE QueueUndone
  BY <1>2, <1>5, <1>7, <1>16 DEF QueueUndone, NoSync
<1>17. CASE Rewinds
  <2>1. \A a \in Account : Spent(a, Behind) \in Nat
    BY SetsOK, Sums
  <2>2. PICK f : f = [a \in Account |-> Spent(a, Behind)]
    OBVIOUS
  <2>3. Positive'
    BY <1>9, <1>17, <2>1, <2>2 DEF Rewinds
  <2> QED
    BY <1>7, <1>17, <2>3 DEF Rewinds, HalfDone
<1>18. CASE Ends
  BY <1>5, <1>7, <1>18 DEF Ends, HalfDone
<1>19. CASE Exits
  BY <1>5, <1>7, <1>19 DEF Exits
<1>20. CASE Saves
  <2>1. /\ task'.stage = "applyIds" /\ task.stage = "confirmed" /\ Ahead = {}
        /\ Ahead' = Kept /\ Queue' = Queue /\ u_balance' = u_balance
    BY <1>20 DEF Saves, Queue
  <2>2. Promised' = {}
    BY <1>2, <2>1, PromisedWill DEF Covered
  <2> QED
    BY <1>5, <2>1, <2>2 DEF Affords
<1>21. CASE Fills
  <2>1. /\ task.stage = "idle" /\ task'.stage = "apply"
        /\ Queue' = Queue \cup Ahead' /\ balance' = balance /\ u_balance' = u_balance
    BY <1>21 DEF Fills, Idle
  <2>2. Promised' \subseteq Promised
    BY <2>1, PromisedIs, PromisedWill
  <2> QED
    BY <1>5, <1>6, <2>1, <2>2
<1>22. ASSUME NEW payload, Accepts(payload) PROVE Positive' /\ Affords'
  BY <1>5, <1>7, <1>22 DEF Accepts
<1>23. ASSUME NEW payload, Receives(payload) PROVE Accepts(payload)
  BY <1>1, <1>23 DEF Receives, Refuses
<1>24. ASSUME Generates PROVE Accepts(Queue)
  BY <1>24 DEF Generates, Refuses, Idle, QueueNew
<1>25. ~Syncs
  BY <1>1, <1>2 DEF Syncs, NoSync
<1>26. ASSUME NEW t \in Tx, Expires(t) PROVE FALSE
  BY <1>1, <1>26 DEF Expires
<1>27. ASSUME NEW gone, Deletes(gone) PROVE FALSE
  BY <1>27 DEF Deletes
<1>28. CASE UNCHANGED vars
  <2>1. Promised' = Promised /\ task' = task /\ balance' = balance /\ u_balance' = u_balance
    BY <1>28 DEF vars, Promised, Queue, Ahead, Behind, Payload
  <2> QED
    BY <1>2, <1>5, <2>1 DEF Affords
<1> QED
  BY <1>3, <1>10, <1>11, <1>12, <1>13, <1>14, <1>15, <1>16, <1>17, <1>18, <1>19, <1>20,
     <1>21, <1>22, <1>23, <1>24, <1>25, <1>26, <1>27, <1>28 DEF Does

\* One of a set spends no more than the set.
LEMMA OneOfSpent ==
  ASSUME NEW S \in SUBSET Tx, IsFiniteSet(S), NEW t \in S
  PROVE  Spend(t) \in Nat /\ Spent(From[t], S) \in Nat /\ Spend(t) <= Spent(From[t], S)
<1>1. PICK R : R = S \ {t}
  OBVIOUS
<1>2. PICK a : a = From[t]
  OBVIOUS
<1>3. R \in SUBSET Tx /\ IsFiniteSet(R)
  BY <1>1, FS_Subset
<1>4. /\ Spent(a, S) = Spent(a, R) + Cost(a, t) /\ Spent(a, R) \in Nat
      /\ Cost(a, t) = Spend(t) /\ Spend(t) \in Nat
  BY <1>1, <1>2, <1>3, Sums, Moves
<1> QED
  BY <1>2, <1>4

\* Where nothing happened, neither the rewind nor the exit does.
LEMMA PayableKept ==
  Shape /\ QueueNew /\ Exact /\ Solvent /\ Payable /\ [Next]_vars => Payable'
<1> SUFFICES ASSUME Shape, QueueNew, Exact, Solvent, Payable, [Next]_vars, OnlyHappened({})'
             PROVE  Payable'
  BY DEF Payable
<1>1. /\ OnlyHappened({}) /\ OnlyHappened({"overspend"})
      /\ OnlyHappened({"delete", "overspend"})
      /\ OnlyHappened({"overspend"})' /\ OnlyHappened({"delete", "overspend"})'
  BY OnlyBefore, OnlyFewer DEF Shape, OnlyHappened
<1>2. NoSync /\ Covered /\ Held /\ Positive /\ Affords
  BY <1>1 DEF Exact, Solvent
<1>3. /\ \A a \in Account : rewound[a] = 0
      /\ task.stage # "exited"
      /\ task.stage = "undo" => \A a \in Account : Spent(a, Payload) <= balance[a]
      /\ task.stage = "unconfirmed" => \A a \in Account : Spent(a, Ahead) <= u_balance[a]
  BY <1>1 DEF Payable
<1>4. Does
  BY NextDoes
<1>5. \A a \in Account : /\ u_balance[a] \in Int /\ balance[a] \in Int /\ u_balance[a] >= 0
                         /\ Spent(a, Promised) \in Nat
                         /\ u_balance[a] = balance[a] - Spent(a, Promised)
  <2>1. ASSUME NEW a \in Account PROVE u_balance[a] = balance[a] - Spent(a, Promised)
    <3>1. u_balance[a] = (balance[a] - Spent(a, Promised)) + rewound[a] /\ rewound[a] = 0
      BY <1>2, <1>3 DEF Held
    <3> QED
      BY <3>1, Numbers
  <2> QED
    BY <1>2, <2>1, Numbers DEF Positive
<1>6. ASSUME rewound' = rewound, task'.stage \notin {"exited", "undo", "unconfirmed"}
      PROVE  Payable'
  BY <1>3, <1>6 DEF Payable
<1>7. ASSUME NEW t \in Tx, Applies(t) \/ Fails(t) \/ Skips(t) \/ Confirms(t)
      PROVE  Payable'
  BY <1>6, <1>7 DEF Applies, Fails, Skips, Confirms, Loop
<1>8. ASSUME NEW t \in Tx, Undoes(t) PROVE Payable'
  <2>1. /\ task.stage = "undo" /\ task'.stage = "undo" /\ Payload' = Payload
        /\ balance' = balance /\ rewound' = rewound
    BY <1>8 DEF Undoes, Loop
  <2> QED
    BY <1>3, <2>1 DEF Payable
<1>9. ASSUME NEW t \in Tx, AppliesOfBlock(t) PROVE Payable'
  <2>1. /\ task.stage = "unconfirmed" /\ task'.stage = "unconfirmed" /\ rewound' = rewound
        /\ t \in Ahead
    BY <1>9 DEF AppliesOfBlock, Loop
  <2>2. PICK P : P = Ahead
    OBVIOUS
  <2>3. PICK R : R = P \ {t}
    OBVIOUS
  <2>4. Ahead' = R
    BY <1>9, <2>2, <2>3 DEF AppliesOfBlock, Loop
  <2>5. P \in SUBSET Tx /\ IsFiniteSet(P) /\ R \in SUBSET Tx /\ IsFiniteSet(R)
    BY <2>2, <2>3, SetsOK, FS_Subset
  <2>6. ASSUME NEW a \in Account PROVE Spent(a, R) <= u_balance'[a]
    <3>1. /\ Spent(a, P) = Spent(a, R) + Cost(a, t) /\ Spent(a, R) \in Nat
          /\ Cost(a, t) \in Nat
      BY <2>1, <2>2, <2>3, <2>5, Sums, Moves
    <3>2. u_balance'[a] = u_balance[a] - Cost(a, t) /\ Spent(a, P) <= u_balance[a]
      BY <1>3, <1>9, <2>1, <2>2 DEF AppliesOfBlock
    <3> QED
      BY <1>5, <3>1, <3>2
  <2> QED
    BY <1>3, <2>1, <2>4, <2>6 DEF Payable
<1>10. CASE QueueApplied
  BY <1>2, <1>6, <1>10 DEF QueueApplied, NoSync
<1>11. CASE QueueUndone
  <2>1. /\ task.stage = "undo" /\ task'.stage = "unconfirmed" /\ Ahead = {}
        /\ Ahead' = Payload /\ rewound' = rewound /\ u_balance' = u_balance
    BY <1>2, <1>11 DEF QueueUndone, NoSync
  <2>2. Promised = {}
    BY <2>1, PromisedIs
  <2>3. \A a : Spent(a, Promised) = 0
    BY <2>2, PromisedOK, Sums
  <2>4. \A a \in Account : Spent(a, Payload) <= u_balance[a]
    BY <1>3, <1>5, <2>1, <2>3
  <2> QED
    BY <1>3, <2>1, <2>4 DEF Payable
<1>12. ASSUME NEW S, S \in SUBSET Tx, IsFiniteSet(S), NEW f \in [Account -> Int],
              \A a \in Account : Spent(a, S) <= f[a],
              \E t \in S : Spend(t) > f[From[t]]
       PROVE  FALSE
  <2>1. PICK t \in S : Spend(t) > f[From[t]]
    BY <1>12
  <2>2. /\ Spend(t) \in Nat /\ Spent(From[t], S) \in Nat /\ Spend(t) <= Spent(From[t], S)
        /\ From[t] \in Account
    BY <1>12, OneOfSpent, Moves
  <2>3. Spent(From[t], S) <= f[From[t]] /\ f[From[t]] \in Int
    BY <1>12, <2>2
  <2> QED
    BY <2>1, <2>2, <2>3
<1>13. /\ Ahead \in SUBSET Tx /\ IsFiniteSet(Ahead)
       /\ u_balance \in [Account -> Int] /\ balance \in [Account -> Int]
  BY SetsOK DEF Shape, Typed
<1>14. ~Rewinds
  <2> SUFFICES ASSUME Rewinds PROVE FALSE
    OBVIOUS
  <2>1. /\ \A a \in Account : Spent(a, Ahead) <= u_balance[a]
        /\ \E t \in Ahead : Spend(t) > u_balance[From[t]]
    BY <1>3 DEF Rewinds, HalfDone
  <2> QED
    BY <1>12, <1>13, <2>1
<1>15. ~Exits
  <2> SUFFICES ASSUME Exits PROVE FALSE
    OBVIOUS
  <2>1. Promised = Ahead /\ \E t \in Ahead : Spend(t) > balance[From[t]]
    BY PromisedIs DEF Exits
  <2>2. \A a \in Account : Spent(a, Ahead) <= balance[a]
    BY <1>5, <2>1
  <2> QED
    BY <1>12, <1>13, <2>1, <2>2
<1>16. CASE Ends \/ Saves \/ Fills
  BY <1>6, <1>16 DEF Ends, HalfDone, Saves, Fills
<1>17. ASSUME NEW payload, Accepts(payload),
              \A a \in Account : Spent(a, payload) <= balance[a]
       PROVE  Payable'
  BY <1>3, <1>17 DEF Accepts, Payable
<1>18. ASSUME NEW payload \in SUBSET Tx, Receives(payload) PROVE Payable'
  <2>1. Accepts(payload)
    BY <1>1, <1>18 DEF Receives, Refuses
  <2>2. ~ \E a \in Account : Spent(a, payload) > balance[a]
    BY <1>18 DEF Receives
  <2>3. IsFiniteSet(payload)
    <3>0. TrueIds'
      BY DEF TrueIds, OnlyHappened
    <3>1. payload = Payload' /\ Shape'
      BY <2>1, <3>0, ShapeKept DEF Accepts
    <3>2. Payload' \in SUBSET Tx /\ IsFiniteSet(Payload')
      <4>1. PICK block : block = task'.block
        OBVIOUS
      <4>2. block \in Seq(Tx) /\ payload = ToSet(block)
        BY <3>1, <4>1, LedgerAssumption, BlocksAre DEF Shape, TaskOK, Blocks, Payload
      <4> QED
        BY <3>1, <4>2, SetFinite
    <3> QED
      BY <3>1, <3>2
  <2>4. \A a \in Account : Spent(a, payload) \in Nat
    BY <2>3, Sums
  <2>5. \A a \in Account : Spent(a, payload) <= balance[a]
    BY <1>5, <2>2, <2>4
  <2> QED
    BY <1>17, <2>1, <2>5
<1>19. CASE Generates
  <2>1. Accepts(Queue) /\ task.stage = "idle"
    BY <1>19 DEF Generates, Refuses, Idle, QueueNew
  <2>2. Promised = Queue
    BY <2>1, PromisedIs
  <2>3. \A a \in Account : Spent(a, Queue) <= balance[a]
    BY <1>5, <2>2
  <2> QED
    BY <1>17, <2>1, <2>3
<1>20. ~Syncs
  BY <1>1, <1>2 DEF Syncs, NoSync
<1>21. ASSUME NEW t \in Tx, Expires(t) PROVE FALSE
  BY <1>1, <1>21 DEF Expires
<1>22. ASSUME NEW gone, Deletes(gone) PROVE FALSE
  BY <1>1, <1>22 DEF Deletes
<1>23. CASE UNCHANGED vars
  <2>1. Payload' = Payload /\ Ahead' = Ahead
    BY <1>23 DEF vars, Ahead, Payload
  <2> QED
    BY <1>3, <1>23, <2>1 DEF vars, Payable
<1> QED
  BY <1>4, <1>7, <1>8, <1>9, <1>10, <1>11, <1>14, <1>15, <1>16, <1>18, <1>19, <1>20, <1>21,
     <1>22, <1>23 DEF Does
-----------------------------------------------------------------------------
(* The invariant, and what follows from it                                  *)

Inv ==
  /\ IInv
  /\ TrueIds => Shape /\ Recounted /\ QueueNew /\ Exact /\ Solvent /\ Payable

\* The invariant holds at the start,
LEMMA InitInv == Init => Inv
<1> SUFFICES ASSUME Init PROVE Inv
  OBVIOUS
<1>1. Shape
  BY InitShape
<1>2. /\ task.stage = "idle" /\ task.next = "idle" /\ task.attempt = 0
      /\ Queue = {} /\ Confirmed = {}
      /\ balance = Balance0 /\ u_balance = Balance0 /\ rewound = [a \in Account |-> 0]
  BY NoTaskOK, NoneOK DEF Init, Queue, Confirmed, Saved
<1>3. Promised = {} /\ Counted = {}
  BY <1>2, PromisedIs DEF Counted
<1>4. \A a : Spent(a, Promised) = 0
  BY <1>1, <1>3, PromisedOK, Sums
<1>5. \A a : Spent(a, Counted) = 0 /\ Received(a, Counted) = 0
  BY <1>1, <1>3, SetsOK, Sums
<1>6. \A a \in Account : Balance0[a] \in Nat
  BY LedgerAssumption
<1>7. Recounted
  BY <1>2, <1>5, <1>6 DEF Recounted
<1>8. QueueNew
  BY <1>2 DEF QueueNew
<1>9. Held
  BY <1>2, <1>4, <1>6 DEF Held
<1>10. Exact
  BY <1>2, <1>9 DEF Exact, NoSync, Covered
<1>11. Solvent
  BY <1>2, <1>3, <1>6 DEF Solvent, Positive, Affords
<1>12. Payable
  BY <1>2 DEF Payable
<1> QED
  BY <1>1, <1>7, <1>8, <1>10, <1>11, <1>12 DEF Inv, Shape

\* is kept by every step,
LEMMA NextInv == Inv /\ [Next]_vars => Inv'
<1> SUFFICES ASSUME Inv, [Next]_vars PROVE Inv'
  OBVIOUS
<1>1. IInv /\ IInv'
  BY NextIInv DEF Inv
<1>2. ASSUME TrueIds'
      PROVE  (Shape /\ Recounted /\ QueueNew /\ Exact /\ Solvent /\ Payable)'
  <2>1. TrueIds
    BY <1>1, <1>2, OnlyBefore DEF TrueIds
  <2>2. Shape /\ Recounted /\ QueueNew /\ Exact /\ Solvent /\ Payable
    BY <2>1 DEF Inv
  <2>3. Does
    BY <2>2, NextDoes
  <2> QED
    BY <1>2, <2>2, <2>3, ShapeKept, RecountedKept, QueueNewKept, ExactKept, SolventKept,
       PayableKept
<1> QED
  BY <1>1, <1>2 DEF Inv

\* and says what the three properties say: the confirmed half,
LEMMA InvLedgerOK == Inv => (TrueIds => LedgerOK)
<1> SUFFICES ASSUME Inv, TrueIds PROVE LedgerOK
  OBVIOUS
<1>1. Shape /\ Recounted /\ QueueNew
  BY DEF Inv
<1>2. TypeOK
  <2>1. unconfirmed \in Lists(MaxTxsPerBlock)
    BY <1>1, BlocksAre, LedgerAssumption DEF Shape, Typed, OneOfEach, Lists
  <2> QED
    BY <1>1, <2>1 DEF Shape, IInv, AnyIds, Typed, TaskOK, Stages, TypeOK
<1>3. Replayed
  BY <1>1 DEF Recounted, Replayed, Counted
<1>4. QueueUnconfirmed
  BY <1>1, NoTaskOK DEF QueueNew, QueueUnconfirmed, Queue
<1> QED
  BY <1>2, <1>3, <1>4 DEF LedgerOK

\* the unconfirmed balances between two tasks,
LEMMA InvUnconfirmedExact == Inv => UnconfirmedExact
<1> SUFFICES ASSUME Inv, OnlyHappened({"delete", "overspend"}), task = NoTask,
                    NEW a \in Account
             PROVE  u_balance[a] = balance[a] - Reserved(a) + rewound[a]
  BY DEF UnconfirmedExact, QueueReserved
<1>0. TrueIds
  BY DEF TrueIds, OnlyHappened
<1>1. task.stage = "idle" /\ Held
  BY <1>0, NoTaskOK DEF Inv, Exact
<1>2. Reserved(a) = Spent(a, Promised)
  BY <1>1, PromisedIs DEF Reserved, Queue
<1> QED
  BY <1>1, <1>2 DEF Held

\* and that blocks can be paid.
LEMMA InvNeverFatal == Inv => NeverFatal
<1> SUFFICES ASSUME Inv PROVE NeverFatal
  OBVIOUS
<1>0. (OnlyHappened({}) => TrueIds) /\ (OnlyHappened({"overspend"}) => TrueIds)
  BY DEF TrueIds, OnlyHappened
<1>1. OnlyHappened({}) => BlockIsOk
  BY <1>0 DEF Inv, Payable, BlockIsOk
<1>2. ASSUME OnlyHappened({"overspend"}), task = NoTask
      PROVE  /\ Passes(unconfirmed)
             /\ \A a \in Account : Reserved(a) <= balance[a] + rewound[a]
  <2>1. task.stage = "idle" /\ Positive /\ Affords /\ Held /\ QueueNew /\ Shape
    BY <1>0, <1>2, NoTaskOK, OnlyFewer DEF Inv, Solvent, Exact
  <2>2. Promised = Queue
    BY <2>1, PromisedIs
  <2>3. Passes(unconfirmed)
    BY <2>1, <2>2 DEF Passes, Verified, Queue, Affords, QueueNew
  <2>4. ASSUME NEW a \in Account PROVE Reserved(a) <= balance[a] + rewound[a]
    <3>1. /\ balance[a] \in Int /\ u_balance[a] \in Int /\ rewound[a] \in Nat
          /\ Spent(a, Promised) \in Nat
      BY <2>1, Numbers
    <3>2. u_balance[a] >= 0
          /\ u_balance[a] = (balance[a] - Spent(a, Promised)) + rewound[a]
      BY <2>1 DEF Positive, Held
    <3>3. Reserved(a) = Spent(a, Promised)
      BY <2>2 DEF Reserved, Queue
    <3> QED
      BY <3>1, <3>2, <3>3
  <2> QED
    BY <2>3, <2>4
<1> QED
  BY <1>1, <1>2 DEF NeverFatal, ForgePasses

(***************************************************************************)
(* In every behaviour the confirmed balances are those of the chain        *)
(* outside of applyBlock, and nothing confirmed waits in the queue between *)
(* two tasks: applyBlock, popLastBlock and applyUnconfirmedList, with any  *)
(* refused, rewound, replayed, expired or retried step in between, as long *)
(* as no peer gives a transaction two ids.                                 *)
(***************************************************************************)
THEOREM LedgerFollowsChain == Spec => [](TrueIds => LedgerOK)
<1> QED
  BY InitInv, NextInv, InvLedgerOK, PTL DEF Spec

(***************************************************************************)
(* As long as nothing expires, syncs or is replayed, between two tasks     *)
(* u_balance is balance less what the queue spends, and more by what       *)
(* rewound blocks spent: undoUnconfirmedList, applyBlock with its rewind,  *)
(* applyUnconfirmedIds and popLastBlock neither lose nor invent money.     *)
(***************************************************************************)
THEOREM UnconfirmedStaysExact == Spec => []UnconfirmedExact
<1> QED
  BY InitInv, NextInv, InvUnconfirmedExact, PTL DEF Spec

(***************************************************************************)
(* As long as nothing expires, syncs, is replayed or is deleted, the queue *)
(* makes a block that passes the verification that generateBlock does not  *)
(* look at, and that can be paid; and if the blocks of peers can be paid   *)
(* too, applyBlock does not come to its process.exit.                      *)
(***************************************************************************)
THEOREM BlocksAreOk == Spec => []NeverFatal
<1> QED
  BY InitInv, NextInv, InvNeverFatal, PTL DEF Spec
=============================================================================
