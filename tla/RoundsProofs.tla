---------------------------- MODULE RoundsProofs ----------------------------
(***************************************************************************)
(* Proofs about Rounds, for every set of accounts and delegates, every     *)
(* length of a round, all rewards, transactions and numbers of rollbacks;  *)
(* and, at the end, about RewardPool, which shares what a round pays, for  *)
(* every finite set of voters, all shares, blocks, payments and failures.  *)
(*                                                                         *)
(* The money (Conserved) and the types follow from BaseInv, which sums the *)
(* fees, the rewards and the blocks of each delegate along the chain.      *)
(*                                                                         *)
(* The rows, the rollbacks and the votes follow from IInv.  Its heart is   *)
(* StepsInv: the tables remembered for a block are made by that block from *)
(* tables that elect as those remembered for the block before it do.  With *)
(* SameInv, the tables of the node elect as those remembered for its last  *)
(* block, and a rolled-back block takes back what it did (BlockRestored),  *)
(* so that they elect as those of the block before it again.  At the end   *)
(* of a round that needs the snapshot of that block (SnapshotInv) and that *)
(* no other row waits (RowsInv); the lists of delegates come back because  *)
(* each vote fitted them (VotedInv).                                       *)
(*                                                                         *)
(* First come the sums the model is written with: what SumOver is, from    *)
(* the definition of MapThenFoldSet, and how it changes with one value.    *)
(***************************************************************************)
EXTENDS Rounds, RewardPool, FiniteSetTheorems, WellFoundedInduction, TLAPS

-----------------------------------------------------------------------------
(* Recursion over the subsets of a finite set                              *)

\* Of some subsets of a finite set one contains no other.
LEMMA SmallestSet ==
  ASSUME NEW S, IsFiniteSet(S), NEW T \in SUBSET (SUBSET S), T # {}
  PROVE  \E s \in T : \A r \in T : r \subseteq s => r = s
<1> DEFINE R == StrictSubsetOrdering(S)
<1>1. IsWellFoundedOn(R, FiniteSubsetsOf(S))
  BY FS_StrictSubsetOrderingWellFounded
<1>2. T \subseteq FiniteSubsetsOf(S)
  BY FS_Subset DEF FiniteSubsetsOf
<1> HIDE DEF R
<1>3. PICK s \in T : \A r \in T : <<r, s>> \notin R
  BY <1>1, <1>2, WFMin
<1>4. ASSUME NEW r \in T, r \subseteq s, r # s PROVE FALSE
  <2>1. <<r, s>> \in (SUBSET S) \X (SUBSET S)
    BY <1>4
  <2>2. <<r, s>> \in R
    BY <1>4, <2>1 DEF R, StrictSubsetOrdering
  <2> QED
    BY <1>3, <2>2
<1> QED
  BY <1>4

(* Recursion over the subsets of a finite set: one element, c[s], is taken *)
(* out of s, and step joins it to the value of the rest.                   *)
Recurs(g, S, c, base, step) ==
  \A s \in SUBSET S : g[s] = IF s = {} THEN base ELSE step[<<c[s], g[s \ {c[s]}]>>]

\* Two such tables agree where both have a value.
LEMMA RecursionUnique ==
  ASSUME NEW S, IsFiniteSet(S), NEW c, \A s \in SUBSET S : s # {} => c[s] \in s,
         NEW base, NEW step, NEW U \in SUBSET S, NEW W \in SUBSET S, NEW g, NEW h,
         Recurs(g, U, c, base, step), Recurs(h, W, c, base, step)
  PROVE  \A s \in SUBSET (U \cap W) : g[s] = h[s]
<1> DEFINE T == {s \in SUBSET (U \cap W) : g[s] # h[s]}
<1> SUFFICES ASSUME T # {} PROVE FALSE
  OBVIOUS
<1>1. T \in SUBSET (SUBSET S)
  OBVIOUS
<1> HIDE DEF T
<1>2. PICK s \in T : \A r \in T : r \subseteq s => r = s
  BY <1>1, SmallestSet
<1>3. s \in SUBSET U /\ s \in SUBSET W /\ g[s] # h[s]
  BY DEF T
<1>4. s # {}
  BY <1>3 DEF Recurs
<1>5. c[s] \in s
  BY <1>3, <1>4
<1>6. s \ {c[s]} \notin T
  BY <1>2, <1>5
<1>7. g[s \ {c[s]}] = h[s \ {c[s]}]
  BY <1>6, <1>3 DEF T
<1>8. g[s] = step[<<c[s], g[s \ {c[s]}]>>] /\ h[s] = step[<<c[s], h[s \ {c[s]}]>>]
  BY <1>3, <1>4 DEF Recurs
<1> QED
  BY <1>3, <1>7, <1>8

\* There is such a table: the one that takes each smaller set from its own.
LEMMA RecursionExists ==
  ASSUME NEW S, IsFiniteSet(S), NEW c, \A s \in SUBSET S : s # {} => c[s] \in s,
         NEW V, NEW base \in V, NEW step, \A x \in S, v \in V : step[<<x, v>>] \in V
  PROVE  \E g \in [SUBSET S -> V] : Recurs(g, S, c, base, step)
<1> DEFINE Has(U) == \E g \in [SUBSET U -> V] : Recurs(g, U, c, base, step)
           T == {U \in SUBSET S : ~Has(U)}
<1> SUFFICES ASSUME T # {} PROVE FALSE
  OBVIOUS
<1>1. T \in SUBSET (SUBSET S)
  OBVIOUS
<1> HIDE DEF T
<1>2. PICK U \in T : \A r \in T : r \subseteq U => r = U
  BY <1>1, SmallestSet
<1>3. U \in SUBSET S /\ ~Has(U) /\ \A r \in SUBSET U : r # U => Has(r)
  BY <1>2 DEF T
<1> DEFINE of == [r \in SUBSET U |->
                    CHOOSE g \in [SUBSET r -> V] : Recurs(g, r, c, base, step)]
<1>4. \A r \in SUBSET U : r # U =>
        of[r] \in [SUBSET r -> V] /\ Recurs(of[r], r, c, base, step)
  BY <1>3
<1> HIDE DEF of, Has
<1>a. ASSUME NEW r \in SUBSET U, r # U PROVE of[r][r] \in V
  <2>1. of[r] \in [SUBSET r -> V] /\ r \in SUBSET r
    BY <1>a, <1>4
  <2> QED
    BY <2>1
<1>5. \A r \in SUBSET U, s \in SUBSET U :
         r # U /\ s \subseteq r => of[s][s] = of[r][s]
  <2> SUFFICES ASSUME NEW r \in SUBSET U, NEW s \in SUBSET U, r # U, s \subseteq r
               PROVE  of[s][s] = of[r][s]
    OBVIOUS
  <2>1. s # U /\ r \in SUBSET S /\ s \in SUBSET S
    BY <1>3
  <2>2. Recurs(of[r], r, c, base, step) /\ Recurs(of[s], s, c, base, step)
    BY <1>4, <2>1
  <2>3. \A t \in SUBSET (s \cap r) : of[s][t] = of[r][t]
    BY <2>1, <2>2, RecursionUnique
  <2> QED
    BY <2>3
<1> DEFINE value == [s \in SUBSET U |->
                       IF s # U THEN of[s][s]
                       ELSE IF s = {} THEN base
                       ELSE step[<<c[s], of[s \ {c[s]}][s \ {c[s]}]>>]]
<1>6. \A s \in SUBSET U : s # {} => c[s] \in s /\ s \ {c[s]} # U /\ s \ {c[s]} \in SUBSET U
  BY <1>3
<1>7. ASSUME NEW s \in SUBSET U PROVE value[s] \in V
  <2>1. CASE s # U
    BY <2>1, <1>a
  <2>2. CASE s = U /\ s = {}
    BY <2>2
  <2>3. CASE s = U /\ s # {}
    <3>1. of[s \ {c[s]}][s \ {c[s]}] \in V /\ c[s] \in S
      BY <2>3, <1>a, <1>6, <1>3
    <3> QED
      BY <3>1, <2>3
  <2> QED
    BY <2>1, <2>2, <2>3
<1>8. ASSUME NEW s \in SUBSET U
      PROVE  value[s] = IF s = {} THEN base ELSE step[<<c[s], value[s \ {c[s]}]>>]
  <2>1. CASE s # U /\ s = {}
    BY <2>1, <1>4 DEF Recurs
  <2>2. CASE s # U /\ s # {}
    <3>1. value[s] = of[s][s] /\ value[s \ {c[s]}] = of[s \ {c[s]}][s \ {c[s]}]
      BY <2>2, <1>6
    <3>2. of[s][s] = step[<<c[s], of[s][s \ {c[s]}]>>]
      BY <2>2, <1>4 DEF Recurs
    <3>3. of[s \ {c[s]}][s \ {c[s]}] = of[s][s \ {c[s]}]
      BY <2>2, <1>5, <1>6
    <3> QED
      BY <2>2, <3>1, <3>2, <3>3
  <2>3. CASE s = U /\ s = {}
    BY <2>3
  <2>4. CASE s = U /\ s # {}
    <3>1. value[s \ {c[s]}] = of[s \ {c[s]}][s \ {c[s]}]
      BY <2>4, <1>6
    <3> QED
      BY <2>4, <3>1
  <2> QED
    BY <2>1, <2>2, <2>3, <2>4
<1> HIDE DEF value
<1>9. value \in [SUBSET U -> V]
  BY <1>7 DEF value
<1>10. Recurs(value, U, c, base, step)
  BY <1>8 DEF Recurs
<1> QED
  BY <1>3, <1>9, <1>10 DEF Has

-----------------------------------------------------------------------------
(* Sums over finite sets, as MapThenSumSet takes them: of f over S         *)

AnyOf(s) == CHOOSE x \in s : TRUE

SumTable(g, f, S) ==
  g = [s \in SUBSET S |-> IF s = {} THEN 0 ELSE f[AnyOf(s)] + g[s \ {AnyOf(s)}]]

SumOf(f, S) == (CHOOSE g : SumTable(g, f, S))[S]

\* A table of sums is what MapThenFoldSet chooses; two of them agree.
LEMMA SumTableUnique ==
  ASSUME NEW S, IsFiniteSet(S), NEW f, NEW U \in SUBSET S, NEW W \in SUBSET S,
         NEW g, NEW h, SumTable(g, f, U), SumTable(h, f, W)
  PROVE  \A s \in SUBSET (U \cap W) : g[s] = h[s]
<1> DEFINE T == {s \in SUBSET (U \cap W) : g[s] # h[s]}
<1> SUFFICES ASSUME T # {} PROVE FALSE
  OBVIOUS
<1>1. T \in SUBSET (SUBSET S)
  OBVIOUS
<1> HIDE DEF T
<1>2. PICK s \in T : \A r \in T : r \subseteq s => r = s
  BY <1>1, SmallestSet
<1>3. s \in SUBSET U /\ s \in SUBSET W /\ g[s] # h[s]
  BY DEF T
<1>4. s # {}
  BY <1>3 DEF SumTable
<1>5. AnyOf(s) \in s
  BY <1>4 DEF AnyOf
<1>6. s \ {AnyOf(s)} \notin T
  BY <1>2, <1>5
<1>7. g[s \ {AnyOf(s)}] = h[s \ {AnyOf(s)}]
  BY <1>6, <1>3 DEF T
<1>8. /\ g[s] = f[AnyOf(s)] + g[s \ {AnyOf(s)}]
      /\ h[s] = f[AnyOf(s)] + h[s \ {AnyOf(s)}]
  BY <1>3, <1>4 DEF SumTable
<1> QED
  BY <1>3, <1>7, <1>8

\* And there is one.
LEMMA SumTableExists ==
  ASSUME NEW S, IsFiniteSet(S), NEW f, \A x \in S : f[x] \in Int
  PROVE  \E g \in [SUBSET S -> Int] : SumTable(g, f, S)
<1> DEFINE c == [s \in SUBSET S |-> AnyOf(s)]
           step == [p \in S \X Int |-> f[p[1]] + p[2]]
<1>1. \A s \in SUBSET S : s # {} => c[s] \in s
  BY DEF AnyOf
<1>2. \A x \in S, v \in Int : step[<<x, v>>] = f[x] + v
  OBVIOUS
<1>3. \A s \in SUBSET S : c[s] = AnyOf(s)
  OBVIOUS
<1> HIDE DEF c, step
<1>4. ASSUME NEW x \in S, NEW v \in Int PROVE step[<<x, v>>] \in Int
  <2>1. step[<<x, v>>] = f[x] + v
    BY <1>2
  <2>2. f[x] + v \in Int
    OBVIOUS
  <2> QED
    BY <2>1, <2>2
<1>5. PICK g \in [SUBSET S -> Int] : Recurs(g, S, c, 0, step)
  <2>1. 0 \in Int
    OBVIOUS
  <2> QED
    BY <1>1, <1>4, <2>1, RecursionExists, Zenon
<1>6. ASSUME NEW s \in SUBSET S, s # {} PROVE g[s] = f[AnyOf(s)] + g[s \ {AnyOf(s)}]
  <2>1. c[s] \in S /\ s \ {c[s]} \in SUBSET S
    BY <1>1, <1>6
  <2>2. g[s \ {c[s]}] \in Int
    BY <2>1
  <2>3. step[<<c[s], g[s \ {c[s]}]>>] = f[c[s]] + g[s \ {c[s]}]
    BY <2>1, <2>2, <1>2
  <2> QED
    BY <1>5, <1>6, <2>3, <1>3 DEF Recurs
<1>7. g[{}] = 0
  BY <1>5 DEF Recurs
<1> QED
  BY <1>6, <1>7 DEF SumTable

\* What is known of a sum without its table.
LEMMA SumFirst ==
  ASSUME NEW S, IsFiniteSet(S), NEW f, \A x \in S : f[x] \in Int
  PROVE  /\ SumOf(f, S) \in Int
         /\ S = {} => SumOf(f, S) = 0
         /\ S # {} => SumOf(f, S) = f[AnyOf(S)] + SumOf(f, S \ {AnyOf(S)})
<1> DEFINE TableOf(U) == CHOOSE g : SumTable(g, f, U)
<1>1. ASSUME NEW U \in SUBSET S
      PROVE  SumTable(TableOf(U), f, U)
  <2>1. IsFiniteSet(U) /\ \A x \in U : f[x] \in Int
    BY FS_Subset
  <2>2. \E g : SumTable(g, f, U)
    BY <2>1, SumTableExists
  <2> QED
    BY <2>2
<1>2. SumOf(f, S) = TableOf(S)[S]
  BY DEF SumOf
<1>3. SumOf(f, S \ {AnyOf(S)}) = TableOf(S \ {AnyOf(S)})[S \ {AnyOf(S)}]
  BY DEF SumOf
<1>4. TableOf(S)[S \ {AnyOf(S)}] = TableOf(S \ {AnyOf(S)})[S \ {AnyOf(S)}]
  <2>1. S \ {AnyOf(S)} \in SUBSET S /\ S \in SUBSET S
    OBVIOUS
  <2>2. SumTable(TableOf(S), f, S) /\ SumTable(TableOf(S \ {AnyOf(S)}), f, S \ {AnyOf(S)})
    BY <1>1, <2>1
  <2> HIDE DEF TableOf
  <2>3. \A s \in SUBSET (S \cap (S \ {AnyOf(S)})) :
          TableOf(S)[s] = TableOf(S \ {AnyOf(S)})[s]
    BY <2>1, <2>2, SumTableUnique
  <2> QED
    BY <2>3
<1>5. PICK h \in [SUBSET S -> Int] : SumTable(h, f, S)
  BY SumTableExists
<1>6. SumTable(TableOf(S), f, S)
  BY <1>1
<1> HIDE DEF TableOf
<1>7. TableOf(S)[S] = h[S]
  <2>1. S \in SUBSET S /\ S \in SUBSET (S \cap S)
    OBVIOUS
  <2>2. \A s \in SUBSET (S \cap S) : TableOf(S)[s] = h[s]
    BY <1>5, <1>6, <2>1, SumTableUnique
  <2> QED
    BY <2>1, <2>2
<1>8. h[S] \in Int
  <2>1. S \in SUBSET S
    OBVIOUS
  <2> QED
    BY <2>1
<1>9. TableOf(S)[S] = IF S = {} THEN 0 ELSE f[AnyOf(S)] + TableOf(S)[S \ {AnyOf(S)}]
  BY <1>6 DEF SumTable
<1> QED
  BY <1>2, <1>3, <1>4, <1>7, <1>8, <1>9

\* Any member may be taken out first.
LEMMA SumRemove ==
  ASSUME NEW S, IsFiniteSet(S), NEW f, \A x \in S : f[x] \in Int
  PROVE  \A x \in S : SumOf(f, S) = f[x] + SumOf(f, S \ {x})
<1> DEFINE T == {U \in SUBSET S : \E x \in U : SumOf(f, U) # f[x] + SumOf(f, U \ {x})}
<1> SUFFICES ASSUME T # {} PROVE FALSE
  OBVIOUS
<1>1. T \in SUBSET (SUBSET S)
  OBVIOUS
<1>2. \A U \in (SUBSET S) \ T : \A x \in U : SumOf(f, U) = f[x] + SumOf(f, U \ {x})
  OBVIOUS
<1>3. \A U \in T : \E x \in U : SumOf(f, U) # f[x] + SumOf(f, U \ {x})
  OBVIOUS
<1> HIDE DEF T
<1>4. PICK U \in T : \A r \in T : r \subseteq U => r = U
  BY <1>1, SmallestSet
<1>5. PICK x \in U : SumOf(f, U) # f[x] + SumOf(f, U \ {x})
  BY <1>3
<1>6. U \in SUBSET S
  BY <1>1
<1>7. \A W \in SUBSET U : IsFiniteSet(W) /\ (\A y \in W : f[y] \in Int)
  BY <1>6, FS_Subset
<1>8. \A W \in SUBSET U : SumOf(f, W) \in Int
  BY <1>7, SumFirst
<1>9. PICK c : c = AnyOf(U)
  OBVIOUS
<1>10. c \in U /\ SumOf(f, U) = f[c] + SumOf(f, U \ {c})
  BY <1>5, <1>7, <1>9, SumFirst DEF AnyOf
<1>11. c # x
  BY <1>5, <1>10
<1>12. U \ {c} \notin T /\ U \ {x} \notin T
  BY <1>4, <1>5, <1>10
<1>13. /\ U \ {c} \in SUBSET S /\ U \ {x} \in SUBSET S
       /\ x \in U \ {c} /\ c \in U \ {x}
  BY <1>6, <1>5, <1>10, <1>11
<1>14. /\ SumOf(f, U \ {c}) = f[x] + SumOf(f, (U \ {c}) \ {x})
       /\ SumOf(f, U \ {x}) = f[c] + SumOf(f, (U \ {x}) \ {c})
  BY <1>2, <1>12, <1>13
<1>15. (U \ {c}) \ {x} = (U \ {x}) \ {c} /\ (U \ {c}) \ {x} \in SUBSET U
  OBVIOUS
<1>16. PICK r \in Int : r = SumOf(f, (U \ {c}) \ {x})
  BY <1>8, <1>15
<1>17. PICK fc \in Int, fx \in Int : fc = f[c] /\ fx = f[x]
  BY <1>6, <1>10
<1>18. SumOf(f, U) = fc + (fx + r)
  BY <1>10, <1>14, <1>16, <1>17
<1>19. f[x] + SumOf(f, U \ {x}) = fx + (fc + r)
  BY <1>14, <1>15, <1>16, <1>17
<1> QED
  BY <1>5, <1>18, <1>19
\* SumOver is such a sum.
LEMMA SumIs ==
  ASSUME NEW f, NEW S
  PROVE  SumOver(f, S) = SumOf(f, S)
  BY DEF SumOver, MapThenSumSet, MapThenFoldSet, AnyOf, SumOf, SumTable

LEMMA SumInt ==
  ASSUME NEW S, IsFiniteSet(S), NEW f, \A x \in S : f[x] \in Int
  PROVE  SumOver(f, S) \in Int
  BY SumFirst, SumIs

LEMMA SumEmpty ==
  ASSUME NEW f
  PROVE  SumOver(f, {}) = 0
  BY SumFirst, SumIs, FS_EmptySet

LEMMA SumWithout ==
  ASSUME NEW S, IsFiniteSet(S), NEW f, \A x \in S : f[x] \in Int, NEW x \in S
  PROVE  /\ SumOver(f, S) = f[x] + SumOver(f, S \ {x})
         /\ SumOver(f, S \ {x}) \in Int
<1>1. SumOver(f, S) = f[x] + SumOver(f, S \ {x})
  BY SumRemove, SumIs
<1>2. IsFiniteSet(S \ {x}) /\ \A y \in S \ {x} : f[y] \in Int
  BY FS_Subset
<1> QED
  BY <1>1, <1>2, SumInt

\* A sum depends on the values in the set only.
LEMMA SumSame ==
  ASSUME NEW S, IsFiniteSet(S), NEW f, NEW g, \A x \in S : f[x] \in Int /\ g[x] = f[x]
  PROVE  SumOver(f, S) = SumOver(g, S)
<1> DEFINE T == {U \in SUBSET S : SumOver(f, U) # SumOver(g, U)}
<1> SUFFICES ASSUME T # {} PROVE FALSE
  OBVIOUS
<1>1. T \in SUBSET (SUBSET S)
  OBVIOUS
<1> HIDE DEF T
<1>2. PICK U \in T : \A r \in T : r \subseteq U => r = U
  BY <1>1, SmallestSet
<1>3. U \in SUBSET S /\ SumOver(f, U) # SumOver(g, U)
  BY <1>2 DEF T
<1>4. U # {}
  BY <1>3, SumEmpty
<1>5. PICK x \in U : TRUE
  BY <1>4
<1>6. IsFiniteSet(U)
  BY <1>3, FS_Subset
<1>7. /\ SumOver(f, U) = f[x] + SumOver(f, U \ {x})
      /\ SumOver(g, U) = g[x] + SumOver(g, U \ {x})
  BY <1>3, <1>5, <1>6, SumWithout
<1>8. U \ {x} \notin T /\ U \ {x} \in SUBSET S
  BY <1>2, <1>3, <1>5
<1>9. SumOver(f, U \ {x}) = SumOver(g, U \ {x})
  BY <1>8 DEF T
<1> QED
  BY <1>3, <1>5, <1>7, <1>9

\* Where one value changes the sum changes by as much.
LEMMA SumChange ==
  ASSUME NEW S, IsFiniteSet(S), NEW f, NEW g, \A x \in S : f[x] \in Int /\ g[x] \in Int,
         NEW y \in S, \A x \in S : x # y => g[x] = f[x]
  PROVE  SumOver(g, S) = SumOver(f, S) + (g[y] - f[y])
<1>1. IsFiniteSet(S \ {y})
  BY FS_Subset
<1>2. SumOver(f, S \ {y}) = SumOver(g, S \ {y})
  BY <1>1, SumSame
<1>3. /\ SumOver(f, S) = f[y] + SumOver(f, S \ {y})
      /\ SumOver(f, S \ {y}) \in Int
  BY SumWithout
<1>4. SumOver(g, S) = g[y] + SumOver(g, S \ {y})
  BY SumWithout
<1>5. f[y] \in Int /\ g[y] \in Int
  OBVIOUS
<1> QED
  BY <1>2, <1>3, <1>4, <1>5

LEMMA SumZero ==
  ASSUME NEW S, IsFiniteSet(S), NEW f, \A x \in S : f[x] = 0
  PROVE  SumOver(f, S) = 0
<1> DEFINE T == {U \in SUBSET S : SumOver(f, U) # 0}
<1> SUFFICES ASSUME T # {} PROVE FALSE
  OBVIOUS
<1>1. T \in SUBSET (SUBSET S)
  OBVIOUS
<1> HIDE DEF T
<1>2. PICK U \in T : \A r \in T : r \subseteq U => r = U
  BY <1>1, SmallestSet
<1>3. U \in SUBSET S /\ SumOver(f, U) # 0
  BY <1>2 DEF T
<1>4. U # {}
  BY <1>3, SumEmpty
<1>5. PICK x \in U : TRUE
  BY <1>4
<1>6. IsFiniteSet(U) /\ \A y \in U : f[y] \in Int
  BY <1>3, FS_Subset
<1>7. SumOver(f, U) = f[x] + SumOver(f, U \ {x})
  BY <1>5, <1>6, SumWithout
<1>8. U \ {x} \notin T /\ U \ {x} \in SUBSET S
  BY <1>2, <1>3, <1>5
<1>9. SumOver(f, U \ {x}) = 0
  BY <1>8 DEF T
<1> QED
  BY <1>3, <1>5, <1>7, <1>9

\* Sums over disjoint sets add up.
LEMMA SumUnion ==
  ASSUME NEW S, IsFiniteSet(S), NEW f, \A x \in S : f[x] \in Int, NEW P
  PROVE  SumOver(f, S) = SumOver(f, S \cap P) + SumOver(f, S \ P)
<1> DEFINE T == {U \in SUBSET S : SumOver(f, U) # SumOver(f, U \cap P) + SumOver(f, U \ P)}
<1> SUFFICES ASSUME T # {} PROVE FALSE
  OBVIOUS
<1>1. T \in SUBSET (SUBSET S)
  OBVIOUS
<1>2. \A U \in SUBSET S : U \notin T => SumOver(f, U) = SumOver(f, U \cap P) + SumOver(f, U \ P)
  OBVIOUS
<1>3. \A U \in T : SumOver(f, U) # SumOver(f, U \cap P) + SumOver(f, U \ P)
  OBVIOUS
<1> HIDE DEF T
<1>4. PICK U \in T : \A r \in T : r \subseteq U => r = U
  BY <1>1, SmallestSet
<1>5. U \in SUBSET S
  BY <1>1
<1>6. U # {}
  <2> SUFFICES ASSUME U = {} PROVE FALSE
    OBVIOUS
  <2>1. U \cap P = {} /\ U \ P = {}
    OBVIOUS
  <2> QED
    BY <2>1, <1>3, SumEmpty
<1>7. PICK x \in U : TRUE
  BY <1>6
<1>8. \A W \in SUBSET S : IsFiniteSet(W) /\ (\A y \in W : f[y] \in Int)
  BY FS_Subset
<1>9. \A W \in SUBSET S : SumOver(f, W) \in Int
  BY <1>8, SumInt
<1>10. \A W \in SUBSET S : \A y \in W : SumOver(f, W) = f[y] + SumOver(f, W \ {y})
  BY <1>8, SumWithout
<1>11. U \ {x} \in SUBSET S /\ U \ {x} \notin T
  BY <1>4, <1>5, <1>7
<1>12. PICK V : V = U \ {x}
  OBVIOUS
<1>13. SumOver(f, V) = SumOver(f, V \cap P) + SumOver(f, V \ P)
  BY <1>2, <1>11, <1>12
<1>14. SumOver(f, U) = f[x] + SumOver(f, V)
  BY <1>5, <1>7, <1>10, <1>12
<1>15. PICK a \in Int, b \in Int, c \in Int :
         a = f[x] /\ b = SumOver(f, V \cap P) /\ c = SumOver(f, V \ P)
  <2>1. V \cap P \in SUBSET S /\ V \ P \in SUBSET S
    BY <1>5, <1>12
  <2> QED
    BY <2>1, <1>5, <1>7, <1>9
<1>16. CASE x \in P
  <2>1. U \cap P \in SUBSET S /\ x \in U \cap P /\ (U \cap P) \ {x} = V \cap P /\ U \ P = V \ P
    BY <1>5, <1>7, <1>12, <1>16
  <2>2. SumOver(f, U \cap P) = a + b
    BY <1>10, <1>15, <2>1
  <2>3. SumOver(f, U \ P) = c /\ SumOver(f, U) = a + (b + c)
    BY <1>13, <1>14, <1>15, <2>1
  <2>4. a + (b + c) = (a + b) + c
    OBVIOUS
  <2> QED
    BY <1>3, <2>2, <2>3, <2>4
<1>17. CASE x \notin P
  <2>1. U \ P \in SUBSET S /\ x \in U \ P /\ (U \ P) \ {x} = V \ P /\ U \cap P = V \cap P
    BY <1>5, <1>7, <1>12, <1>17
  <2>2. SumOver(f, U \ P) = a + c
    BY <1>10, <1>15, <2>1
  <2>3. SumOver(f, U \cap P) = b /\ SumOver(f, U) = a + (b + c)
    BY <1>13, <1>14, <1>15, <2>1
  <2>4. a + (b + c) = b + (a + c)
    OBVIOUS
  <2> QED
    BY <1>3, <2>2, <2>3, <2>4
<1> QED
  BY <1>16, <1>17

-----------------------------------------------------------------------------
(* Numbers, and sums over intervals                                        *)

LEMMA MaxExists ==
  ASSUME NEW n \in Nat, NEW S \in SUBSET (1..n), S # {}
  PROVE  Max(S) \in S /\ \A y \in S : Max(S) >= y
<1> DEFINE AtLeast(y) == {x \in S : x >= y}
           T == {AtLeast(y) : y \in S}
<1>1. IsFiniteSet(S)
  <2>1. PICK N : N = 1..n
    OBVIOUS
  <2>2. IsFiniteSet(N)
    BY <2>1, FS_Interval
  <2>3. S \in SUBSET N
    BY <2>1
  <2> QED
    BY <2>2, <2>3, FS_Subset
<1>2. T \in SUBSET (SUBSET S) /\ T # {}
  OBVIOUS
<1>3. \A r \in T : \E y \in S : r = AtLeast(y)
  OBVIOUS
<1>4. \A y \in S : AtLeast(y) \in T
  OBVIOUS
<1> HIDE DEF T
<1>5. PICK s \in T : \A r \in T : r \subseteq s => r = s
  <2>1. PICK N : N = S
    OBVIOUS
  <2>2. IsFiniteSet(N) /\ T \in SUBSET (SUBSET N) /\ T # {}
    BY <1>1, <1>2, <2>1
  <2> QED
    BY <2>2, SmallestSet
<1>6. PICK y \in S : s = AtLeast(y)
  BY <1>3
<1>7. ASSUME NEW z \in S, ~(y >= z) PROVE FALSE
  <2>1. AtLeast(z) \in T
    BY <1>4
  <2>2. y \in s /\ y \notin AtLeast(z)
    BY <1>6, <1>7
  <2>3. AtLeast(z) \subseteq s
    <3>1. \A x \in S : x \in Int
      OBVIOUS
    <3>2. ASSUME NEW x \in S, x >= z PROVE x >= y
      BY <3>1, <3>2, <1>7
    <3> QED
      BY <3>2, <1>6
  <2> QED
    BY <2>1, <2>2, <2>3, <1>5
<1>8. y \in S /\ \A z \in S : y >= z
  BY <1>7
<1> QED
  BY <1>8 DEF Max

(* What holds of 0, and of each number up to n with the one before, is true of n. *)
LEMMA UpTo ==
  ASSUME NEW n \in Nat, NEW S, 0 \in S, \A k \in 0..n - 1 : k \in S => k + 1 \in S
  PROVE  n \in S
<1> SUFFICES ASSUME n \notin S PROVE FALSE
  OBVIOUS
<1> DEFINE T == {0..k : k \in {i \in 0..n : i \notin S}}
<1>1. PICK N : N = 0..n
  OBVIOUS
<1>2. T \in SUBSET (SUBSET N) /\ T # {}
  BY <1>1
<1>3. \A k \in 0..n : k \notin S => 0..k \in T
  OBVIOUS
<1>4. \A s \in T : \E k \in 0..n : s = 0..k /\ k \notin S
  OBVIOUS
<1>5. IsFiniteSet(N)
  BY <1>1, FS_Interval
<1> HIDE DEF T
<1>6. PICK s \in T : \A r \in T : r \subseteq s => r = s
  BY <1>2, <1>5, SmallestSet
<1>7. PICK k \in 0..n : s = 0..k /\ k \notin S
  BY <1>4
<1>8. k - 1 \in 0..n - 1 /\ k - 1 \notin S /\ k - 1 \in 0..n
  BY <1>7
<1>9. 0..k - 1 \in T
  BY <1>3, <1>8
<1>10. 0..k - 1 \subseteq s /\ k \in s /\ k \notin 0..k - 1
  BY <1>7
<1> QED
  BY <1>6, <1>9, <1>10

LEMMA IntervalFinite ==
  ASSUME NEW a \in Int, NEW b \in Int
  PROVE  IsFiniteSet(a..b)
  BY FS_Interval

\* Sums over the first numbers
LEMMA SumUpTo ==
  ASSUME NEW n \in Nat, NEW f, \A i \in 1..n + 1 : f[i] \in Int
  PROVE  /\ SumOver(f, 1..n) \in Int
         /\ SumOver(f, 1..n + 1) = SumOver(f, 1..n) + f[n + 1]
<1>1. PICK N : N = 1..n + 1
  OBVIOUS
<1>2. IsFiniteSet(N) /\ n + 1 \in N /\ N \ {n + 1} = 1..n /\ \A i \in N : f[i] \in Int
  BY <1>1, IntervalFinite
<1>3. SumOver(f, N) = f[n + 1] + SumOver(f, N \ {n + 1}) /\ SumOver(f, N \ {n + 1}) \in Int
  BY <1>2, SumWithout
<1>4. SumOver(f, 1..n + 1) = f[n + 1] + SumOver(f, 1..n) /\ SumOver(f, 1..n) \in Int
  BY <1>1, <1>2, <1>3
<1>5. PICK a \in Int, b \in Int : a = f[n + 1] /\ b = SumOver(f, 1..n)
  BY <1>4
<1> QED
  BY <1>4, <1>5

\* The same values further on
LEMMA SumShift ==
  ASSUME NEW n \in Nat, NEW c \in Nat, NEW f, NEW g,
         \A i \in 1..n : f[i] \in Int /\ g[c + i] = f[i]
  PROVE  SumOver(f, 1..n) = SumOver(g, c + 1..c + n)
<1> DEFINE S == {k \in 0..n : SumOver(f, 1..k) = SumOver(g, c + 1..c + k)}
<1>1. 0 \in S
  <2>1. 1..0 = {} /\ c + 1..c + 0 = {}
    OBVIOUS
  <2> QED
    BY <2>1, SumEmpty
<1>2. ASSUME NEW k \in 0..n - 1, k \in S PROVE k + 1 \in S
  <2>1. \A i \in 1..k + 1 : f[i] \in Int
    OBVIOUS
  <2>2. /\ SumOver(f, 1..k) \in Int
        /\ SumOver(f, 1..k + 1) = SumOver(f, 1..k) + f[k + 1]
    BY <2>1, SumUpTo
  <2>3. PICK N : N = c + 1..c + (k + 1)
    OBVIOUS
  <2>4. /\ IsFiniteSet(N)
        /\ c + (k + 1) \in N
        /\ N \ {c + (k + 1)} = c + 1..c + k
    BY <2>3, IntervalFinite
  <2>5. \A j \in N : g[j] \in Int
    <3> SUFFICES ASSUME NEW j \in N PROVE g[j] \in Int
      OBVIOUS
    <3>1. j - c \in 1..n /\ c + (j - c) = j
      BY <2>3
    <3> QED
      BY <3>1
  <2>6. SumOver(g, N) = g[c + (k + 1)] + SumOver(g, c + 1..c + k)
    BY <2>4, <2>5, SumWithout
  <2>7. k + 1 \in 1..n /\ k + 1 \in 0..n
    OBVIOUS
  <2>8. g[c + (k + 1)] = f[k + 1] /\ f[k + 1] \in Int
    BY <2>7
  <2>9. SumOver(f, 1..k) = SumOver(g, c + 1..c + k)
    BY <1>2
  <2>10. SumOver(f, 1..k + 1) = SumOver(g, c + 1..c + (k + 1))
    BY <2>2, <2>3, <2>6, <2>8, <2>9
  <2> QED
    BY <2>7, <2>10
<1> HIDE DEF S
<1>3. n \in S
  BY <1>1, <1>2, UpTo
<1> QED
  BY <1>3 DEF S

-----------------------------------------------------------------------------
(* Rounds                                                                  *)

LEMMA Divided ==
  ASSUME NEW h \in Nat
  PROVE  \E k \in Nat, r \in 0..D - 1 : h \div D = k /\ h % D = r /\ h = k * D + r
<1>1. D \in Nat \ {0, 1}
  BY RoundsAssumption
<1> QED
  BY <1>1

\* How often D goes into a number is told by the multiples of D around it.
LEMMA DividedOnce ==
  ASSUME NEW h \in Nat, NEW k \in Nat, NEW r \in 0..D - 1, h = k * D + r
  PROVE  h \div D = k /\ h % D = r
<1>1. D \in Nat \ {0, 1}
  BY RoundsAssumption
<1>2. PICK j \in Nat, q \in 0..D - 1 : h \div D = j /\ h % D = q /\ h = j * D + q
  BY Divided
<1>3. (k - j) * D = q - r
  BY <1>1, <1>2
<1>4. k = j
  <2>1. PICK m \in Int : m = k - j
    OBVIOUS
  <2>2. PICK p \in Int : p = m * D
    BY <1>1, <2>1
  <2>3. p < D /\ p > -D
    BY <1>1, <1>2, <1>3, <2>1, <2>2
  <2>4. m >= 1 => p >= D
    BY <1>1, <2>1, <2>2
  <2>5. m <= -1 => p <= -D
    BY <1>1, <2>1, <2>2
  <2>6. m = 0
    BY <1>1, <2>3, <2>4, <2>5
  <2> QED
    BY <2>1, <2>6
<1> QED
  BY <1>1, <1>2, <1>4

LEMMA CalcIs ==
  ASSUME NEW h \in Nat \ {0}
  PROVE  \E k \in Nat, r \in 1..D : Calc(h) = k + 1 /\ h = k * D + r
<1>1. D \in Nat \ {0, 1}
  BY RoundsAssumption
<1>2. PICK k \in Nat, r \in 0..D - 1 :
        (h + D - 1) \div D = k /\ h + D - 1 = k * D + r
  BY <1>1, Divided
<1>3. k # 0
  BY <1>1, <1>2
<1>4. k - 1 \in Nat /\ (k - 1) * D = k * D - D
  BY <1>1, <1>3
<1>5. r + 1 \in 1..D /\ h = (k - 1) * D + (r + 1)
  BY <1>1, <1>2, <1>4
<1> QED
  BY <1>2, <1>4, <1>5 DEF Calc

LEMMA CalcOnce ==
  ASSUME NEW h \in Nat \ {0}, NEW k \in Nat, NEW r \in 1..D, h = k * D + r
  PROVE  Calc(h) = k + 1
<1>1. D \in Nat \ {0, 1}
  BY RoundsAssumption
<1>2. k + 1 \in Nat /\ r - 1 \in 0..D - 1 /\ h + D - 1 \in Nat
  BY <1>1
<1>3. h + D - 1 = (k + 1) * D + (r - 1)
  BY <1>1
<1> QED
  BY <1>2, <1>3, DividedOnce DEF Calc

\* The last block of a round, and the others
LEMMA RoundEnds ==
  ASSUME NEW h \in Nat \ {0}
  PROVE  /\ Calc(h) \in Nat \ {0}
         /\ h % D = 0 => Calc(h + 1) = Calc(h) + 1 /\ h = (Calc(h) - 1) * D + D
         /\ h % D # 0 => Calc(h + 1) = Calc(h)
         /\ h % D = 0 <=> h = (h \div D) * D
<1>1. D \in Nat \ {0, 1}
  BY RoundsAssumption
<1>2. PICK k \in Nat, r \in 1..D : Calc(h) = k + 1 /\ h = k * D + r
  BY CalcIs
<1>3. CASE r = D
  <2>1. h = (k + 1) * D + 0 /\ k + 1 \in Nat /\ 0 \in 0..D - 1
    BY <1>1, <1>2, <1>3
  <2>2. h \div D = k + 1 /\ h % D = 0
    BY <2>1, DividedOnce
  <2>3. h + 1 = (k + 1) * D + 1 /\ 1 \in 1..D
    BY <1>1, <2>1
  <2>4. Calc(h + 1) = k + 2
    BY <2>1, <2>3, CalcOnce
  <2> QED
    BY <1>1, <1>2, <1>3, <2>1, <2>2, <2>4
<1>4. CASE r # D
  <2>1. r \in 0..D - 1 /\ r + 1 \in 1..D
    BY <1>1, <1>4
  <2>2. h \div D = k /\ h % D = r
    BY <1>2, <2>1, DividedOnce
  <2>3. Calc(h + 1) = k + 1
    BY <1>1, <1>2, <2>1, CalcOnce
  <2> QED
    BY <1>1, <1>2, <2>1, <2>2, <2>3
<1> QED
  BY <1>3, <1>4

LEMMA CalcGrows ==
  ASSUME NEW h \in Nat \ {0}, NEW i \in Nat \ {0}, h <= i
  PROVE  Calc(h) <= Calc(i)
<1>1. D \in Nat \ {0, 1}
  BY RoundsAssumption
<1>2. PICK k \in Nat, r \in 1..D : Calc(h) = k + 1 /\ h = k * D + r
  BY CalcIs
<1>3. PICK j \in Nat, q \in 1..D : Calc(i) = j + 1 /\ i = j * D + q
  BY CalcIs
<1>4. ASSUME k > j PROVE FALSE
  <2>1. PICK m \in Nat \ {0} : k = j + m
    BY <1>4
  <2>2. k * D = j * D + m * D /\ m * D >= D
    BY <1>1, <2>1
  <2> QED
    BY <1>1, <1>2, <1>3, <2>2
<1> QED
  BY <1>2, <1>3, <1>4

LEMMA RoundsOfChain ==
  ASSUME NEW h \in 1..MaxHeight + 1
  PROVE  Calc(h) \in 1..MaxRound
<1>1. MaxHeight \in Nat
  BY RoundsAssumption
<1>2. h \in Nat \ {0} /\ MaxHeight + 1 \in Nat \ {0} /\ h <= MaxHeight + 1
  BY <1>1
<1>3. Calc(h) <= Calc(MaxHeight + 1) /\ Calc(h) \in Nat \ {0} /\ Calc(MaxHeight + 1) \in Nat
  BY <1>2, CalcGrows, RoundEnds
<1> QED
  BY <1>3 DEF MaxRound

\* After the first block, a round ends at the multiples of D.
LEMMA FinishIs ==
  ASSUME NEW h \in 2..MaxHeight
  PROVE  /\ FinishRound(h) <=> h % D = 0
         /\ FinishRoundBackward(h) <=> h % D = 0
<1>1. D \in Nat \ {0, 1} /\ MaxHeight \in Nat /\ (D = 101 \/ MaxHeight < 101)
  BY RoundsAssumption
<1>2. h \in Nat \ {0} /\ h - 1 \in Nat \ {0}
  BY <1>1
<1>3. h = 101 => h % D = 0
  BY <1>1
<1>4. /\ Calc(h) \in Nat
      /\ h % D = 0 => Calc(h + 1) = Calc(h) + 1
      /\ h % D # 0 => Calc(h + 1) = Calc(h)
  BY <1>2, RoundEnds
<1>5. h % D = 0 => Calc(h - 1) = Calc(h)
  <2> SUFFICES ASSUME h % D = 0 PROVE Calc(h - 1) = Calc(h)
    OBVIOUS
  <2>1. PICK k \in Nat : Calc(h) = k + 1 /\ h = k * D + D
    <3>1. PICK c \in Nat \ {0} : c = Calc(h) /\ h = (c - 1) * D + D
      BY <1>2, RoundEnds
    <3>2. c - 1 \in Nat /\ c = (c - 1) + 1
      OBVIOUS
    <3> QED
      BY <3>1, <3>2
  <2>2. h - 1 = k * D + (D - 1) /\ D - 1 \in 1..D
    BY <1>1, <2>1
  <2> QED
    BY <1>2, <2>1, <2>2, CalcOnce
<1> QED
  BY <1>1, <1>3, <1>4, <1>5 DEF FinishRound, FinishRoundBackward

-----------------------------------------------------------------------------
(* What a merge does                                                       *)

Ledgers ==
  [balance  : [Account -> Int],
   voted    : [Account -> [Delegate -> Nat]],
   vote     : [Delegate -> Int],
   mem      : [1..MaxRound -> [Delegate -> Int]],
   produced : [Delegate -> Int],
   missed   : [Delegate -> Int]]

\* What the accounts hold
Total(l) == SumOver(l.balance, Account)

\* The votes of a delegate that have landed and those that wait, and the money
\* of its voters
Cast(l, d) == l.vote[d] + SumOver([r \in 1..MaxRound |-> l.mem[r][d]], 1..MaxRound)
Held(l, d) == SumOver([a \in Account |-> l.balance[a] * l.voted[a][d]], Account)
Matched(l) == \A d \in Delegate : Cast(l, d) = Held(l, d)

LEMMA Products ==
  ASSUME NEW x \in Int, NEW y \in Int, NEW z \in Int
  PROVE  x * y \in Int /\ (x + z) * y = x * y + z * y /\ x * (y + z) = x * y + x * z
  OBVIOUS

LEMMA MaxRoundNat == MaxRound \in Nat \ {0} /\ MaxHeight \in Nat \ {0} /\ D \in Nat \ {0, 1}
<1>1. MaxHeight \in Nat \ {0} /\ D \in Nat \ {0, 1}
  BY RoundsAssumption
<1>2. MaxHeight + 1 \in Nat \ {0}
  BY <1>1
<1> QED
  BY <1>1, <1>2, RoundEnds DEF MaxRound

LEMMA LedgerValues ==
  ASSUME NEW l \in Ledgers
  PROVE  /\ \A a \in Account : l.balance[a] \in Int
         /\ \A a \in Account, d \in Delegate : l.voted[a][d] \in Nat /\ l.voted[a][d] \in Int
         /\ \A d \in Delegate : l.vote[d] \in Int
         /\ \A r \in 1..MaxRound, d \in Delegate : l.mem[r][d] \in Int
<1>1. /\ l.balance \in [Account -> Int]
      /\ l.voted \in [Account -> [Delegate -> Nat]]
      /\ l.vote \in [Delegate -> Int]
      /\ l.mem \in [1..MaxRound -> [Delegate -> Int]]
  BY DEF Ledgers
<1>2. \A a \in Account, d \in Delegate : l.voted[a][d] \in Nat /\ l.voted[a][d] \in Int
  BY <1>1
<1>3. \A r \in 1..MaxRound, d \in Delegate : l.mem[r][d] \in Int
  BY <1>1
<1> QED
  BY <1>1, <1>2, <1>3

LEMMA BalanceMerged ==
  ASSUME NEW l \in Ledgers, NEW a \in Account, NEW amount \in Int, NEW round \in 1..MaxRound,
         NEW m, m = MergeBalance(l, a, amount, round)
  PROVE  /\ m \in Ledgers
         /\ m.balance = [l.balance EXCEPT ![a] = @ + amount]
         /\ \A c \in Account : m.balance[c] = l.balance[c] + (IF c = a THEN amount ELSE 0)
         /\ m.voted = l.voted /\ m.vote = l.vote /\ m.produced = l.produced /\ m.missed = l.missed
         /\ \A q \in 1..MaxRound : q # round => m.mem[q] = l.mem[q]
         /\ \A d \in Delegate : m.mem[round][d] = l.mem[round][d] + amount * l.voted[a][d]
<1> DEFINE row == [d \in Delegate |-> l.mem[round][d] + amount * l.voted[a][d]]
<1>1. \A d \in Delegate : l.mem[round][d] \in Int /\ l.voted[a][d] \in Int
  BY LedgerValues
<1>2. \A d \in Delegate : amount * l.voted[a][d] \in Int
  BY <1>1, Products
<1>3. row \in [Delegate -> Int] /\ \A d \in Delegate : row[d] = l.mem[round][d] + amount * l.voted[a][d]
  BY <1>1, <1>2
<1>4. l.balance \in [Account -> Int] /\ l.mem \in [1..MaxRound -> [Delegate -> Int]]
  BY DEF Ledgers
<1>5. m = [l EXCEPT !.balance = [l.balance EXCEPT ![a] = @ + amount],
                    !.mem = [l.mem EXCEPT ![round] = row]]
  BY DEF MergeBalance
<1> HIDE DEF row
<1>7. l.balance[a] + amount \in Int
  BY LedgerValues
<1>6. /\ [l.balance EXCEPT ![a] = @ + amount] \in [Account -> Int]
      /\ [l.mem EXCEPT ![round] = row] \in [1..MaxRound -> [Delegate -> Int]]
      /\ [l.mem EXCEPT ![round] = row][round] = row
      /\ \A q \in 1..MaxRound : q # round => [l.mem EXCEPT ![round] = row][q] = l.mem[q]
  BY <1>3, <1>4, <1>7
<1>8. m.balance = [l.balance EXCEPT ![a] = @ + amount]
  BY <1>5 DEF Ledgers
<1>9. \A c \in Account : m.balance[c] = l.balance[c] + (IF c = a THEN amount ELSE 0)
  BY <1>4, <1>8
<1>10. m \in Ledgers
  BY <1>5, <1>6 DEF Ledgers
<1> QED
  BY <1>3, <1>5, <1>6, <1>8, <1>9, <1>10 DEF Ledgers

\* A vote that fits: a delegate is added once, and removed once.
Fits(l, a, v) == l.voted[a][v.delegate] = IF v.action = "+" THEN 0 ELSE 1
Votes == [action : {"+", "-"}, delegate : Delegate]

LEMMA VoteMerged ==
  ASSUME NEW l \in Ledgers, NEW a \in Account, NEW v \in Votes, NEW round \in 1..MaxRound,
         NEW m, m = MergeVote(l, a, v, round)
  PROVE  /\ m \in Ledgers
         /\ m.balance = l.balance /\ m.vote = l.vote /\ m.produced = l.produced
         /\ m.missed = l.missed
         /\ \A b \in Account, d \in Delegate :
              (b # a \/ d # v.delegate) => m.voted[b][d] = l.voted[b][d]
         /\ m.voted[a][v.delegate] = IF v.action = "+" THEN l.voted[a][v.delegate] + 1 ELSE 0
         /\ \A q \in 1..MaxRound, d \in Delegate :
              (q # round \/ d # v.delegate) => m.mem[q][d] = l.mem[q][d]
         /\ \A q \in 1..MaxRound : q # round => m.mem[q] = l.mem[q]
         /\ m.mem[round][v.delegate] =
              IF v.action = "+" THEN l.mem[round][v.delegate] + l.balance[a]
                                ELSE l.mem[round][v.delegate] - l.balance[a]
<1>1. v.delegate \in Delegate /\ v.action \in {"+", "-"}
  BY DEF Votes
<1>2. /\ l.balance \in [Account -> Int] /\ l.mem \in [1..MaxRound -> [Delegate -> Int]]
      /\ l.voted \in [Account -> [Delegate -> Nat]]
  BY DEF Ledgers
<1>3. PICK n \in Nat, r \in Int :
        /\ n = IF v.action = "+" THEN l.voted[a][v.delegate] + 1 ELSE 0
        /\ r = IF v.action = "+" THEN l.mem[round][v.delegate] + l.balance[a]
                                 ELSE l.mem[round][v.delegate] - l.balance[a]
  <2>1. /\ l.voted[a][v.delegate] \in Nat /\ l.mem[round][v.delegate] \in Int
        /\ l.balance[a] \in Int
    BY <1>1, <1>2
  <2> QED
    BY <2>1
<1> DEFINE voted == [l.voted EXCEPT ![a] = [l.voted[a] EXCEPT ![v.delegate] = n]]
           mem == [l.mem EXCEPT ![round] = [l.mem[round] EXCEPT ![v.delegate] = r]]
<1>4. m = [l EXCEPT !.voted = voted, !.mem = mem]
  BY <1>1, <1>3 DEF MergeVote
<1>5. /\ voted \in [Account -> [Delegate -> Nat]]
      /\ voted[a][v.delegate] = n
      /\ \A b \in Account, d \in Delegate :
           (b # a \/ d # v.delegate) => voted[b][d] = l.voted[b][d]
  BY <1>1, <1>2
<1>6. /\ mem \in [1..MaxRound -> [Delegate -> Int]]
      /\ mem[round][v.delegate] = r
      /\ \A q \in 1..MaxRound : q # round => mem[q] = l.mem[q]
      /\ \A q \in 1..MaxRound, d \in Delegate :
           (q # round \/ d # v.delegate) => mem[q][d] = l.mem[q][d]
  BY <1>1, <1>2
<1> HIDE DEF voted, mem
<1>7. m \in Ledgers /\ m.voted = voted /\ m.mem = mem /\ m.balance = l.balance
      /\ m.vote = l.vote /\ m.produced = l.produced /\ m.missed = l.missed
  BY <1>4, <1>5, <1>6 DEF Ledgers
<1> QED
  BY <1>3, <1>5, <1>6, <1>7

\* Money that comes to an account or goes
LEMMA TotalMerged ==
  ASSUME NEW l \in Ledgers, NEW m \in Ledgers, NEW a \in Account, NEW amount \in Int,
         m.balance = [l.balance EXCEPT ![a] = @ + amount]
  PROVE  Total(m) = Total(l) + amount /\ Total(l) \in Int
<1>1. \A x \in Account : l.balance[x] \in Int /\ m.balance[x] \in Int
  BY DEF Ledgers
<1>2. /\ m.balance[a] = l.balance[a] + amount
      /\ \A x \in Account : x # a => m.balance[x] = l.balance[x]
  BY DEF Ledgers
<1>3. IsFiniteSet(Account)
  BY RoundsAssumption
<1>4. Total(m) = Total(l) + (m.balance[a] - l.balance[a])
  <2> DEFINE f == l.balance
             g == m.balance
  <2>1. \A x \in Account : f[x] \in Int /\ g[x] \in Int
    BY <1>1
  <2>2. \A x \in Account : x # a => g[x] = f[x]
    BY <1>2
  <2>3. Total(m) = SumOver(g, Account) /\ Total(l) = SumOver(f, Account)
    BY DEF Total
  <2>4. f[a] = l.balance[a] /\ g[a] = m.balance[a]
    OBVIOUS
  <2> HIDE DEF f, g
  <2>5. SumOver(g, Account) = SumOver(f, Account) + (g[a] - f[a])
    BY <1>3, <2>1, <2>2, SumChange
  <2> QED
    BY <2>3, <2>4, <2>5
<1>5. Total(l) \in Int
  BY <1>1, <1>3, SumInt DEF Total
<1>6. m.balance[a] - l.balance[a] = amount
  BY <1>1, <1>2
<1> QED
  BY <1>4, <1>5, <1>6

\* The two sides of Matched, where one row and one term of the other side change
LEMMA CastChanges ==
  ASSUME NEW l \in Ledgers, NEW m \in Ledgers, NEW round \in 1..MaxRound, NEW d \in Delegate,
         \A q \in 1..MaxRound : q # round => m.mem[q][d] = l.mem[q][d]
  PROVE  /\ Cast(m, d) - m.vote[d] = Cast(l, d) - l.vote[d] + (m.mem[round][d] - l.mem[round][d])
         /\ Cast(l, d) \in Int /\ Cast(m, d) \in Int
<1>1. PICK R, f, g, y :
        /\ R = 1..MaxRound /\ y = round
        /\ f = [r \in R |-> l.mem[r][d]] /\ g = [r \in R |-> m.mem[r][d]]
  OBVIOUS
<1>2. IsFiniteSet(R) /\ y \in R
  BY <1>1, MaxRoundNat, IntervalFinite
<1>3. \A x \in R : f[x] \in Int /\ g[x] \in Int
  BY <1>1, LedgerValues
<1>4. \A x \in R : x # y => g[x] = f[x]
  BY <1>1
<1>5. Cast(l, d) = l.vote[d] + SumOver(f, R) /\ Cast(m, d) = m.vote[d] + SumOver(g, R)
  BY <1>1 DEF Cast
<1>6. SumOver(g, R) = SumOver(f, R) + (g[y] - f[y])
  BY <1>2, <1>3, <1>4, SumChange
<1>7. SumOver(f, R) \in Int
  BY <1>2, <1>3, SumInt
<1>8. l.vote[d] \in Int /\ m.vote[d] \in Int
  BY LedgerValues
<1>9. f[y] \in Int /\ g[y] \in Int
  BY <1>2, <1>3
<1>10. PICK s \in Int, x \in Int, z \in Int, vl \in Int, vm \in Int :
         s = SumOver(f, R) /\ x = f[y] /\ z = g[y] /\ vl = l.vote[d] /\ vm = m.vote[d]
  BY <1>7, <1>8, <1>9
<1>11. Cast(l, d) = vl + s /\ Cast(m, d) = vm + (s + (z - x))
  BY <1>5, <1>6, <1>10
<1>12. m.mem[round][d] - l.mem[round][d] = z - x
  BY <1>1, <1>10
<1> QED
  BY <1>10, <1>11, <1>12

LEMMA HeldChanges ==
  ASSUME NEW l \in Ledgers, NEW m \in Ledgers, NEW a \in Account, NEW d \in Delegate,
         \A b \in Account : b # a => m.balance[b] = l.balance[b] /\ m.voted[b][d] = l.voted[b][d]
  PROVE  /\ Held(m, d) = Held(l, d) + (m.balance[a] * m.voted[a][d] - l.balance[a] * l.voted[a][d])
         /\ Held(l, d) \in Int
<1> DEFINE f == [b \in Account |-> l.balance[b] * l.voted[b][d]]
           g == [b \in Account |-> m.balance[b] * m.voted[b][d]]
<1>1. IsFiniteSet(Account)
  BY RoundsAssumption
<1>2. \A b \in Account : /\ l.balance[b] \in Int /\ m.balance[b] \in Int
                         /\ l.voted[b][d] \in Int /\ m.voted[b][d] \in Int
  BY DEF Ledgers
<1>3. \A b \in Account : f[b] = l.balance[b] * l.voted[b][d] /\ g[b] = m.balance[b] * m.voted[b][d]
  OBVIOUS
<1>4. Held(l, d) = SumOver(f, Account) /\ Held(m, d) = SumOver(g, Account)
  BY DEF Held
<1> HIDE DEF f, g
<1>5. \A b \in Account : f[b] \in Int /\ g[b] \in Int
  BY <1>2, <1>3, Products
<1>6. \A b \in Account : b # a => g[b] = f[b]
  BY <1>3
<1>7. SumOver(g, Account) = SumOver(f, Account) + (g[a] - f[a])
  BY <1>1, <1>5, <1>6, SumChange
<1>8. SumOver(f, Account) \in Int
  BY <1>1, <1>5, SumInt
<1> QED
  BY <1>3, <1>4, <1>7, <1>8

LEMMA MatchedMerged ==
  ASSUME NEW l \in Ledgers, NEW a \in Account, NEW amount \in Int, NEW round \in 1..MaxRound,
         NEW m, m = MergeBalance(l, a, amount, round), Matched(l)
  PROVE  Matched(m)
<1> SUFFICES ASSUME NEW d \in Delegate PROVE Cast(m, d) = Held(m, d)
  BY DEF Matched
<1>1. /\ m \in Ledgers
      /\ m.balance = [l.balance EXCEPT ![a] = @ + amount]
      /\ m.voted = l.voted /\ m.vote = l.vote
      /\ \A q \in 1..MaxRound : q # round => m.mem[q] = l.mem[q]
      /\ m.mem[round][d] = l.mem[round][d] + amount * l.voted[a][d]
  BY BalanceMerged
<1>2. /\ Cast(m, d) - m.vote[d] = Cast(l, d) - l.vote[d] + (m.mem[round][d] - l.mem[round][d])
      /\ Cast(l, d) \in Int /\ Cast(m, d) \in Int
  BY <1>1, CastChanges
<1>3. /\ m.balance[a] = l.balance[a] + amount
      /\ \A x \in Account : x # a => m.balance[x] = l.balance[x]
  BY <1>1 DEF Ledgers
<1>4. /\ Held(m, d) = Held(l, d) + (m.balance[a] * m.voted[a][d] - l.balance[a] * l.voted[a][d])
      /\ Held(l, d) \in Int
  <2>1. \A b \in Account : b # a => m.balance[b] = l.balance[b] /\ m.voted[b][d] = l.voted[b][d]
    BY <1>1, <1>3
  <2>2. m \in Ledgers
    BY <1>1
  <2> QED
    BY <2>1, <2>2, HeldChanges
<1>5. PICK b \in Int, v \in Int, x \in Int, w \in Int :
        b = l.balance[a] /\ v = l.voted[a][d] /\ x = l.mem[round][d] /\ w = l.vote[d]
  BY LedgerValues
<1>6. PICK p \in Int, q \in Int : p = b * v /\ q = amount * v /\ (b + amount) * v = p + q
  <2>1. b \in Int /\ v \in Int /\ amount \in Int
    BY <1>5
  <2>2. b * v \in Int /\ amount * v \in Int /\ (b + amount) * v = b * v + amount * v
    BY <2>1, Products
  <2> QED
    BY <2>2, Zenon
<1>7. Held(m, d) = Held(l, d) + ((p + q) - p)
  BY <1>1, <1>3, <1>4, <1>5, <1>6
<1>8. Cast(m, d) - w = Cast(l, d) - w + ((x + q) - x)
  BY <1>1, <1>2, <1>5, <1>6
<1>9. Cast(l, d) = Held(l, d)
  BY DEF Matched
<1>10. PICK h \in Int, c \in Int : h = Held(l, d) /\ c = Cast(m, d)
  BY <1>2, <1>4
<1>11. c - w = h - w + ((x + q) - x) /\ Held(m, d) = h + ((p + q) - p)
  BY <1>7, <1>8, <1>9, <1>10
<1>12. c = h + q /\ Held(m, d) = h + q
  BY <1>11
<1> QED
  BY <1>10, <1>12

LEMMA MatchedVoted ==
  ASSUME NEW l \in Ledgers, NEW a \in Account, NEW v \in Votes, NEW round \in 1..MaxRound,
         NEW m, m = MergeVote(l, a, v, round), Matched(l), Fits(l, a, v)
  PROVE  Matched(m)
<1> SUFFICES ASSUME NEW d \in Delegate PROVE Cast(m, d) = Held(m, d)
  BY DEF Matched
<1>1. /\ m \in Ledgers
      /\ m.balance = l.balance /\ m.vote = l.vote
      /\ \A b \in Account, e \in Delegate :
           (b # a \/ e # v.delegate) => m.voted[b][e] = l.voted[b][e]
      /\ m.voted[a][v.delegate] = IF v.action = "+" THEN l.voted[a][v.delegate] + 1 ELSE 0
      /\ \A q \in 1..MaxRound, e \in Delegate :
           (q # round \/ e # v.delegate) => m.mem[q][e] = l.mem[q][e]
      /\ m.mem[round][v.delegate] =
           IF v.action = "+" THEN l.mem[round][v.delegate] + l.balance[a]
                             ELSE l.mem[round][v.delegate] - l.balance[a]
  BY VoteMerged
<1>2. /\ Cast(m, d) - m.vote[d] = Cast(l, d) - l.vote[d] + (m.mem[round][d] - l.mem[round][d])
      /\ Cast(l, d) \in Int /\ Cast(m, d) \in Int
  BY <1>1, CastChanges
<1>4. /\ Held(m, d) = Held(l, d) + (m.balance[a] * m.voted[a][d] - l.balance[a] * l.voted[a][d])
      /\ Held(l, d) \in Int
  <2>1. \A b \in Account : b # a => m.balance[b] = l.balance[b] /\ m.voted[b][d] = l.voted[b][d]
    BY <1>1
  <2> QED
    BY <1>1, <2>1, HeldChanges
<1>5. PICK b \in Int, x \in Int, y \in Int, w \in Int, s \in Int, c \in Int :
        /\ b = l.balance[a] /\ w = l.vote[d] /\ s = Cast(l, d) /\ c = Cast(m, d)
        /\ x = l.mem[round][d] /\ y = m.mem[round][d]
  BY <1>1, <1>2, LedgerValues
<1>6. PICK n \in Int, k \in Int : n = l.voted[a][d] /\ k = m.voted[a][d]
  BY <1>1, LedgerValues
<1>7. PICK p \in Int, q \in Int : p = b * n /\ q = b * k
  BY Products
<1>8. q - p = y - x
  <2>1. CASE d # v.delegate
    <3>1. n = k /\ x = y
      BY <1>1, <1>5, <1>6, <2>1
    <3> QED
      BY <1>7, <3>1
  <2>2. CASE d = v.delegate /\ v.action = "+"
    <3>1. n = 0 /\ k = 1 /\ y = x + b
      BY <1>1, <1>5, <1>6, <2>2 DEF Fits
    <3> QED
      BY <1>7, <3>1
  <2>3. CASE d = v.delegate /\ v.action # "+"
    <3>1. n = 1 /\ k = 0 /\ y = x - b
      BY <1>1, <1>5, <1>6, <2>3 DEF Fits
    <3> QED
      BY <1>7, <3>1
  <2> QED
    BY <2>1, <2>2, <2>3
<1>9. c - w = s - w + (y - x) /\ Held(l, d) = s
  BY <1>1, <1>2, <1>5 DEF Matched
<1>10. Held(m, d) = s + (q - p)
  BY <1>1, <1>4, <1>5, <1>6, <1>7, <1>9
<1>11. c = s + (q - p)
  BY <1>8, <1>9
<1> QED
  BY <1>5, <1>10, <1>11

-----------------------------------------------------------------------------
(* What a transaction does, and what its undo does                         *)

LEMMA Kinds ==
  ASSUME NEW t \in TransactionTypes
  PROVE  /\ t.kind \in {"none", "transfer", "vote"}
         /\ t.kind = "transfer" =>
              t.from \in Account /\ t.to \in Account /\ t.amount \in Nat /\ t.fee \in Nat
         /\ t.kind = "vote" => t.from \in Account /\ t.fee \in Nat /\ t.vote \in Votes
         /\ FeeOf(t) \in Nat
<1>1. CASE t = [kind |-> "none"]
  BY <1>1 DEF FeeOf
<1>2. CASE t \in [kind : {"transfer"}, from : Account, to : Account, amount : Nat, fee : Nat]
  BY <1>2 DEF FeeOf
<1>3. CASE t \in [kind : {"vote"}, from : Account, fee : Nat,
                  vote : [action : {"+", "-"}, delegate : Delegate]]
  BY <1>3 DEF FeeOf, Votes
<1> QED
  BY <1>1, <1>2, <1>3 DEF TransactionTypes

LEMMA OppositeVotes ==
  ASSUME NEW v \in Votes
  PROVE  /\ Opposite(v) \in Votes /\ Opposite(v).delegate = v.delegate
         /\ v.action = "+" => Opposite(v).action = "-"
         /\ v.action # "+" => Opposite(v).action = "+"
BY DEF Votes, Opposite, Plus, Minus

\* What the transaction gives to an account
Gain(t, a) ==
  CASE t.kind = "none" -> 0
    [] t.kind = "transfer" ->
         (IF a = t.from THEN -(t.amount + t.fee) ELSE 0) + (IF a = t.to THEN t.amount ELSE 0)
    [] t.kind = "vote" -> IF a = t.from THEN -t.fee ELSE 0

LEMMA GainInt ==
  ASSUME NEW t \in TransactionTypes, NEW a \in Account
  PROVE  Gain(t, a) \in Int
BY Kinds DEF Gain

\* What the transaction does to the lists of delegates, if its vote fits
FitsIn(voted, t) ==
  t.kind = "vote" => voted[t.from][t.vote.delegate] = IF t.vote.action = "+" THEN 0 ELSE 1
VotedAfter(voted, t) ==
  IF t.kind = "vote"
  THEN [voted EXCEPT ![t.from][t.vote.delegate] = IF t.vote.action = "+" THEN 1 ELSE 0]
  ELSE voted

\* Two tables of voters, or of rows, with the same entries
LEMMA SameTable ==
  ASSUME NEW S, NEW T, NEW V, NEW v \in [S -> [T -> V]], NEW w \in [S -> [T -> V]],
         \A a \in S, d \in T : v[a][d] = w[a][d]
  PROVE  v = w
<1>1. \A a \in S : v[a] = w[a]
  OBVIOUS
<1> QED
  BY <1>1

LEMMA SameVoted ==
  ASSUME NEW l \in Ledgers, NEW m \in Ledgers,
         \A a \in Account, d \in Delegate : l.voted[a][d] = m.voted[a][d]
  PROVE  l.voted = m.voted
<1>1. PICK v, w : v = l.voted /\ w = m.voted
  OBVIOUS
<1>2. v \in [Account -> [Delegate -> Nat]] /\ w \in [Account -> [Delegate -> Nat]]
  BY <1>1 DEF Ledgers
<1>3. \A a \in Account, d \in Delegate : v[a][d] = w[a][d]
  BY <1>1
<1>4. v = w
  BY <1>2, <1>3, SameTable
<1> QED
  BY <1>1, <1>4

LEMMA SameMem ==
  ASSUME NEW l \in Ledgers, NEW m \in Ledgers,
         \A r \in 1..MaxRound, d \in Delegate : l.mem[r][d] = m.mem[r][d]
  PROVE  l.mem = m.mem
<1>1. PICK v, w, R : v = l.mem /\ w = m.mem /\ R = 1..MaxRound
  OBVIOUS
<1>2. v \in [R -> [Delegate -> Int]] /\ w \in [R -> [Delegate -> Int]]
  BY <1>1 DEF Ledgers
<1>3. \A r \in R, d \in Delegate : v[r][d] = w[r][d]
  BY <1>1
<1>4. v = w
  BY <1>2, <1>3, SameTable
<1> QED
  BY <1>1, <1>4

LEMMA TransferMerged ==
  ASSUME NEW l \in Ledgers, NEW a \in Account, NEW b \in Account, NEW x \in Int, NEW y \in Int,
         NEW round \in 1..MaxRound, NEW m,
         m = MergeBalance(MergeBalance(l, a, x, round), b, y, round)
  PROVE  /\ m \in Ledgers
         /\ \A c \in Account :
              m.balance[c] = l.balance[c] + (IF c = a THEN x ELSE 0) + (IF c = b THEN y ELSE 0)
         /\ m.voted = l.voted /\ m.vote = l.vote /\ m.produced = l.produced /\ m.missed = l.missed
         /\ \A q \in 1..MaxRound : q # round => m.mem[q] = l.mem[q]
         /\ \A d \in Delegate :
              m.mem[round][d] = l.mem[round][d] + x * l.voted[a][d] + y * l.voted[b][d]
         /\ Total(m) = Total(l) + x + y
         /\ Matched(l) => Matched(m)
<1>1. PICK k : k = MergeBalance(l, a, x, round)
  OBVIOUS
<1>2. m = MergeBalance(k, b, y, round)
  BY <1>1
<1>3. /\ k \in Ledgers
      /\ k.balance = [l.balance EXCEPT ![a] = @ + x]
      /\ \A c \in Account : k.balance[c] = l.balance[c] + (IF c = a THEN x ELSE 0)
      /\ k.voted = l.voted /\ k.vote = l.vote /\ k.produced = l.produced /\ k.missed = l.missed
      /\ \A q \in 1..MaxRound : q # round => k.mem[q] = l.mem[q]
      /\ \A d \in Delegate : k.mem[round][d] = l.mem[round][d] + x * l.voted[a][d]
  BY <1>1, BalanceMerged
<1>4. /\ m \in Ledgers
      /\ m.balance = [k.balance EXCEPT ![b] = @ + y]
      /\ \A c \in Account : m.balance[c] = k.balance[c] + (IF c = b THEN y ELSE 0)
      /\ m.voted = k.voted /\ m.vote = k.vote /\ m.produced = k.produced /\ m.missed = k.missed
      /\ \A q \in 1..MaxRound : q # round => m.mem[q] = k.mem[q]
      /\ \A d \in Delegate : m.mem[round][d] = k.mem[round][d] + y * k.voted[b][d]
  <2>1. k \in Ledgers
    BY <1>3
  <2> QED
    BY ONLY <1>2, <2>1, BalanceMerged
<1>6. Total(k) = Total(l) + x /\ Total(m) = Total(k) + y /\ Total(l) \in Int
  <2>1. k \in Ledgers /\ k.balance = [l.balance EXCEPT ![a] = @ + x]
    BY <1>3
  <2>2. m \in Ledgers /\ m.balance = [k.balance EXCEPT ![b] = @ + y]
    BY <1>4
  <2>3. Total(k) = Total(l) + x /\ Total(l) \in Int
    BY ONLY l \in Ledgers, a \in Account, x \in Int, <2>1, TotalMerged
  <2>4. Total(m) = Total(k) + y
    BY ONLY b \in Account, y \in Int, <2>1, <2>2, TotalMerged
  <2> QED
    BY <2>3, <2>4
<1>7. Matched(l) => Matched(m)
  BY <1>1, <1>2, <1>3, MatchedMerged
<1>8. \A c \in Account :
        m.balance[c] = l.balance[c] + (IF c = a THEN x ELSE 0) + (IF c = b THEN y ELSE 0)
  BY <1>3, <1>4
<1>9. \A d \in Delegate :
        m.mem[round][d] = l.mem[round][d] + x * l.voted[a][d] + y * l.voted[b][d]
  BY <1>3, <1>4
<1>10. \A q \in 1..MaxRound : q # round => m.mem[q] = l.mem[q]
  BY <1>3, <1>4
<1>11. m.voted = l.voted /\ m.vote = l.vote /\ m.produced = l.produced /\ m.missed = l.missed
  BY <1>3, <1>4
<1>12. Total(m) = Total(l) + x + y
  BY <1>6
<1> QED
  BY <1>4, <1>7, <1>8, <1>9, <1>10, <1>11, <1>12

\* What a vote adds to the row of a delegate, where the voter has b
Waits(v, d, b) ==
  IF d = v.delegate THEN IF v.action = "+" THEN b ELSE -b ELSE 0

\* What a vote does to the tables: from l to m, where its sender a pays x
VotePays(l, a, x, v, round, m) ==
  /\ m \in Ledgers
  /\ \A c \in Account : m.balance[c] = l.balance[c] + (IF c = a THEN x ELSE 0)
  /\ m.vote = l.vote /\ m.produced = l.produced /\ m.missed = l.missed
  /\ \A c \in Account, d \in Delegate :
       (c # a \/ d # v.delegate) => m.voted[c][d] = l.voted[c][d]
  /\ m.voted[a][v.delegate] = IF v.action = "+" THEN l.voted[a][v.delegate] + 1 ELSE 0
  /\ \A q \in 1..MaxRound : q # round => m.mem[q] = l.mem[q]
  /\ \A d \in Delegate : m.mem[round][d] =
       (l.mem[round][d] + x * l.voted[a][d]) + Waits(v, d, l.balance[a] + x)
  /\ Total(m) = Total(l) + x
  /\ Matched(l) /\ Fits(l, a, v) => Matched(m)

LEMMA VotePaid ==
  ASSUME NEW l \in Ledgers, NEW a \in Account, NEW x \in Int, NEW v \in Votes,
         NEW round \in 1..MaxRound, NEW k, k = MergeBalance(l, a, x, round),
         NEW m, m = MergeVote(k, a, v, round)
  PROVE  VotePays(l, a, x, v, round, m)
<1>3. /\ k \in Ledgers
      /\ k.balance = [l.balance EXCEPT ![a] = @ + x]
      /\ \A c \in Account : k.balance[c] = l.balance[c] + (IF c = a THEN x ELSE 0)
      /\ k.voted = l.voted /\ k.vote = l.vote /\ k.produced = l.produced /\ k.missed = l.missed
      /\ \A q \in 1..MaxRound : q # round => k.mem[q] = l.mem[q]
      /\ \A d \in Delegate : k.mem[round][d] = l.mem[round][d] + x * l.voted[a][d]
  BY ONLY l \in Ledgers, a \in Account, x \in Int, round \in 1..MaxRound,
          k = MergeBalance(l, a, x, round), BalanceMerged
<1>4. /\ m \in Ledgers
      /\ m.balance = k.balance /\ m.vote = k.vote /\ m.produced = k.produced
      /\ m.missed = k.missed
      /\ \A b \in Account, d \in Delegate :
           (b # a \/ d # v.delegate) => m.voted[b][d] = k.voted[b][d]
      /\ m.voted[a][v.delegate] = IF v.action = "+" THEN k.voted[a][v.delegate] + 1 ELSE 0
      /\ \A q \in 1..MaxRound, d \in Delegate :
           (q # round \/ d # v.delegate) => m.mem[q][d] = k.mem[q][d]
      /\ \A q \in 1..MaxRound : q # round => m.mem[q] = k.mem[q]
      /\ m.mem[round][v.delegate] =
           IF v.action = "+" THEN k.mem[round][v.delegate] + k.balance[a]
                             ELSE k.mem[round][v.delegate] - k.balance[a]
  <2>1. k \in Ledgers
    BY <1>3
  <2> QED
    BY ONLY <2>1, a \in Account, v \in Votes, round \in 1..MaxRound,
            m = MergeVote(k, a, v, round), VoteMerged
<1>6. Total(k) = Total(l) + x /\ Total(m) = Total(k)
  BY <1>3, <1>4, TotalMerged DEF Total
<1>7. Matched(l) /\ Fits(l, a, v) => Matched(m)
  <2>1. Fits(l, a, v) => Fits(k, a, v)
    BY <1>3 DEF Fits
  <2>2. Matched(l) => Matched(k)
    BY MatchedMerged
  <2> QED
    BY <1>3, <2>1, <2>2, MatchedVoted
<1>8. v.delegate \in Delegate
  BY DEF Votes
<1>9. ASSUME NEW d \in Delegate
      PROVE  m.mem[round][d] = (l.mem[round][d] + x * l.voted[a][d]) + Waits(v, d, l.balance[a] + x)
  <2>1. PICK r \in Int, b \in Int : r = k.mem[round][d] /\ b = k.balance[a]
    BY <1>3, <1>8, LedgerValues
  <2>2. r = l.mem[round][d] + x * l.voted[a][d] /\ b = l.balance[a] + x
    BY <1>3, <1>8, <2>1
  <2>3. m.mem[round][d] =
          IF d = v.delegate THEN IF v.action = "+" THEN r + b ELSE r - b ELSE r
    BY <1>4, <2>1
  <2>4. m.mem[round][d] = r + Waits(v, d, b)
    BY <2>3 DEF Waits
  <2> QED
    BY <2>2, <2>4
<1>11. \A q \in 1..MaxRound : q # round => m.mem[q] = l.mem[q]
  BY <1>3, <1>4
<1>12. /\ \A c \in Account, d \in Delegate :
            (c # a \/ d # v.delegate) => m.voted[c][d] = l.voted[c][d]
       /\ m.voted[a][v.delegate] = IF v.action = "+" THEN l.voted[a][v.delegate] + 1 ELSE 0
  BY <1>3, <1>4
<1>13. m.vote = l.vote /\ m.produced = l.produced /\ m.missed = l.missed
  BY <1>3, <1>4
<1>14. \A c \in Account : m.balance[c] = l.balance[c] + (IF c = a THEN x ELSE 0)
  BY <1>3, <1>4
<1>15. Total(m) = Total(l) + x
  BY <1>6
<1> QED
  BY <1>4, <1>7, <1>9, <1>11, <1>12, <1>13, <1>14, <1>15 DEF VotePays

\* What a transaction does to the tables: from l to m
Applies(l, t, round, m) ==
  /\ m \in Ledgers
  /\ \A a \in Account : m.balance[a] = l.balance[a] + Gain(t, a)
  /\ m.vote = l.vote /\ m.produced = l.produced /\ m.missed = l.missed
  /\ \A q \in 1..MaxRound : q # round => m.mem[q] = l.mem[q]
  /\ Total(m) = Total(l) - FeeOf(t)
  /\ FitsIn(l.voted, t) => m.voted = VotedAfter(l.voted, t)
  /\ FitsIn(l.voted, t) /\ Matched(l) => Matched(m)

LEMMA Applied ==
  ASSUME NEW l \in Ledgers, NEW t \in TransactionTypes, NEW round \in 1..MaxRound,
         NEW m, m = Apply(l, t, round)
  PROVE  Applies(l, t, round, m)
<1> USE DEF Applies
<1>0. Total(l) \in Int /\ \A a \in Account : l.balance[a] \in Int
  <2>1. IsFiniteSet(Account) /\ \A a \in Account : l.balance[a] \in Int
    BY RoundsAssumption, LedgerValues
  <2> QED
    BY <2>1, SumInt DEF Total
<1>1. CASE t.kind = "none"
  <2>1. m = l /\ FeeOf(t) = 0 /\ VotedAfter(l.voted, t) = l.voted
    BY <1>1 DEF Apply, FeeOf, VotedAfter
  <2>2. \A a \in Account : Gain(t, a) = 0
    BY <1>1 DEF Gain
  <2> QED
    BY <1>0, <2>1, <2>2
<1>2. CASE t.kind = "transfer"
  <2>1. t.from \in Account /\ t.to \in Account /\ t.amount \in Nat /\ t.fee \in Nat
    BY <1>2, Kinds
  <2>2. PICK x \in Int, y \in Int : x = -(t.amount + t.fee) /\ y = t.amount
    BY <2>1
  <2>3. m = MergeBalance(MergeBalance(l, t.from, x, round), t.to, y, round)
    BY <1>2, <2>2 DEF Apply, TransferApply
  <2>4. /\ m \in Ledgers
        /\ \A c \in Account : m.balance[c] =
             l.balance[c] + (IF c = t.from THEN x ELSE 0) + (IF c = t.to THEN y ELSE 0)
        /\ m.voted = l.voted /\ m.vote = l.vote /\ m.produced = l.produced
        /\ m.missed = l.missed
        /\ \A q \in 1..MaxRound : q # round => m.mem[q] = l.mem[q]
        /\ Total(m) = Total(l) + x + y
        /\ Matched(l) => Matched(m)
    BY ONLY l \in Ledgers, round \in 1..MaxRound, <2>1, <2>2, <2>3, TransferMerged
  <2>5. \A a \in Account :
          Gain(t, a) = (IF a = t.from THEN x ELSE 0) + (IF a = t.to THEN y ELSE 0)
    BY <1>2, <2>2 DEF Gain
  <2>6. FeeOf(t) = t.fee /\ VotedAfter(l.voted, t) = l.voted
    BY <1>2 DEF FeeOf, VotedAfter
  <2>7. Total(m) = Total(l) - FeeOf(t)
    BY <1>0, <2>1, <2>2, <2>4, <2>6
  <2>8. \A a \in Account : m.balance[a] = l.balance[a] + Gain(t, a)
    BY <1>0, <2>2, <2>4, <2>5
  <2> QED
    BY <2>4, <2>6, <2>7, <2>8
<1>3. CASE t.kind = "vote"
  <2>1. t.from \in Account /\ t.fee \in Nat /\ t.vote \in Votes
    BY <1>3, Kinds
  <2>2. PICK x \in Int, a \in Account, v \in Votes : x = -t.fee /\ a = t.from /\ v = t.vote
    BY <2>1
  <2>11. PICK k : k = MergeBalance(l, a, x, round)
    OBVIOUS
  <2>3. m = MergeVote(k, a, v, round)
    BY <1>3, <2>2, <2>11 DEF Apply, VoteApply
  <2>10. /\ m \in Ledgers
         /\ \A c \in Account : m.balance[c] = l.balance[c] + (IF c = a THEN x ELSE 0)
         /\ m.vote = l.vote /\ m.produced = l.produced /\ m.missed = l.missed
         /\ \A c \in Account, d \in Delegate :
              (c # a \/ d # v.delegate) => m.voted[c][d] = l.voted[c][d]
         /\ m.voted[a][v.delegate] = IF v.action = "+" THEN l.voted[a][v.delegate] + 1 ELSE 0
         /\ \A q \in 1..MaxRound : q # round => m.mem[q] = l.mem[q]
         /\ Total(m) = Total(l) + x
         /\ Matched(l) /\ Fits(l, a, v) => Matched(m)
    <3>1. VotePays(l, a, x, v, round, m)
      BY ONLY l \in Ledgers, round \in 1..MaxRound, x \in Int, a \in Account, v \in Votes,
              <2>3, <2>11, VotePaid
    <3> QED
      BY <3>1 DEF VotePays
  <2>4. /\ m \in Ledgers
        /\ \A c \in Account : m.balance[c] = l.balance[c] + (IF c = t.from THEN x ELSE 0)
        /\ m.vote = l.vote /\ m.produced = l.produced /\ m.missed = l.missed
        /\ \A c \in Account, d \in Delegate :
             (c # t.from \/ d # t.vote.delegate) => m.voted[c][d] = l.voted[c][d]
        /\ m.voted[t.from][t.vote.delegate] =
             IF t.vote.action = "+" THEN l.voted[t.from][t.vote.delegate] + 1 ELSE 0
        /\ \A q \in 1..MaxRound : q # round => m.mem[q] = l.mem[q]
        /\ Total(m) = Total(l) + x
        /\ Matched(l) /\ Fits(l, t.from, t.vote) => Matched(m)
    BY <2>2, <2>10
  <2>5. \A c \in Account : Gain(t, c) = (IF c = t.from THEN x ELSE 0)
    BY <1>3, <2>2 DEF Gain
  <2>6. Total(m) = Total(l) - FeeOf(t)
    BY <1>0, <1>3, <2>1, <2>2, <2>4 DEF FeeOf
  <2>7. FitsIn(l.voted, t) <=> Fits(l, t.from, t.vote)
    BY <1>3 DEF FitsIn, Fits
  <2>8. ASSUME FitsIn(l.voted, t)
        PROVE  m.voted = VotedAfter(l.voted, t)
    <3>1. l.voted \in [Account -> [Delegate -> Nat]] /\ t.vote.delegate \in Delegate
      BY <2>1 DEF Ledgers, Votes
    <3>2. PICK w : w = VotedAfter(l.voted, t)
      OBVIOUS
    <3>3. w = [l.voted EXCEPT ![t.from][t.vote.delegate] = IF t.vote.action = "+" THEN 1 ELSE 0]
      BY <1>3, <3>2 DEF VotedAfter
    <3>4. w \in [Account -> [Delegate -> Nat]]
      BY <3>1, <3>3, <2>1
    <3>5. m.voted \in [Account -> [Delegate -> Nat]]
      BY <2>4 DEF Ledgers
    <3>6. \A c \in Account, d \in Delegate :
            w[c][d] = IF c = t.from /\ d = t.vote.delegate
                      THEN IF t.vote.action = "+" THEN 1 ELSE 0
                      ELSE l.voted[c][d]
      BY <3>1, <3>3, <2>1
    <3>7. m.voted[t.from][t.vote.delegate] = IF t.vote.action = "+" THEN 1 ELSE 0
      BY <2>4, <2>7, <2>8 DEF Fits
    <3>8. \A c \in Account, d \in Delegate : m.voted[c][d] = w[c][d]
      BY <2>4, <3>6, <3>7
    <3> QED
      BY <3>2, <3>4, <3>5, <3>8, SameTable
  <2>9. \A c \in Account : m.balance[c] = l.balance[c] + Gain(t, c)
    BY <2>4, <2>5
  <2> QED
    BY <2>4, <2>6, <2>7, <2>8, <2>9
<1> QED
  BY <1>1, <1>2, <1>3, Kinds

\* What its undo does
Undoes(l, t, round, m) ==
  /\ m \in Ledgers
  /\ \A a \in Account : m.balance[a] = l.balance[a] - Gain(t, a)
  /\ m.vote = l.vote /\ m.produced = l.produced /\ m.missed = l.missed
  /\ \A q \in 1..MaxRound : q # round => m.mem[q] = l.mem[q]
  /\ Total(m) = Total(l) + FeeOf(t)

LEMMA Undone ==
  ASSUME NEW l \in Ledgers, NEW t \in TransactionTypes, NEW round \in 1..MaxRound,
         NEW m, m = Undo(l, t, round)
  PROVE  Undoes(l, t, round, m)
<1> USE DEF Undoes
<1>0. Total(l) \in Int /\ \A a \in Account : l.balance[a] \in Int
  <2>1. IsFiniteSet(Account) /\ \A a \in Account : l.balance[a] \in Int
    BY RoundsAssumption, LedgerValues
  <2> QED
    BY <2>1, SumInt DEF Total
<1>1. CASE t.kind = "none"
  <2>1. m = l /\ FeeOf(t) = 0
    BY <1>1 DEF Undo, FeeOf
  <2>2. \A a \in Account : Gain(t, a) = 0
    BY <1>1 DEF Gain
  <2> QED
    BY <1>0, <2>1, <2>2
<1>2. CASE t.kind = "transfer"
  <2>1. t.from \in Account /\ t.to \in Account /\ t.amount \in Nat /\ t.fee \in Nat
    BY <1>2, Kinds
  <2>2. PICK x \in Int, y \in Int : x = t.amount + t.fee /\ y = -t.amount
    BY <2>1
  <2>3. m = MergeBalance(MergeBalance(l, t.from, x, round), t.to, y, round)
    BY <1>2, <2>2 DEF Undo, TransferUndo
  <2>4. /\ m \in Ledgers
        /\ \A c \in Account : m.balance[c] =
             l.balance[c] + (IF c = t.from THEN x ELSE 0) + (IF c = t.to THEN y ELSE 0)
        /\ m.vote = l.vote /\ m.produced = l.produced /\ m.missed = l.missed
        /\ \A q \in 1..MaxRound : q # round => m.mem[q] = l.mem[q]
        /\ Total(m) = Total(l) + x + y
    BY ONLY l \in Ledgers, round \in 1..MaxRound, <2>1, <2>2, <2>3, TransferMerged
  <2>5. \A a \in Account :
          -Gain(t, a) = (IF a = t.from THEN x ELSE 0) + (IF a = t.to THEN y ELSE 0)
    BY <1>2, <2>1, <2>2 DEF Gain
  <2>7. Total(m) = Total(l) + FeeOf(t)
    BY <1>0, <1>2, <2>1, <2>2, <2>4 DEF FeeOf
  <2>8. \A a \in Account : m.balance[a] = l.balance[a] - Gain(t, a)
    BY <1>0, <2>2, <2>4, <2>5, GainInt
  <2> QED
    BY <2>4, <2>7, <2>8
<1>3. CASE t.kind = "vote"
  <2>1. t.from \in Account /\ t.fee \in Nat /\ Opposite(t.vote) \in Votes
    BY <1>3, Kinds, OppositeVotes
  <2>2. PICK x \in Int, a \in Account, v \in Votes :
          x = t.fee /\ a = t.from /\ v = Opposite(t.vote)
    BY <2>1
  <2>11. PICK k : k = MergeBalance(l, a, x, round)
    OBVIOUS
  <2>3. m = MergeVote(k, a, v, round)
    BY <1>3, <2>2, <2>11 DEF Undo, VoteUndo
  <2>10. /\ m \in Ledgers
         /\ \A c \in Account : m.balance[c] = l.balance[c] + (IF c = a THEN x ELSE 0)
         /\ m.vote = l.vote /\ m.produced = l.produced /\ m.missed = l.missed
         /\ \A c \in Account, d \in Delegate :
              (c # a \/ d # v.delegate) => m.voted[c][d] = l.voted[c][d]
         /\ m.voted[a][v.delegate] = IF v.action = "+" THEN l.voted[a][v.delegate] + 1 ELSE 0
         /\ \A q \in 1..MaxRound : q # round => m.mem[q] = l.mem[q]
         /\ Total(m) = Total(l) + x
         /\ Matched(l) /\ Fits(l, a, v) => Matched(m)
    <3>1. VotePays(l, a, x, v, round, m)
      BY ONLY l \in Ledgers, round \in 1..MaxRound, x \in Int, a \in Account, v \in Votes,
              <2>3, <2>11, VotePaid
    <3> QED
      BY <3>1 DEF VotePays
  <2>4. /\ m \in Ledgers
        /\ \A c \in Account : m.balance[c] = l.balance[c] + (IF c = t.from THEN x ELSE 0)
        /\ m.vote = l.vote /\ m.produced = l.produced /\ m.missed = l.missed
        /\ \A q \in 1..MaxRound : q # round => m.mem[q] = l.mem[q]
        /\ Total(m) = Total(l) + x
    BY <2>2, <2>10
  <2>5. \A c \in Account : -Gain(t, c) = (IF c = t.from THEN x ELSE 0)
    BY <1>3, <2>1, <2>2 DEF Gain
  <2>6. Total(m) = Total(l) + FeeOf(t)
    BY <1>0, <1>3, <2>1, <2>2, <2>4 DEF FeeOf
  <2>9. \A c \in Account : m.balance[c] = l.balance[c] - Gain(t, c)
    BY <1>0, <2>4, <2>5, GainInt
  <2> QED
    BY <2>4, <2>6, <2>9
<1> QED
  BY <1>1, <1>2, <1>3, Kinds

LEMMA Negated ==
  ASSUME NEW x \in Int, NEW y \in Int
  PROVE  (-x) * y = -(x * y) /\ (-x) * y \in Int /\ x * y \in Int
OBVIOUS

LEMMA VotedUndone ==
  ASSUME NEW l \in Ledgers, NEW m \in Ledgers, NEW t \in TransactionTypes,
         NEW round \in 1..MaxRound, NEW u, u = Undo(m, t, round),
         FitsIn(l.voted, t), m.voted = VotedAfter(l.voted, t)
  PROVE  u.voted = l.voted
<1>1. CASE t.kind = "none"
  BY <1>1 DEF Undo, VotedAfter
<1>2. CASE t.kind = "transfer"
  <2>1. t.from \in Account /\ t.to \in Account /\ t.amount \in Nat /\ t.fee \in Nat
    BY <1>2, Kinds
  <2>2. PICK x \in Int, y \in Int : x = t.amount + t.fee /\ y = -t.amount
    BY <2>1
  <2>3. u = MergeBalance(MergeBalance(m, t.from, x, round), t.to, y, round)
    BY <1>2, <2>2 DEF Undo, TransferUndo
  <2>4. u.voted = m.voted
    BY ONLY m \in Ledgers, round \in 1..MaxRound, <2>1, <2>2, <2>3, TransferMerged
  <2> QED
    BY <1>2, <2>4 DEF VotedAfter
<1>3. CASE t.kind = "vote"
  <2>1. t.from \in Account /\ t.fee \in Nat /\ t.vote \in Votes /\ Opposite(t.vote) \in Votes
    BY <1>3, Kinds, OppositeVotes
  <2>2. PICK x \in Int, a \in Account, v \in Votes :
          x = t.fee /\ a = t.from /\ v = Opposite(t.vote)
    BY <2>1
  <2>3. PICK k : k = MergeBalance(m, a, x, round)
    OBVIOUS
  <2>4. u = MergeVote(k, a, v, round)
    BY <1>3, <2>2, <2>3 DEF Undo, VoteUndo
  <2>5. VotePays(m, a, x, v, round, u)
    BY ONLY m \in Ledgers, round \in 1..MaxRound, x \in Int, a \in Account, v \in Votes,
            <2>3, <2>4, VotePaid
  <2>6. /\ u \in Ledgers
        /\ \A c \in Account, d \in Delegate :
             (c # a \/ d # v.delegate) => u.voted[c][d] = m.voted[c][d]
        /\ u.voted[a][v.delegate] = IF v.action = "+" THEN m.voted[a][v.delegate] + 1 ELSE 0
    BY <2>5 DEF VotePays
  <2>7. /\ v.delegate = t.vote.delegate /\ v.delegate \in Delegate
        /\ t.vote.action = "+" => v.action = "-"
        /\ t.vote.action # "+" => v.action = "+"
    BY <2>1, <2>2, OppositeVotes DEF Votes
  <2>8. \A c \in Account, d \in Delegate :
          m.voted[c][d] = IF c = a /\ d = v.delegate
                          THEN IF t.vote.action = "+" THEN 1 ELSE 0
                          ELSE l.voted[c][d]
    <3>1. l.voted \in [Account -> [Delegate -> Nat]]
      BY DEF Ledgers
    <3> QED
      BY <1>3, <2>2, <2>7, <3>1 DEF VotedAfter
  <2>9. l.voted[a][v.delegate] = IF t.vote.action = "+" THEN 0 ELSE 1
    BY <1>3, <2>2, <2>7 DEF FitsIn
  <2>10. u.voted[a][v.delegate] = l.voted[a][v.delegate]
    BY <2>6, <2>7, <2>8, <2>9
  <2>11. \A c \in Account, d \in Delegate : u.voted[c][d] = l.voted[c][d]
    BY <2>6, <2>8, <2>10
  <2> QED
    BY <2>6, <2>11, SameVoted
<1> QED
  BY <1>1, <1>2, <1>3, Kinds

LEMMA UndoneExactly ==
  ASSUME NEW l \in Ledgers, NEW m \in Ledgers, NEW t \in TransactionTypes,
         NEW round \in 1..MaxRound, NEW k, k = Apply(l, t, round), FitsIn(l.voted, t),
         m.balance = k.balance, m.voted = k.voted, m.mem = k.mem,
         NEW u, u = Undo(m, t, round)
  PROVE  u.balance = l.balance /\ u.voted = l.voted /\ u.mem = l.mem
<1>1. Applies(l, t, round, k) /\ Undoes(m, t, round, u)
  BY Applied, Undone
<1>2. k \in Ledgers /\ u \in Ledgers
  BY <1>1 DEF Applies, Undoes
<1>3. u.voted = l.voted
  <2>1. m.voted = VotedAfter(l.voted, t)
    BY <1>1 DEF Applies
  <2> QED
    BY <2>1, VotedUndone
<1>4. u.balance = l.balance
  <2>1. \A a \in Account : u.balance[a] = (l.balance[a] + Gain(t, a)) - Gain(t, a)
    BY <1>1 DEF Applies, Undoes
  <2>2. \A a \in Account : u.balance[a] = l.balance[a]
    BY <2>1, GainInt, LedgerValues
  <2>3. u.balance \in [Account -> Int] /\ l.balance \in [Account -> Int]
    BY <1>2 DEF Ledgers
  <2> QED
    BY <2>2, <2>3
<1>5. \A q \in 1..MaxRound : q # round => u.mem[q] = l.mem[q]
  BY <1>1 DEF Applies, Undoes
<1>6. ASSUME NEW d \in Delegate
      PROVE  u.mem[round][d] = l.mem[round][d]
  <2>0. PICK r \in Int : r = l.mem[round][d]
    BY LedgerValues
  <2>1. CASE t.kind = "none"
    BY <2>1 DEF Apply, Undo
  <2>2. CASE t.kind = "transfer"
    <3>1. t.from \in Account /\ t.to \in Account /\ t.amount \in Nat /\ t.fee \in Nat
      BY <2>2, Kinds
    <3>2. PICK x \in Int, y \in Int, a \in Account, b \in Account :
            x = t.amount + t.fee /\ y = t.amount /\ a = t.from /\ b = t.to
      BY <3>1
    <3>3. k = MergeBalance(MergeBalance(l, a, -x, round), b, y, round)
      BY <2>2, <3>2 DEF Apply, TransferApply
    <3>4. u = MergeBalance(MergeBalance(m, a, x, round), b, -y, round)
      BY <2>2, <3>2 DEF Undo, TransferUndo
    <3>5. -x \in Int /\ -y \in Int
      OBVIOUS
    <3>6. k.mem[round][d] = l.mem[round][d] + (-x) * l.voted[a][d] + y * l.voted[b][d]
      BY <3>3, <3>5, TransferMerged
    <3>7. u.mem[round][d] = m.mem[round][d] + x * m.voted[a][d] + (-y) * m.voted[b][d]
      BY <3>4, <3>5, TransferMerged
    <3>8. m.voted = l.voted
      BY <1>1, <2>2 DEF Applies, VotedAfter
    <3>9. PICK v \in Int, w \in Int : v = l.voted[a][d] /\ w = l.voted[b][d]
      BY LedgerValues
    <3>10. PICK p \in Int, q \in Int :
             p = x * v /\ q = y * w /\ (-x) * v = -p /\ (-y) * w = -q
      BY Negated
    <3>11. k.mem[round][d] = r + (-p) + q
      BY <2>0, <3>6, <3>9, <3>10
    <3>12. u.mem[round][d] = (r + (-p) + q) + p + (-q)
      BY <3>7, <3>8, <3>9, <3>10, <3>11
    <3> QED
      BY <2>0, <3>12
  <2>3. CASE t.kind = "vote"
    <3>1. t.from \in Account /\ t.fee \in Nat /\ t.vote \in Votes /\ Opposite(t.vote) \in Votes
      BY <2>3, Kinds, OppositeVotes
    <3>2. PICK x \in Int, y \in Int, a \in Account, v \in Votes, w \in Votes :
            x = -t.fee /\ y = t.fee /\ a = t.from /\ v = t.vote /\ w = Opposite(t.vote)
      BY <3>1
    <3>3. PICK l1, m1 : l1 = MergeBalance(l, a, x, round) /\ m1 = MergeBalance(m, a, y, round)
      OBVIOUS
    <3>4. k = MergeVote(l1, a, v, round)
      BY <2>3, <3>2, <3>3 DEF Apply, VoteApply
    <3>5. u = MergeVote(m1, a, w, round)
      BY <2>3, <3>2, <3>3 DEF Undo, VoteUndo
    <3>6. VotePays(l, a, x, v, round, k)
      BY ONLY l \in Ledgers, round \in 1..MaxRound, x \in Int, a \in Account, v \in Votes,
              <3>3, <3>4, VotePaid
    <3>7. VotePays(m, a, y, w, round, u)
      BY ONLY m \in Ledgers, round \in 1..MaxRound, y \in Int, a \in Account, w \in Votes,
              <3>3, <3>5, VotePaid
    <3>8. PICK b \in Int, n \in Int, n1 \in Int :
            b = l.balance[a] /\ n = l.voted[a][d] /\ n1 = m.voted[a][d]
      BY LedgerValues
    <3>9. k.mem[round][d] = (r + x * n) + Waits(v, d, b + x)
      BY <2>0, <3>6, <3>8 DEF VotePays
    <3>10. m.balance[a] = b + x
      BY <3>6, <3>8 DEF VotePays
    <3>11. u.mem[round][d] = (k.mem[round][d] + y * n1) + Waits(w, d, (b + x) + y)
      BY <3>7, <3>8, <3>10 DEF VotePays
    <3>12. /\ w.delegate = v.delegate
           /\ v.action = "+" => w.action = "-"
           /\ v.action # "+" => w.action = "+"
      BY <3>2, OppositeVotes
    <3>13. x = -y
      BY <3>1, <3>2
    <3>14. CASE d # v.delegate
      <4>1. n1 = n
        BY <3>6, <3>8, <3>14 DEF VotePays
      <4>2. Waits(v, d, b + x) = 0 /\ Waits(w, d, (b + x) + y) = 0
        BY <3>12, <3>14 DEF Waits
      <4>3. PICK p \in Int : p = y * n /\ (-y) * n = -p
        BY Negated
      <4>4. u.mem[round][d] = ((r + (-p)) + 0 + p) + 0
        BY <3>9, <3>11, <3>13, <4>1, <4>2, <4>3
      <4> QED
        BY <2>0, <4>4
    <3>15. CASE d = v.delegate /\ v.action = "+"
      <4>1. n = 0 /\ n1 = 1
        BY <2>3, <3>2, <3>6, <3>8, <3>15 DEF VotePays, FitsIn
      <4>2. Waits(v, d, b + x) = b + x /\ Waits(w, d, (b + x) + y) = -((b + x) + y)
        BY <3>12, <3>15 DEF Waits
      <4>3. u.mem[round][d] = ((r + x * 0) + (b + x) + y * 1) + (-((b + x) + y))
        BY <3>9, <3>11, <4>1, <4>2
      <4> QED
        BY <2>0, <3>13, <4>3
    <3>16. CASE d = v.delegate /\ v.action # "+"
      <4>1. n = 1 /\ n1 = 0
        BY <2>3, <3>2, <3>6, <3>8, <3>16 DEF VotePays, FitsIn
      <4>2. Waits(v, d, b + x) = -(b + x) /\ Waits(w, d, (b + x) + y) = (b + x) + y
        BY <3>12, <3>16 DEF Waits
      <4>3. u.mem[round][d] = ((r + x * 1) + (-(b + x)) + y * 0) + ((b + x) + y)
        BY <3>9, <3>11, <4>1, <4>2
      <4> QED
        BY <2>0, <3>13, <4>3
    <3> QED
      BY <3>14, <3>15, <3>16
  <2> QED
    BY <2>1, <2>2, <2>3, Kinds
<1>7. u.mem = l.mem
  <2>1. \A q \in 1..MaxRound, d \in Delegate : u.mem[q][d] = l.mem[q][d]
    BY <1>5, <1>6
  <2> QED
    BY <1>2, <2>1, SameMem
<1> QED
  BY <1>3, <1>4, <1>7

-----------------------------------------------------------------------------
(* How a round pays its delegates                                          *)

RoundOK(bs, n) ==
  /\ Len(bs) = n /\ DOMAIN bs = 1..n
  /\ \A i \in 1..n : bs[i].generator \in Account /\ bs[i].fee \in Nat /\ bs[i].reward \in Nat

Fees(bs) == SumOver([i \in 1..Len(bs) |-> bs[i].fee], 1..Len(bs))
Rewards(bs) == SumOver([i \in 1..Len(bs) |-> bs[i].reward], 1..Len(bs))
Forger(bs, sign, i) == bs[IF sign = 1 THEN i ELSE Len(bs) + 1 - i].generator
DelegateShare(bs, sign, i) ==
  sign * Payment(i, Fees(bs), [j \in 1..Len(bs) |-> bs[j].reward], IF sign = 1 THEN Len(bs) ELSE 1)

\* A sum of numbers is a number.
LEMMA SumNat ==
  ASSUME NEW n \in Nat, NEW f, \A i \in 1..n : f[i] \in Nat
  PROVE  SumOver(f, 1..n) \in Nat
<1> DEFINE S == {k \in 0..n : SumOver(f, 1..k) \in Nat}
<1>1. 0 \in S
  <2>1. PICK E : E = {}
    OBVIOUS
  <2>2. 1..0 = E /\ SumOver(f, E) = 0
    BY <2>1, SumEmpty
  <2> QED
    BY <2>2
<1>2. ASSUME NEW k \in 0..n - 1, k \in S PROVE k + 1 \in S
  <2>1. k \in Nat /\ \A i \in 1..k + 1 : f[i] \in Int
    OBVIOUS
  <2>2. SumOver(f, 1..k + 1) = SumOver(f, 1..k) + f[k + 1]
    BY <2>1, SumUpTo
  <2>3. f[k + 1] \in Nat /\ SumOver(f, 1..k) \in Nat
    BY <1>2
  <2> QED
    BY <2>2, <2>3
<1> HIDE DEF S
<1>3. n \in S
  BY <1>1, <1>2, UpTo
<1> QED
  BY <1>3 DEF S

LEMMA FeesNat ==
  ASSUME NEW n \in Nat, NEW bs, RoundOK(bs, n)
  PROVE  Fees(bs) \in Nat /\ Rewards(bs) \in Nat
<1>1. PICK f, g : f = [i \in 1..n |-> bs[i].fee] /\ g = [i \in 1..n |-> bs[i].reward]
  OBVIOUS
<1>2. \A i \in 1..n : f[i] \in Nat /\ g[i] \in Nat
  BY <1>1 DEF RoundOK
<1>3. SumOver(f, 1..n) \in Nat /\ SumOver(g, 1..n) \in Nat
  BY <1>2, SumNat
<1> QED
  BY <1>1, <1>3 DEF Fees, Rewards, RoundOK

LEMMA ShareInt ==
  ASSUME NEW n \in Nat, NEW bs, RoundOK(bs, n), NEW sign \in {1, -1}, NEW i \in 1..n
  PROVE  Forger(bs, sign, i) \in Account /\ DelegateShare(bs, sign, i) \in Int
<1>1. Forger(bs, sign, i) \in Account
  <2>1. (IF sign = 1 THEN i ELSE n + 1 - i) \in 1..n
    OBVIOUS
  <2> QED
    BY <2>1 DEF Forger, RoundOK
<1>2. PICK fees \in Nat : fees = Fees(bs)
  BY FeesNat
<1>3. PICK q \in Nat, r \in Nat : fees \div D = q /\ fees % D = r
  BY <1>2, Divided
<1>4. PICK reward \in Nat : [j \in 1..Len(bs) |-> bs[j].reward][i] = reward
  BY DEF RoundOK
<1>5. DelegateShare(bs, sign, i) = sign * ((q + reward) +
        IF i = (IF sign = 1 THEN Len(bs) ELSE 1) THEN r ELSE 0)
  BY <1>2, <1>3, <1>4 DEF DelegateShare, Payment
<1> QED
  BY <1>1, <1>5

\* The fold of ApplyRound, as FoldLeftDomain chooses it
PayTable(g, l, round, bs, sign) ==
  LET n       == Len(bs)
      fees    == SumOver([i \in 1..n |-> bs[i].fee], 1..n)
      rewards == [i \in 1..n |-> bs[i].reward]
      forger  == [i \in 1..n |-> bs[IF sign = 1 THEN i ELSE n + 1 - i].generator]
      last    == IF sign = 1 THEN n ELSE 1
      at      == [i \in DOMAIN bs |-> i]
  IN  g = [s \in SUBSET DOMAIN at |->
             IF s = {} THEN l
             ELSE LET x == Max(s)
                  IN  MergeBalance(g[s \ {x}], forger[at[x]],
                                   sign * Payment(at[x], fees, rewards, last), round)]

LEMMA ApplyRoundIs ==
  ASSUME NEW l, NEW round, NEW bs, NEW sign
  PROVE  ApplyRound(l, round, bs, sign)
           = (CHOOSE g : PayTable(g, l, round, bs, sign))[DOMAIN [i \in DOMAIN bs |-> i]]
BY DEF ApplyRound, FoldLeftDomain, FoldLeft, MapThenFoldSet, PayTable

PayTableTo(g, l, round, bs, sign, n) ==
  g = [s \in SUBSET (1..n) |->
         IF s = {} THEN l
         ELSE MergeBalance(g[s \ {Max(s)}],
                           [i \in 1..n |-> Forger(bs, sign, i)][[i \in 1..n |-> i][Max(s)]],
                           DelegateShare(bs, sign, [i \in 1..n |-> i][Max(s)]), round)]

LEMMA PayTableIs ==
  ASSUME NEW n \in Nat, NEW bs, RoundOK(bs, n), NEW l, NEW round, NEW sign, NEW g
  PROVE  PayTable(g, l, round, bs, sign) <=> PayTableTo(g, l, round, bs, sign, n)
<1>1. Len(bs) = n /\ DOMAIN bs = 1..n
  BY DEF RoundOK
<1> QED
  BY <1>1 DEF PayTable, PayTableTo, DelegateShare, Forger, Fees

\* The tables of accounts through the payments of a round
PaySteps(s, l, round, bs, sign, n) ==
  /\ s[0] = l /\ s[n] = ApplyRound(l, round, bs, sign)
  /\ \A i \in 1..n :
       s[i] = MergeBalance(s[i - 1], Forger(bs, sign, i), DelegateShare(bs, sign, i), round)

LEMMA ApplyRoundSteps ==
  ASSUME NEW n \in Nat, NEW bs, RoundOK(bs, n), NEW l \in Ledgers, NEW round \in 1..MaxRound,
         NEW sign \in {1, -1}
  PROVE  \E s : PaySteps(s, l, round, bs, sign, n)
<1> DEFINE S == 1..n
           c == [r \in SUBSET S |-> Max(r)]
           step == [p \in S \X Ledgers |->
                      MergeBalance(p[2], Forger(bs, sign, p[1]), DelegateShare(bs, sign, p[1]), round)]
<1>1. IsFiniteSet(S)
  BY IntervalFinite
<1>2. \A r \in SUBSET S : r # {} => c[r] \in r /\ c[r] = Max(r)
  BY MaxExists
<1>3. ASSUME NEW x \in S, NEW v \in Ledgers
      PROVE  /\ step[<<x, v>>] = MergeBalance(v, Forger(bs, sign, x), DelegateShare(bs, sign, x), round)
             /\ step[<<x, v>>] \in Ledgers
  <2>1. step[<<x, v>>] = MergeBalance(v, Forger(bs, sign, x), DelegateShare(bs, sign, x), round)
    BY <1>3
  <2>2. PICK a \in Account, amount \in Int : a = Forger(bs, sign, x) /\ amount = DelegateShare(bs, sign, x)
    BY ShareInt
  <2>3. PICK m : m = MergeBalance(v, a, amount, round)
    OBVIOUS
  <2>4. m \in Ledgers
    BY <2>3, BalanceMerged
  <2> QED
    BY <2>1, <2>2, <2>3, <2>4
<1> HIDE DEF S, c, step
<1>4. PICK g \in [SUBSET S -> Ledgers] : Recurs(g, S, c, l, step)
  <2>1. \A r \in SUBSET S : r # {} => c[r] \in r
    BY <1>2
  <2>2. \A x \in S, v \in Ledgers : step[<<x, v>>] \in Ledgers
    BY <1>3
  <2> QED
    BY <1>1, <2>1, <2>2, RecursionExists
<1>5. \A r \in SUBSET S :
        g[r] = IF r = {} THEN l
               ELSE MergeBalance(g[r \ {Max(r)}], Forger(bs, sign, Max(r)),
                                 DelegateShare(bs, sign, Max(r)), round)
  <2> SUFFICES ASSUME NEW r \in SUBSET S
               PROVE  g[r] = IF r = {} THEN l
                             ELSE MergeBalance(g[r \ {Max(r)}], Forger(bs, sign, Max(r)),
                                               DelegateShare(bs, sign, Max(r)), round)
    OBVIOUS
  <2>1. CASE r = {}
    BY <1>4, <2>1 DEF Recurs
  <2>2. CASE r # {}
    <3>1. c[r] \in S /\ c[r] = Max(r) /\ r \ {c[r]} \in SUBSET S
      BY <1>2, <2>2
    <3>2. g[r \ {c[r]}] \in Ledgers
      BY <1>4, <3>1
    <3>3. g[r] = step[<<c[r], g[r \ {c[r]}]>>]
      BY <1>4, <2>2 DEF Recurs
    <3> QED
      BY <1>3, <2>2, <3>1, <3>2, <3>3
  <2> QED
    BY <2>1, <2>2
<1>6. \E h : PayTable(h, l, round, bs, sign)
  <2>1. g = [r \in SUBSET (1..n) |->
               IF r = {} THEN l
               ELSE MergeBalance(g[r \ {Max(r)}],
                                 [i \in 1..n |-> Forger(bs, sign, i)][[i \in 1..n |-> i][Max(r)]],
                                 DelegateShare(bs, sign, [i \in 1..n |-> i][Max(r)]), round)]
    <3>1. \A r \in SUBSET (1..n) : r # {} => Max(r) \in 1..n
      BY <1>2 DEF S
    <3>2. \A r \in SUBSET (1..n) : r # {} =>
            [i \in 1..n |-> i][Max(r)] = Max(r)
            /\ [i \in 1..n |-> Forger(bs, sign, i)][Max(r)] = Forger(bs, sign, Max(r))
      BY <3>1
    <3>3. \A r \in SUBSET (1..n) :
            g[r] = IF r = {} THEN l
                   ELSE MergeBalance(g[r \ {Max(r)}],
                                     [i \in 1..n |-> Forger(bs, sign, i)][[i \in 1..n |-> i][Max(r)]],
                                     DelegateShare(bs, sign, [i \in 1..n |-> i][Max(r)]), round)
      BY <1>5, <3>2 DEF S
    <3> QED
      BY <1>4, <3>3 DEF S
  <2>2. PayTable(g, l, round, bs, sign)
    <3>1. PayTableTo(g, l, round, bs, sign, n)
      BY <2>1 DEF PayTableTo
    <3> QED
      BY <3>1, PayTableIs
  <2> QED
    BY <2>2
<1>7. PICK h : /\ PayTable(h, l, round, bs, sign)
               /\ ApplyRound(l, round, bs, sign) = h[DOMAIN [i \in DOMAIN bs |-> i]]
  BY <1>6, ApplyRoundIs
<1>8. \A r \in SUBSET (1..n) :
        h[r] = IF r = {} THEN l
               ELSE MergeBalance(h[r \ {Max(r)}],
                                 [i \in 1..n |-> Forger(bs, sign, i)][[i \in 1..n |-> i][Max(r)]],
                                 DelegateShare(bs, sign, [i \in 1..n |-> i][Max(r)]), round)
  <2>1. PayTableTo(h, l, round, bs, sign, n)
    BY <1>7, PayTableIs
  <2> QED
    BY <2>1, Zenon DEF PayTableTo
<1> DEFINE s == [i \in 0..n |-> h[1..i]]
<1>9. s[n] = ApplyRound(l, round, bs, sign)
  BY <1>7 DEF RoundOK
<1>10. s[0] = l
  <2>1. PICK E : E = {}
    OBVIOUS
  <2>2. 1..0 = E /\ s[0] = h[1..0]
    BY <2>1
  <2>3. h[E] = l
    BY <1>8, <2>1
  <2> QED
    BY <2>2, <2>3
<1>11. ASSUME NEW i \in 1..n
       PROVE  s[i] = MergeBalance(s[i - 1], Forger(bs, sign, i), DelegateShare(bs, sign, i), round)
  <2>1. 1..i \in SUBSET (1..n) /\ 1..i # {} /\ i \in 1..i
    OBVIOUS
  <2>2. Max(1..i) = i
    <3>1. Max(1..i) \in 1..i /\ \A y \in 1..i : Max(1..i) >= y
      BY <2>1, MaxExists
    <3> QED
      BY <2>1, <3>1
  <2>3. (1..i) \ {i} = 1..i - 1
    OBVIOUS
  <2>4. h[1..i] = MergeBalance(h[1..i - 1], Forger(bs, sign, i), DelegateShare(bs, sign, i), round)
    BY <1>8, <2>1, <2>2, <2>3
  <2> QED
    BY <2>4
<1> QED
  BY <1>9, <1>10, <1>11 DEF PaySteps

\* Nothing but the balances and the row of the round changes, from l to m.
Pays(l, round, m) ==
  /\ m \in Ledgers
  /\ m.voted = l.voted /\ m.vote = l.vote /\ m.produced = l.produced /\ m.missed = l.missed
  /\ \A q \in 1..MaxRound : q # round => m.mem[q] = l.mem[q]
  /\ Matched(l) => Matched(m)

Credits(l, a, x, round, m) ==
  /\ Pays(l, round, m)
  /\ \A c \in Account : m.balance[c] = l.balance[c] + (IF c = a THEN x ELSE 0)
  /\ Total(m) = Total(l) + x

LEMMA CreditMerged ==
  ASSUME NEW l \in Ledgers, NEW a \in Account, NEW x \in Int, NEW round \in 1..MaxRound,
         NEW m, m = MergeBalance(l, a, x, round)
  PROVE  Credits(l, a, x, round, m)
<1>1. /\ m \in Ledgers
      /\ m.balance = [l.balance EXCEPT ![a] = @ + x]
      /\ \A c \in Account : m.balance[c] = l.balance[c] + (IF c = a THEN x ELSE 0)
      /\ m.voted = l.voted /\ m.vote = l.vote /\ m.produced = l.produced /\ m.missed = l.missed
      /\ \A q \in 1..MaxRound : q # round => m.mem[q] = l.mem[q]
  BY BalanceMerged
<1>2. Total(m) = Total(l) + x
  BY <1>1, TotalMerged
<1>3. Matched(l) => Matched(m)
  BY MatchedMerged
<1> QED
  BY <1>1, <1>2, <1>3 DEF Credits, Pays

LEMMA StepCredits ==
  ASSUME NEW n \in Nat, NEW bs, RoundOK(bs, n), NEW l, NEW round \in 1..MaxRound,
         NEW sign \in {1, -1}, NEW s, PaySteps(s, l, round, bs, sign, n), NEW i \in 1..n,
         s[i - 1] \in Ledgers
  PROVE  Credits(s[i - 1], Forger(bs, sign, i), DelegateShare(bs, sign, i), round, s[i])
<1>1. PICK k, m, a, x : k = s[i - 1] /\ m = s[i] /\ a = Forger(bs, sign, i) /\ x = DelegateShare(bs, sign, i)
  OBVIOUS
<1>2. k \in Ledgers /\ a \in Account /\ x \in Int
  BY <1>1, ShareInt
<1>3. m = MergeBalance(k, a, x, round)
  BY <1>1 DEF PaySteps
<1>4. Credits(k, a, x, round, m)
  BY <1>2, <1>3, CreditMerged
<1> QED
  BY <1>1, <1>4

LEMMA PaysThrough ==
  ASSUME NEW l \in Ledgers, NEW round \in 1..MaxRound, NEW k, Pays(l, round, k), NEW m,
         Pays(k, round, m)
  PROVE  Pays(l, round, m)
BY DEF Pays

LEMMA StepsPay ==
  ASSUME NEW n \in Nat, NEW bs, RoundOK(bs, n), NEW l \in Ledgers, NEW round \in 1..MaxRound,
         NEW sign \in {1, -1}, NEW s, PaySteps(s, l, round, bs, sign, n)
  PROVE  \A i \in 0..n : Pays(l, round, s[i])
<1> DEFINE S == {i \in 0..n : Pays(l, round, s[i])}
<1>1. 0 \in S
  BY DEF PaySteps, Pays
<1>2. ASSUME NEW i \in 0..n - 1, i \in S PROVE i + 1 \in S
  <2>1. i + 1 \in 1..n /\ (i + 1) - 1 = i /\ Pays(l, round, s[i]) /\ i + 1 \in 0..n
    BY <1>2
  <2>2. s[(i + 1) - 1] \in Ledgers
    BY <2>1 DEF Pays
  <2>3. Credits(s[(i + 1) - 1], Forger(bs, sign, i + 1), DelegateShare(bs, sign, i + 1), round, s[i + 1])
    BY <2>1, <2>2, StepCredits
  <2>4. Pays(s[i], round, s[i + 1])
    BY <2>1, <2>3 DEF Credits
  <2>5. Pays(l, round, s[i + 1])
    BY <2>1, <2>4, PaysThrough
  <2> QED
    BY <2>1, <2>5
<1> HIDE DEF S
<1>3. ASSUME NEW j \in 0..n PROVE j \in S
  <2>1. j \in Nat /\ \A k \in 0..j - 1 : k \in S => k + 1 \in S
    BY <1>2
  <2> QED
    BY <1>1, <2>1, UpTo
<1> QED
  BY <1>3 DEF S

LEMMA RoundPays ==
  ASSUME NEW n \in Nat, NEW bs, RoundOK(bs, n), NEW l \in Ledgers, NEW round \in 1..MaxRound,
         NEW sign \in {1, -1}, NEW m, m = ApplyRound(l, round, bs, sign)
  PROVE  Pays(l, round, m)
<1>1. PICK s : PaySteps(s, l, round, bs, sign, n)
  BY ApplyRoundSteps
<1>2. Pays(l, round, s[n])
  BY <1>1, StepsPay
<1> QED
  BY <1>1, <1>2 DEF PaySteps

\* What a round takes back from an account is what it has paid to it, where the
\* rewards are the same read backwards.
LEMMA RoundPaidBack ==
  ASSUME NEW n \in Nat, NEW bs, RoundOK(bs, n), NEW l \in Ledgers, NEW m \in Ledgers,
         NEW round \in 1..MaxRound, \A i \in 1..n : bs[i].reward = bs[n + 1 - i].reward,
         NEW k, k = ApplyRound(l, round, bs, 1), NEW u, u = ApplyRound(m, round, bs, -1)
  PROVE  \A a \in Account : u.balance[a] + k.balance[a] = m.balance[a] + l.balance[a]
<1> SUFFICES ASSUME NEW a \in Account
             PROVE  u.balance[a] + k.balance[a] = m.balance[a] + l.balance[a]
  OBVIOUS
<1>0. PICK back \in {1, -1} : back = -1
  OBVIOUS
<1>1. PICK s : PaySteps(s, l, round, bs, 1, n)
  BY ApplyRoundSteps
<1>2. PICK t : PaySteps(t, m, round, bs, back, n)
  BY ApplyRoundSteps
<1>3. \A i \in 0..n : s[i] \in Ledgers /\ t[i] \in Ledgers
  BY <1>1, <1>2, StepsPay DEF Pays
<1>4. \A i \in 0..n : s[i].balance[a] \in Int /\ t[i].balance[a] \in Int
  BY <1>3, LedgerValues
<1> DEFINE S == {i \in 0..n : t[i].balance[a] + s[n].balance[a] = m.balance[a] + s[n - i].balance[a]}
<1>5. 0 \in S
  <2>1. t[0] = m /\ n - 0 = n
    BY <1>2 DEF PaySteps
  <2> QED
    BY <2>1
<1>6. ASSUME NEW i \in 0..n - 1, i \in S PROVE i + 1 \in S
  <2>1. /\ i + 1 \in 1..n /\ (i + 1) - 1 = i /\ i + 1 \in 0..n
        /\ n - i \in 1..n /\ (n - i) - 1 = n - (i + 1) /\ n - i \in 0..n /\ n - (i + 1) \in 0..n
    OBVIOUS
  <2>2. Credits(t[(i + 1) - 1], Forger(bs, back, i + 1), DelegateShare(bs, back, i + 1), round, t[i + 1])
    <3>1. PICK j \in 1..n : j = i + 1
      BY <2>1
    <3>2. t[j - 1] \in Ledgers
      BY <1>3, <2>1, <3>1
    <3>3. Credits(t[j - 1], Forger(bs, back, j), DelegateShare(bs, back, j), round, t[j])
      BY <1>2, <3>2, StepCredits
    <3> QED
      BY <3>1, <3>3
  <2>3. Credits(s[(n - i) - 1], Forger(bs, 1, n - i), DelegateShare(bs, 1, n - i), round, s[n - i])
    BY <1>1, <1>3, <2>1, StepCredits
  <2>4. Forger(bs, back, i + 1) = Forger(bs, 1, n - i)
    BY <1>0, <2>1 DEF Forger, RoundOK
  <2>5. PICK x \in Int, y \in Int : x = DelegateShare(bs, back, i + 1) /\ y = DelegateShare(bs, 1, n - i)
    BY <2>1, ShareInt
  <2>6. x = -y
    <3>1. bs[i + 1].reward = bs[n - i].reward /\ bs[n - i].reward \in Nat
      <4>1. n + 1 - (i + 1) = n - i
        OBVIOUS
      <4> QED
        BY <2>1, <4>1 DEF RoundOK
    <3>2. Payment(i + 1, Fees(bs), [j \in 1..Len(bs) |-> bs[j].reward], 1)
            = Payment(n - i, Fees(bs), [j \in 1..Len(bs) |-> bs[j].reward], Len(bs))
      <4>1. (i + 1 = 1) <=> (n - i = n)
        OBVIOUS
      <4> QED
        BY <2>1, <3>1, <4>1 DEF Payment, RoundOK
    <3>3. PICK p : p = Payment(n - i, Fees(bs), [j \in 1..Len(bs) |-> bs[j].reward], Len(bs))
      OBVIOUS
    <3>4. x = (-1) * p /\ y = 1 * p
      BY <1>0, <2>5, <3>2, <3>3 DEF DelegateShare
    <3>5. p \in Int
      <4>1. PICK q \in Nat, r \in Nat : Fees(bs) \div D = q /\ Fees(bs) % D = r
        BY FeesNat, Divided
      <4>2. [j \in 1..Len(bs) |-> bs[j].reward][n - i] \in Nat
        BY <2>1 DEF RoundOK
      <4> QED
        BY <3>3, <4>1, <4>2 DEF Payment
    <3> QED
      BY <3>4, <3>5
  <2>7. t[i + 1].balance[a] = t[i].balance[a] + (IF a = Forger(bs, 1, n - i) THEN x ELSE 0)
    BY <2>1, <2>2, <2>4, <2>5 DEF Credits
  <2>8. s[n - i].balance[a] =
          s[n - (i + 1)].balance[a] + (IF a = Forger(bs, 1, n - i) THEN y ELSE 0)
    BY <2>1, <2>3, <2>5 DEF Credits
  <2>9. PICK b \in Int, c \in Int, e \in Int, f \in Int, g \in Int, w \in Int :
          /\ b = t[i + 1].balance[a] /\ c = t[i].balance[a] /\ e = s[n].balance[a]
          /\ f = s[n - i].balance[a] /\ g = s[n - (i + 1)].balance[a] /\ w = m.balance[a]
    <3>1. t[i].balance[a] \in Int /\ t[i + 1].balance[a] \in Int
      BY <1>4, <2>1
    <3>2. /\ s[n].balance[a] \in Int /\ s[n - i].balance[a] \in Int
          /\ s[n - (i + 1)].balance[a] \in Int
      BY <1>4, <2>1
    <3>3. m.balance[a] \in Int
      BY LedgerValues
    <3> QED
      BY <3>1, <3>2, <3>3
  <2>10. c + e = w + f
    BY <1>6, <2>9
  <2>11. b + e = w + g
    BY <2>6, <2>7, <2>8, <2>9, <2>10
  <2> QED
    BY <2>1, <2>9, <2>11
<1> HIDE DEF S
<1>7. n \in S
  BY <1>5, <1>6, UpTo
<1>8. t[n].balance[a] + s[n].balance[a] = m.balance[a] + s[n - n].balance[a]
  BY <1>7 DEF S
<1>9. n - n = 0 /\ s[0] = l /\ s[n] = k /\ t[n] = u
  BY <1>0, <1>1, <1>2 DEF PaySteps
<1> QED
  BY <1>8, <1>9

\* A whole round pays its fees and its rewards, and takes them back.
LEMMA RoundPaysAll ==
  ASSUME NEW bs, RoundOK(bs, D), NEW l \in Ledgers, NEW round \in 1..MaxRound,
         NEW sign \in {1, -1}, NEW m, m = ApplyRound(l, round, bs, sign)
  PROVE  Total(m) = Total(l) + sign * (Fees(bs) + Rewards(bs)) /\ Total(l) \in Int
<1>1. PICK n \in Nat \ {0, 1} : n = D
  BY RoundsAssumption
<1>2. RoundOK(bs, n) /\ n \in Nat
  BY <1>1
<1>3. PICK s : PaySteps(s, l, round, bs, sign, n)
  BY <1>2, ApplyRoundSteps
<1>4. \A i \in 0..n : s[i] \in Ledgers
  BY <1>2, <1>3, StepsPay DEF Pays
<1>5. PICK fees \in Nat, q \in Nat, r \in Nat :
        fees = Fees(bs) /\ q = fees \div D /\ r = fees % D /\ fees = q * n + r
  <2>1. PICK fees \in Nat : fees = Fees(bs)
    BY <1>2, FeesNat
  <2>2. PICK q \in Nat, r \in 0..D - 1 : fees \div D = q /\ fees % D = r /\ fees = q * D + r
    BY <2>1, Divided
  <2>3. r \in Nat
    BY RoundsAssumption
  <2> QED
    BY <1>1, <2>1, <2>2, <2>3
<1>6. PICK g : g = [j \in 1..n |-> bs[j].reward]
  OBVIOUS
<1>7. \A j \in 1..n : g[j] \in Nat /\ g[j] = bs[j].reward
  BY <1>2, <1>6 DEF RoundOK
<1>8. PICK last \in 1..n : last = IF sign = 1 THEN n ELSE 1
  OBVIOUS
<1>9. ASSUME NEW i \in 1..n
      PROVE  DelegateShare(bs, sign, i) = sign * ((q + g[i]) + IF i = last THEN r ELSE 0)
  BY <1>2, <1>5, <1>6, <1>8, <1>9 DEF DelegateShare, Payment, RoundOK
<1> DEFINE A(i) == (i * q + SumOver(g, 1..i)) + IF last <= i THEN r ELSE 0
           S == {i \in 0..n : Total(s[i]) = Total(l) + sign * A(i)}
<1>10. Total(l) \in Int
  <2>1. IsFiniteSet(Account) /\ \A a \in Account : l.balance[a] \in Int
    BY RoundsAssumption, LedgerValues
  <2> QED
    BY <2>1, SumInt DEF Total
<1>11. SumOver(g, 1..0) = 0
  <2>1. PICK E : E = {}
    OBVIOUS
  <2>2. 1..0 = E /\ SumOver(g, E) = 0
    BY <2>1, SumEmpty
  <2> QED
    BY <2>2
<1>12. 0 \in S
  <2>1. A(0) = 0
    BY <1>8, <1>11
  <2>2. s[0] = l
    BY <1>3 DEF PaySteps
  <2> HIDE DEF A
  <2>3. sign * A(0) = 0
    BY <2>1
  <2> QED
    BY <1>10, <2>2, <2>3
<1>13. ASSUME NEW i \in 0..n - 1, i \in S PROVE i + 1 \in S
  <2>1. PICK j \in 1..n : j = i + 1
    OBVIOUS
  <2>2. i \in Nat /\ j - 1 = i /\ j \in 0..n /\ \A x \in 1..i + 1 : g[x] \in Int
    BY <1>7, <2>1
  <2>3. SumOver(g, 1..i) \in Int /\ SumOver(g, 1..j) = SumOver(g, 1..i) + g[j]
    BY <2>1, <2>2, SumUpTo
  <2>4. Credits(s[j - 1], Forger(bs, sign, j), DelegateShare(bs, sign, j), round, s[j])
    <3>1. s[j - 1] \in Ledgers
      BY <1>4, <2>2
    <3> QED
      BY <1>2, <1>3, <3>1, StepCredits
  <2>5. Total(s[j]) = Total(s[i]) + DelegateShare(bs, sign, j)
    BY <2>2, <2>4 DEF Credits
  <2>6. PICK a \in Int, b \in Int :
          a = A(i) /\ b = (q + g[j]) + IF j = last THEN r ELSE 0
    <3>1. A(i) \in Int
      <4>1. i * q \in Int
        BY <2>2, Products
      <4> QED
        BY <2>3, <4>1
    <3>2. g[j] \in Int
      BY <1>7
    <3> QED
      BY <3>1, <3>2
  <2>7. A(j) = a + b
    <3>1. PICK p \in Int, z \in Int : p = i * q /\ z = SumOver(g, 1..i)
      BY <2>2, <2>3, Products
    <3>2. j * q = p + q
      <4>1. i \in Int /\ q \in Int /\ 1 \in Int
        BY <2>2
      <4>2. (i + 1) * q = i * q + 1 * q
        BY <4>1, Products
      <4> QED
        BY <2>1, <3>1, <4>2
    <3>3. A(j) = ((p + q) + (z + g[j])) + IF last <= j THEN r ELSE 0
      BY <2>3, <3>1, <3>2
    <3>4. a = (p + z) + IF last <= i THEN r ELSE 0
      BY <2>6, <3>1
    <3>5. (IF last <= j THEN r ELSE 0)
            = (IF last <= i THEN r ELSE 0) + IF j = last THEN r ELSE 0
      BY <2>1, <2>2
    <3>6. g[j] \in Int
      BY <1>7
    <3> HIDE DEF A
    <3> QED
      BY <2>6, <3>3, <3>4, <3>5, <3>6
  <2>8. DelegateShare(bs, sign, j) = sign * b
    BY <1>9, <2>6
  <2>9. Total(s[i]) = Total(l) + sign * a
    BY <1>13, <2>6
  <2>10. sign * (a + b) = sign * a + sign * b /\ sign * a \in Int /\ sign * b \in Int
    OBVIOUS
  <2>11. Total(s[j]) = Total(l) + sign * A(j)
    BY <1>10, <2>5, <2>7, <2>8, <2>9, <2>10
  <2> QED
    BY <2>1, <2>2, <2>11
<1> HIDE DEF S
<1>14. n \in S
  BY <1>2, <1>12, <1>13, UpTo
<1>15. Total(s[n]) = Total(l) + sign * A(n)
  BY <1>14 DEF S
<1>16. A(n) = Fees(bs) + Rewards(bs)
  <2>1. SumOver(g, 1..n) = Rewards(bs) /\ Rewards(bs) \in Nat
    BY <1>2, <1>6, FeesNat DEF Rewards, RoundOK
  <2>2. n * q = q * n /\ n * q \in Int
    OBVIOUS
  <2>3. A(n) = (n * q + Rewards(bs)) + r
    BY <1>8, <2>1
  <2> HIDE DEF A
  <2>4. PICK x \in Int, y \in Int : x = q * n /\ y = Rewards(bs)
    BY <2>1, <2>2
  <2>5. A(n) = (x + y) + r /\ Fees(bs) = x + r
    BY <1>5, <2>2, <2>3, <2>4
  <2> QED
    BY <2>4, <2>5
<1> HIDE DEF A
<1> QED
  BY <1>3, <1>10, <1>15, <1>16 DEF PaySteps

-----------------------------------------------------------------------------
(* How a round lands                                                       *)

\* The row of the round becomes votes, from l to m.
RowsLand(l, round, m) ==
  /\ m \in Ledgers
  /\ m.balance = l.balance /\ m.voted = l.voted /\ m.produced = l.produced
  /\ m.mem[round] = NoRows
  /\ \A q \in 1..MaxRound : q # round => m.mem[q] = l.mem[q]
  /\ Matched(l) => Matched(m)

LEMMA NoRowsIs == NoRows \in [Delegate -> Int] /\ \A d \in Delegate : NoRows[d] = 0
BY DEF NoRows

LEMMA MatchedLanded ==
  ASSUME NEW l \in Ledgers, NEW m \in Ledgers, NEW round \in 1..MaxRound,
         m.balance = l.balance, m.voted = l.voted, m.mem[round] = NoRows,
         \A q \in 1..MaxRound : q # round => m.mem[q] = l.mem[q],
         \A d \in Delegate : m.vote[d] = l.vote[d] + l.mem[round][d],
         Matched(l)
  PROVE  Matched(m)
<1> SUFFICES ASSUME NEW d \in Delegate PROVE Cast(m, d) = Held(m, d)
  BY DEF Matched
<1>1. /\ Cast(m, d) - m.vote[d] = Cast(l, d) - l.vote[d] + (m.mem[round][d] - l.mem[round][d])
      /\ Cast(l, d) \in Int /\ Cast(m, d) \in Int
  <2>1. \A q \in 1..MaxRound : q # round => m.mem[q][d] = l.mem[q][d]
    OBVIOUS
  <2> QED
    BY <2>1, CastChanges
<1>2. Held(m, d) = Held(l, d)
  BY DEF Held
<1>3. m.mem[round][d] = 0
  BY NoRowsIs
<1>4. PICK x \in Int, v \in Int, s \in Int, c \in Int :
        x = l.mem[round][d] /\ v = l.vote[d] /\ s = Cast(l, d) /\ c = Cast(m, d)
  BY <1>1, LedgerValues
<1>5. c - (v + x) = s - v + (0 - x)
  BY <1>1, <1>3, <1>4
<1>6. c = s
  BY <1>5
<1> QED
  BY <1>2, <1>4, <1>6 DEF Matched

LEMMA VotesLanded ==
  ASSUME NEW l \in Ledgers, NEW round \in 1..MaxRound, NEW misses \in [Delegate -> Int],
         NEW m, m = FlushRound([UpdateVotes(l, round) EXCEPT !.missed = misses], round)
  PROVE  RowsLand(l, round, m)
<1>1. /\ l.balance \in [Account -> Int] /\ l.mem \in [1..MaxRound -> [Delegate -> Int]]
      /\ l.vote \in [Delegate -> Int] /\ l.voted \in [Account -> [Delegate -> Nat]]
      /\ l.produced \in [Delegate -> Int]
  BY DEF Ledgers
<1> DEFINE vote == [d \in Delegate |-> l.vote[d] + l.mem[round][d]]
           mem == [l.mem EXCEPT ![round] = NoRows]
<1>2. vote \in [Delegate -> Int] /\ \A d \in Delegate : vote[d] = l.vote[d] + l.mem[round][d]
  BY LedgerValues
<1>3. /\ mem \in [1..MaxRound -> [Delegate -> Int]] /\ mem[round] = NoRows
      /\ \A q \in 1..MaxRound : q # round => mem[q] = l.mem[q]
  BY <1>1, NoRowsIs
<1>4. m = [l EXCEPT !.vote = vote, !.missed = misses, !.mem = mem]
  BY DEF FlushRound, UpdateVotes, Ledgers
<1> HIDE DEF vote, mem
<1>5. /\ m \in Ledgers
      /\ m.balance = l.balance /\ m.voted = l.voted /\ m.produced = l.produced
      /\ m.mem = mem /\ m.vote = vote
  BY <1>2, <1>3, <1>4 DEF Ledgers
<1>6. m.mem[round] = NoRows /\ \A q \in 1..MaxRound : q # round => m.mem[q] = l.mem[q]
  BY <1>3, <1>5
<1>7. \A d \in Delegate : m.vote[d] = l.vote[d] + l.mem[round][d]
  BY <1>2, <1>5
<1>8. Matched(l) => Matched(m)
  BY <1>5, <1>6, <1>7, MatchedLanded
<1> QED
  BY <1>5, <1>6, <1>8 DEF RowsLand

RoundLands(l, round, bs, sign, m) ==
  /\ m \in Ledgers
  /\ m.voted = l.voted /\ m.produced = l.produced
  /\ m.mem[round] = NoRows
  /\ \A q \in 1..MaxRound : q # round => m.mem[q] = l.mem[q]
  /\ Total(m) = Total(l) + sign * (Fees(bs) + Rewards(bs))
  /\ Matched(l) => Matched(m)
  /\ \E k \in Ledgers : k.balance = l.balance /\ m.balance = ApplyRound(k, round, bs, sign).balance

LEMMA RoundLanded ==
  ASSUME NEW l \in Ledgers, NEW round \in 1..MaxRound, NEW bs, RoundOK(bs, D),
         NEW sign \in {1, -1}, NEW outsiders, NEW m, m = Land(l, round, bs, outsiders, sign)
  PROVE  RoundLands(l, round, bs, sign, m)
<1>1. PICK misses : misses = [d \in Delegate |-> IF d \in outsiders THEN l.missed[d] + sign ELSE l.missed[d]]
  OBVIOUS
<1>2. misses \in [Delegate -> Int]
  <2>1. l.missed \in [Delegate -> Int] /\ sign \in Int
    BY DEF Ledgers
  <2> QED
    BY <1>1, <2>1
<1>3. PICK k : k = FlushRound([UpdateVotes(l, round) EXCEPT !.missed = misses], round)
  OBVIOUS
<1>4. k = FlushRound(UpdateMissedBlocks(UpdateVotes(l, round), outsiders, sign), round)
  <2>1. UpdateMissedBlocks(UpdateVotes(l, round), outsiders, sign)
          = [UpdateVotes(l, round) EXCEPT !.missed = misses]
    BY <1>1 DEF UpdateMissedBlocks, UpdateVotes, Ledgers
  <2> QED
    BY <1>3, <2>1
<1>5. PICK p : p = ApplyRound(k, round, bs, sign)
  OBVIOUS
<1>6. m = FlushRound(UpdateVotes(p, round), round)
  BY <1>4, <1>5 DEF Land
<1>7. RowsLand(l, round, k)
  BY <1>2, <1>3, VotesLanded
<1>8. k \in Ledgers /\ D \in Nat
  BY <1>7, RoundsAssumption DEF RowsLand
<1>9. Pays(k, round, p)
  BY <1>5, <1>8, RoundPays
<1>10. Total(p) = Total(k) + sign * (Fees(bs) + Rewards(bs))
  BY <1>5, <1>8, RoundPaysAll
<1>11. p \in Ledgers
  BY <1>9 DEF Pays
<1>12. RowsLand(p, round, m)
  <2>1. PICK same : same = p.missed
    OBVIOUS
  <2>2. same \in [Delegate -> Int]
    BY <1>11, <2>1 DEF Ledgers
  <2>3. UpdateVotes(p, round) = [UpdateVotes(p, round) EXCEPT !.missed = same]
    BY <1>11, <2>1 DEF UpdateVotes, Ledgers
  <2>4. m = FlushRound([UpdateVotes(p, round) EXCEPT !.missed = same], round)
    BY <1>6, <2>3
  <2> QED
    BY <1>11, <2>2, <2>4, VotesLanded
<1>13. /\ m \in Ledgers /\ m.voted = l.voted /\ m.produced = l.produced
       /\ m.mem[round] = NoRows
       /\ \A q \in 1..MaxRound : q # round => m.mem[q] = l.mem[q]
       /\ Matched(l) => Matched(m)
  BY <1>7, <1>9, <1>12 DEF RowsLand, Pays
<1>14. Total(m) = Total(l) + sign * (Fees(bs) + Rewards(bs))
  <2>1. Total(k) = Total(l) /\ Total(m) = Total(p)
    BY <1>7, <1>12 DEF RowsLand, Total
  <2> QED
    BY <1>10, <2>1
<1>15. k.balance = l.balance /\ m.balance = ApplyRound(k, round, bs, sign).balance
  BY <1>5, <1>7, <1>12 DEF RowsLand
<1> QED
  BY <1>8, <1>13, <1>14, <1>15 DEF RoundLands

-----------------------------------------------------------------------------
(* What the block of a height does to the tables, forwards and backwards   *)

Block == [generator : Account, transaction : TransactionTypes, fee : Nat, reward : Nat]

LEMMA PartOf ==
  ASSUME NEW S, NEW s \in Seq(S), NEW c \in Nat, NEW n \in Nat, c + n = Len(s)
  PROVE  /\ Len(SubSeq(s, c + 1, Len(s))) = n /\ DOMAIN SubSeq(s, c + 1, Len(s)) = 1..n
         /\ \A i \in 1..n : SubSeq(s, c + 1, Len(s))[i] = s[c + i] /\ s[c + i] \in S
<1>1. \A i \in c + 1..c + n : s[i] \in S
  OBVIOUS
<1>2. SubSeq(s, c + 1, c + n) \in Seq(S) /\ Len(SubSeq(s, c + 1, c + n)) = n
  BY <1>1
<1>3. \A i \in 1..n : SubSeq(s, c + 1, c + n)[i] = s[c + i] /\ s[c + i] \in S
  BY <1>1
<1>4. DOMAIN SubSeq(s, c + 1, c + n) = 1..n
  BY <1>2
<1>5. Len(s) = c + n
  OBVIOUS
<1> QED
  BY <1>2, <1>3, <1>4, <1>5

LEMMA RoundOfChain ==
  ASSUME NEW chain \in Seq(Block), NEW h \in 2..MaxHeight, Len(chain) = h, h % D = 0,
         NEW bs, bs = RoundBlocks(chain, Calc(h))
  PROVE  \E c \in Nat : /\ h = c + D /\ c = (Calc(h) - 1) * D
                        /\ RoundOK(bs, D)
                        /\ \A i \in 1..D : bs[i] = chain[c + i]
<1>1. h \in Nat \ {0}
  OBVIOUS
<1>2. Calc(h) \in Nat \ {0} /\ h = (Calc(h) - 1) * D + D
  BY <1>1, RoundEnds
<1>3. PICK n \in Nat \ {0, 1} : n = D
  BY RoundsAssumption
<1>4. PICK k \in Nat : k = Calc(h) - 1
  BY <1>2
<1>5. PICK c \in Nat : c = k * n
  <2>1. k * n \in Nat
    OBVIOUS
  <2> QED
    BY <2>1
<1>6. h = c + n /\ c = (Calc(h) - 1) * D
  BY <1>2, <1>3, <1>4, <1>5
<1>7. bs = SubSeq(chain, c + 1, h)
  BY <1>6 DEF RoundBlocks
<1>8. /\ Len(bs) = n /\ DOMAIN bs = 1..n
      /\ \A i \in 1..n : bs[i] = chain[c + i] /\ chain[c + i] \in Block
  <2>1. c + n = Len(chain) /\ bs = SubSeq(chain, c + 1, Len(chain))
    BY <1>3, <1>6, <1>7
  <2>2. PICK S : S = Block
    OBVIOUS
  <2>3. chain \in Seq(S)
    BY <2>2
  <2>4. /\ Len(bs) = n /\ DOMAIN bs = 1..n
        /\ \A i \in 1..n : bs[i] = chain[c + i] /\ chain[c + i] \in S
    BY ONLY c \in Nat, n \in Nat, <2>1, <2>3, PartOf
  <2> QED
    BY <2>2, <2>4
<1>10. RoundOK(bs, n)
  BY <1>8 DEF RoundOK, Block
<1> QED
  BY <1>3, <1>6, <1>8, <1>10

LEMMA GeneratorMerged ==
  ASSUME NEW l \in Ledgers, NEW g, NEW sign \in {1, -1}, NEW m,
         m = MergeBlockGenerator(l, g, sign)
  PROVE  /\ m \in Ledgers
         /\ m.balance = l.balance /\ m.voted = l.voted /\ m.vote = l.vote /\ m.mem = l.mem
         /\ \A d \in Delegate : m.produced[d] = l.produced[d] + (IF d = g THEN sign ELSE 0)
<1>1. l.produced \in [Delegate -> Int] /\ \A d \in Delegate : l.produced[d] \in Int
  BY DEF Ledgers
<1>2. CASE g \in Delegate
  <2> DEFINE produced == [l.produced EXCEPT ![g] = @ + sign]
  <2>1. /\ produced \in [Delegate -> Int]
        /\ \A d \in Delegate : produced[d] = l.produced[d] + (IF d = g THEN sign ELSE 0)
    BY <1>1, <1>2
  <2>2. m = [l EXCEPT !.produced = produced]
    BY <1>2 DEF MergeBlockGenerator
  <2> HIDE DEF produced
  <2> QED
    BY <2>1, <2>2 DEF Ledgers
<1>3. CASE g \notin Delegate
  BY <1>1, <1>3 DEF MergeBlockGenerator
<1> QED
  BY <1>2, <1>3

LEMMA MatchedSame ==
  ASSUME NEW l, NEW m, m.balance = l.balance, m.voted = l.voted, m.vote = l.vote, m.mem = l.mem
  PROVE  (Matched(l) <=> Matched(m)) /\ Total(l) = Total(m)
BY DEF Matched, Cast, Held, Total

\* The tables from l to m by a tick for the last block of the chain, at height h
Ticks(l, chain, h, m) ==
  /\ m \in Ledgers
  /\ m.voted = l.voted
  /\ \A d \in Delegate :
       m.produced[d] = l.produced[d] + (IF d = chain[h].generator THEN 1 ELSE 0)
  /\ \A q \in 1..MaxRound : q # Calc(h) => m.mem[q] = l.mem[q]
  /\ Matched(l) => Matched(m)
  /\ h % D # 0 => m.balance = l.balance /\ m.vote = l.vote /\ m.mem = l.mem
  /\ h % D = 0 =>
       LET bs == RoundBlocks(chain, Calc(h))
       IN  /\ m.mem[Calc(h)] = NoRows
           /\ Total(m) = Total(l) + 1 * (Fees(bs) + Rewards(bs))
           /\ \E k \in Ledgers :
                k.balance = l.balance /\ m.balance = ApplyRound(k, Calc(h), bs, 1).balance

LEMMA Ticked ==
  ASSUME NEW l \in Ledgers, NEW chain \in Seq(Block), NEW h \in 2..MaxHeight, Len(chain) = h,
         NEW m, m = Tick(l, chain)
  PROVE  Ticks(l, chain, h, m)
<1>1. PICK bs, k : bs = RoundBlocks(chain, Calc(h))
                   /\ k = MergeBlockGenerator(l, chain[h].generator, 1)
  OBVIOUS
<1>2. m = IF FinishRound(h) THEN Land(k, Calc(h), bs, Outsiders(l, h, bs), 1) ELSE k
  BY <1>1 DEF Tick
<1>3. FinishRound(h) <=> h % D = 0
  BY FinishIs
<1>4. /\ k \in Ledgers
      /\ k.balance = l.balance /\ k.voted = l.voted /\ k.vote = l.vote /\ k.mem = l.mem
      /\ \A d \in Delegate :
           k.produced[d] = l.produced[d] + (IF d = chain[h].generator THEN 1 ELSE 0)
  <2>1. PICK g, one : g = chain[h].generator /\ one = 1 /\ one \in {1, -1}
    OBVIOUS
  <2>2. k = MergeBlockGenerator(l, g, one)
    BY <1>1, <2>1
  <2> QED
    BY <2>1, <2>2, GeneratorMerged
<1>5. (Matched(l) => Matched(k)) /\ Total(l) = Total(k)
  BY <1>4, MatchedSame
<1>6. CASE h % D # 0
  BY <1>2, <1>3, <1>4, <1>5, <1>6 DEF Ticks
<1>7. CASE h % D = 0
  <2>1. PICK round \in 1..MaxRound : round = Calc(h)
    <3>1. h \in 1..MaxHeight + 1
      BY RoundsAssumption
    <3> QED
      BY <3>1, RoundsOfChain
  <2>2. RoundOK(bs, D)
    BY <1>1, <1>7, RoundOfChain
  <2>3. RoundLands(k, round, bs, 1, m)
    <3>1. PICK one, outs : one = 1 /\ one \in {1, -1} /\ outs = Outsiders(l, h, bs)
      OBVIOUS
    <3>2. m = Land(k, round, bs, outs, one)
      BY <1>2, <1>3, <1>7, <2>1, <3>1
    <3>3. RoundLands(k, round, bs, one, m)
      <4>1. k \in Ledgers /\ one \in {1, -1}
        BY <1>4, <3>1
      <4> QED
        BY <2>2, <3>2, <4>1, RoundLanded
    <3> QED
      BY <3>1, <3>3
  <2> QED
    BY <1>1, <1>4, <1>5, <1>7, <2>1, <2>3 DEF Ticks, RoundLands
<1> QED
  BY <1>6, <1>7

SnapshotOK ==
  /\ snapshot.mem \in [1..MaxRound -> [Delegate -> Int]]
  /\ snapshot.vote \in [Delegate -> Int]

\* The same backwards
Unticks(l, chain, h, m) ==
  /\ m \in Ledgers
  /\ m.voted = l.voted
  /\ \A d \in Delegate :
       m.produced[d] = l.produced[d] + (IF d = chain[h].generator THEN -1 ELSE 0)
  /\ h % D # 0 => m.balance = l.balance /\ m.vote = l.vote /\ m.mem = l.mem
  /\ h % D = 0 =>
       LET bs == RoundBlocks(chain, Calc(h))
       IN  /\ m.vote = snapshot.vote
           /\ \A q \in 1..MaxRound, d \in Delegate :
                m.mem[q][d] = (IF q = Calc(h) THEN 0 ELSE l.mem[q][d]) + snapshot.mem[q][d]
           /\ Total(m) = Total(l) + (-1) * (Fees(bs) + Rewards(bs))
           /\ \E k \in Ledgers :
                k.balance = l.balance /\ m.balance = ApplyRound(k, Calc(h), bs, -1).balance

LEMMA SnapshotRestored ==
  ASSUME NEW l \in Ledgers, SnapshotOK, NEW m, m = RestoreSnapshot(l)
  PROVE  /\ m \in Ledgers
         /\ m.balance = l.balance /\ m.voted = l.voted /\ m.produced = l.produced
         /\ m.vote = snapshot.vote
         /\ \A q \in 1..MaxRound, d \in Delegate : m.mem[q][d] = l.mem[q][d] + snapshot.mem[q][d]
<1> DEFINE mem == [r \in 1..MaxRound |-> [d \in Delegate |-> l.mem[r][d] + snapshot.mem[r][d]]]
<1>1. \A r \in 1..MaxRound, d \in Delegate : l.mem[r][d] \in Int /\ snapshot.mem[r][d] \in Int
  BY LedgerValues DEF SnapshotOK
<1>2. /\ mem \in [1..MaxRound -> [Delegate -> Int]]
      /\ \A q \in 1..MaxRound, d \in Delegate : mem[q][d] = l.mem[q][d] + snapshot.mem[q][d]
  BY <1>1
<1>3. m = [l EXCEPT !.mem = mem, !.vote = snapshot.vote]
  BY DEF RestoreSnapshot, Ledgers
<1> HIDE DEF mem
<1>4. snapshot.vote \in [Delegate -> Int]
  BY DEF SnapshotOK
<1> QED
  BY <1>2, <1>3, <1>4 DEF Ledgers

LEMMA Unticked ==
  ASSUME NEW l \in Ledgers, NEW chain \in Seq(Block), NEW h \in 2..MaxHeight, Len(chain) = h,
         SnapshotOK, NEW m, m = BackwardTick(l, chain)
  PROVE  Unticks(l, chain, h, m)
<1>1. PICK bs, k, back : /\ bs = RoundBlocks(chain, Calc(h))
                         /\ k = MergeBlockGenerator(l, chain[h].generator, back)
                         /\ back = -1 /\ back \in {1, -1}
  OBVIOUS
<1>2. m = IF FinishRoundBackward(h)
          THEN RestoreSnapshot(Land(k, Calc(h), bs, Outsiders(l, h, bs), back)) ELSE k
  BY <1>1 DEF BackwardTick
<1>3. FinishRoundBackward(h) <=> h % D = 0
  BY FinishIs
<1>4. /\ k \in Ledgers
      /\ k.balance = l.balance /\ k.voted = l.voted /\ k.vote = l.vote /\ k.mem = l.mem
      /\ \A d \in Delegate :
           k.produced[d] = l.produced[d] + (IF d = chain[h].generator THEN back ELSE 0)
  <2>1. PICK g : g = chain[h].generator
    OBVIOUS
  <2>2. k = MergeBlockGenerator(l, g, back) /\ back \in {1, -1}
    BY <1>1, <2>1
  <2> QED
    BY <2>1, <2>2, GeneratorMerged
<1>5. Total(l) = Total(k)
  BY <1>4, MatchedSame
<1>6. CASE h % D # 0
  BY <1>1, <1>2, <1>3, <1>4, <1>5, <1>6 DEF Unticks
<1>7. CASE h % D = 0
  <2>1. PICK round \in 1..MaxRound : round = Calc(h)
    <3>1. h \in 1..MaxHeight + 1
      BY RoundsAssumption
    <3> QED
      BY <3>1, RoundsOfChain
  <2>2. RoundOK(bs, D)
    BY <1>1, <1>7, RoundOfChain
  <2>3. PICK x, outs : x = Land(k, round, bs, outs, back) /\ outs = Outsiders(l, h, bs)
    OBVIOUS
  <2>4. RoundLands(k, round, bs, back, x)
    <3>1. k \in Ledgers /\ back \in {1, -1}
      BY <1>1, <1>4
    <3> QED
      BY <2>2, <2>3, <3>1, RoundLanded
  <2>5. m = RestoreSnapshot(x)
    BY <1>2, <1>3, <1>7, <2>1, <2>3
  <2>6. x \in Ledgers
    BY <2>4 DEF RoundLands
  <2>7. /\ m \in Ledgers
        /\ m.balance = x.balance /\ m.voted = x.voted /\ m.produced = x.produced
        /\ m.vote = snapshot.vote
        /\ \A q \in 1..MaxRound, d \in Delegate : m.mem[q][d] = x.mem[q][d] + snapshot.mem[q][d]
    BY <2>5, <2>6, SnapshotRestored
  <2>8. \A q \in 1..MaxRound, d \in Delegate :
          x.mem[q][d] = IF q = round THEN 0 ELSE l.mem[q][d]
    BY <1>4, <2>4, NoRowsIs DEF RoundLands
  <2>9. Total(m) = Total(l) + back * (Fees(bs) + Rewards(bs))
    <3>1. Total(m) = Total(x)
      BY <2>7 DEF Total
    <3> QED
      BY <1>5, <2>4, <3>1 DEF RoundLands
  <2>10. \E y \in Ledgers :
           y.balance = l.balance /\ m.balance = ApplyRound(y, round, bs, back).balance
    BY <1>4, <2>4, <2>7 DEF RoundLands
  <2>11. m.voted = l.voted /\ m.produced = k.produced
    BY <1>4, <2>4, <2>7 DEF RoundLands
  <2>12. \A q \in 1..MaxRound, d \in Delegate :
           m.mem[q][d] = (IF q = Calc(h) THEN 0 ELSE l.mem[q][d]) + snapshot.mem[q][d]
    BY <2>1, <2>7, <2>8
  <2> QED
    BY <1>1, <1>4, <1>7, <2>1, <2>7, <2>9, <2>10, <2>11, <2>12 DEF Unticks
<1> QED
  BY <1>6, <1>7

-----------------------------------------------------------------------------
(* A block, and its rollback                                               *)

StepOn(l, chain, h) == Tick(Apply(l, chain[h].transaction, Calc(h)), chain)
StepBack(l, chain, h) == BackwardTick(Undo(l, chain[h].transaction, Calc(h)), chain)

LEMMA HeightIs ==
  ASSUME NEW chain \in Seq(Block), NEW h \in 2..MaxHeight, Len(chain) = h
  PROVE  /\ chain[h] \in Block /\ chain[h].transaction \in TransactionTypes
         /\ Calc(h) \in 1..MaxRound
<1>1. h \in 1..MaxHeight + 1 /\ h \in 1..Len(chain)
  BY RoundsAssumption
<1>2. chain[h] \in Block
  BY <1>1
<1> QED
  BY <1>1, <1>2, RoundsOfChain DEF Block

LEMMA SameElects ==
  ASSUME NEW l, NEW m
  PROVE  Elects(l) = Elects(m) <=>
           /\ l.balance = m.balance /\ l.voted = m.voted /\ l.vote = m.vote
           /\ l.mem = m.mem /\ l.produced = m.produced
BY DEF Elects

\* A rolled-back block leaves the tables as they were before it.
LEMMA BlockRestored ==
  ASSUME NEW l \in Ledgers, NEW m \in Ledgers, NEW chain \in Seq(Block), NEW h \in 2..MaxHeight,
         Len(chain) = h, SnapshotOK, FitsIn(l.voted, chain[h].transaction),
         Elects(m) = Elects(StepOn(l, chain, h)), NEW u, u = StepBack(m, chain, h),
         h % D = 0 =>
           /\ ~Uneven(RoundBlocks(chain, Calc(h)))
           /\ \A q \in 1..MaxRound : q # Calc(h) => l.mem[q] = NoRows
           /\ snapshot.mem = l.mem /\ snapshot.vote = l.vote
  PROVE  u \in Ledgers /\ Elects(u) = Elects(l)
<1>1. PICK t, round, a, k, v :
        /\ t = chain[h].transaction /\ round = Calc(h)
        /\ a = Apply(l, t, round) /\ k = Tick(a, chain) /\ v = Undo(m, t, round)
  OBVIOUS
<1>2. t \in TransactionTypes /\ round \in 1..MaxRound
  BY <1>1, HeightIs
<1>3. Applies(l, t, round, a) /\ Undoes(m, t, round, v)
  BY <1>1, <1>2, Applied, Undone
<1>4. a \in Ledgers /\ v \in Ledgers
  BY <1>3 DEF Applies, Undoes
<1>5. Ticks(a, chain, h, k)
  BY <1>1, <1>4, Ticked
<1>6. Unticks(v, chain, h, u)
  BY <1>1, <1>4, Unticked DEF StepBack
<1>7. m.balance = k.balance /\ m.voted = k.voted /\ m.vote = k.vote /\ m.mem = k.mem
      /\ m.produced = k.produced
  BY <1>1, SameElects DEF StepOn
<1>8. u \in Ledgers
  BY <1>6 DEF Unticks
<1>9. u.produced = l.produced
  <2>1. \A d \in Delegate : l.produced[d] \in Int
    BY DEF Ledgers
  <2>2. \A d \in Delegate :
          k.produced[d] = l.produced[d] + (IF d = chain[h].generator THEN 1 ELSE 0)
    BY <1>3, <1>5 DEF Applies, Ticks
  <2>3. \A d \in Delegate :
          u.produced[d] = k.produced[d] + (IF d = chain[h].generator THEN -1 ELSE 0)
    BY <1>3, <1>6, <1>7 DEF Undoes, Unticks
  <2>4. \A d \in Delegate : u.produced[d] = l.produced[d]
    BY <2>1, <2>2, <2>3
  <2>5. u.produced \in [Delegate -> Int] /\ l.produced \in [Delegate -> Int]
    BY <1>8 DEF Ledgers
  <2> QED
    BY <2>4, <2>5
<1>10. FitsIn(l.voted, t) /\ m.voted = a.voted
  BY <1>1, <1>5, <1>7 DEF Ticks
<1>11. u.voted = l.voted
  <2>1. m.voted = VotedAfter(l.voted, t)
    BY <1>3, <1>10 DEF Applies
  <2>2. v.voted = l.voted
    BY <1>1, <1>2, <1>10, <2>1, VotedUndone
  <2> QED
    BY <1>6, <2>2 DEF Unticks
<1>12. CASE h % D # 0
  <2>1. m.balance = a.balance /\ m.vote = a.vote /\ m.mem = a.mem
    BY <1>5, <1>7, <1>12 DEF Ticks
  <2>2. v.balance = l.balance /\ v.mem = l.mem
    BY <1>1, <1>2, <1>10, <2>1, UndoneExactly
  <2>3. v.vote = l.vote
    BY <1>3, <2>1 DEF Applies, Undoes
  <2>4. u.balance = v.balance /\ u.mem = v.mem /\ u.vote = v.vote
    BY <1>6, <1>12 DEF Unticks
  <2> QED
    BY <1>8, <1>9, <1>11, <2>2, <2>3, <2>4, SameElects
<1>13. CASE h % D = 0
  <2>1. PICK bs : bs = RoundBlocks(chain, round)
    OBVIOUS
  <2>2. /\ ~Uneven(bs)
        /\ \A q \in 1..MaxRound : q # round => l.mem[q] = NoRows
        /\ snapshot.mem = l.mem /\ snapshot.vote = l.vote
    BY <1>1, <1>13, <2>1
  <2>3. u.vote = l.vote
    BY <1>6, <1>13, <2>2 DEF Unticks
  <2>4. u.mem = l.mem
    <3>1. ASSUME NEW q \in 1..MaxRound, NEW d \in Delegate
          PROVE  u.mem[q][d] = l.mem[q][d]
      <4>1. u.mem[q][d] = (IF q = round THEN 0 ELSE v.mem[q][d]) + l.mem[q][d]
        BY <1>1, <1>6, <1>13, <2>2 DEF Unticks
      <4>2. q # round => v.mem[q] = NoRows
        BY <1>1, <1>3, <1>5, <1>7, <2>2 DEF Applies, Undoes, Ticks
      <4> QED
        BY <4>1, <4>2, NoRowsIs, LedgerValues
    <3> QED
      BY <1>8, <3>1, SameMem
  <2>5. RoundOK(bs, D) /\ D \in Nat
    BY <1>1, <1>13, <2>1, RoundOfChain, RoundsAssumption
  <2>6. \A i \in 1..D : bs[i].reward = bs[D + 1 - i].reward
    BY <2>2, <2>5 DEF Uneven, RoundOK
  <2>7. PICK x \in Ledgers : x.balance = a.balance /\ k.balance = ApplyRound(x, round, bs, 1).balance
    BY <1>1, <1>5, <1>13, <2>1 DEF Ticks
  <2>8. PICK y \in Ledgers : y.balance = v.balance /\ u.balance = ApplyRound(y, round, bs, -1).balance
    BY <1>1, <1>6, <1>13, <2>1 DEF Unticks
  <2>9. ASSUME NEW c \in Account
        PROVE  u.balance[c] = l.balance[c]
    <3>1. u.balance[c] + k.balance[c] = v.balance[c] + a.balance[c]
      <4>1. PICK f, g : f = ApplyRound(x, round, bs, 1) /\ g = ApplyRound(y, round, bs, -1)
        OBVIOUS
      <4>2. g.balance[c] + f.balance[c] = y.balance[c] + x.balance[c]
        BY <1>2, <2>5, <2>6, <4>1, RoundPaidBack
      <4> QED
        BY <2>7, <2>8, <4>1, <4>2
    <3>2. a.balance[c] = l.balance[c] + Gain(t, c) /\ v.balance[c] = m.balance[c] - Gain(t, c)
      BY <1>3 DEF Applies, Undoes
    <3>3. PICK p \in Int, q \in Int, w \in Int, z \in Int :
            p = l.balance[c] /\ q = Gain(t, c) /\ w = k.balance[c] /\ z = u.balance[c]
      <4>1. k \in Ledgers
        BY <1>5 DEF Ticks
      <4>2. l.balance[c] \in Int /\ k.balance[c] \in Int /\ u.balance[c] \in Int
        BY <1>8, <4>1, LedgerValues
      <4> QED
        BY <1>2, <4>2, GainInt
    <3>4. z + w = (w - q) + (p + q)
      BY <1>7, <3>1, <3>2, <3>3
    <3> QED
      BY <3>3, <3>4
  <2>10. u.balance = l.balance
    <3>1. u.balance \in [Account -> Int] /\ l.balance \in [Account -> Int]
      BY <1>8 DEF Ledgers
    <3> QED
      BY <2>9, <3>1
  <2> QED
    BY <1>8, <1>9, <1>11, <2>3, <2>4, <2>10, SameElects
<1> QED
  BY <1>12, <1>13

-----------------------------------------------------------------------------
(* What a block has changed, forwards and backwards                        *)

\* What the end of a round adds to the money of the accounts
Payout(chain, h) ==
  IF h % D = 0 THEN Fees(RoundBlocks(chain, Calc(h))) + Rewards(RoundBlocks(chain, Calc(h)))
               ELSE 0

StepsOn(l, chain, h, m) ==
  /\ m \in Ledgers
  /\ \A d \in Delegate :
       m.produced[d] = l.produced[d] + (IF d = chain[h].generator THEN 1 ELSE 0)
  /\ \A q \in 1..MaxRound : q # Calc(h) => m.mem[q] = l.mem[q]
  /\ h % D = 0 => m.mem[Calc(h)] = NoRows
  /\ Total(m) = Total(l) - FeeOf(chain[h].transaction) + Payout(chain, h)
  /\ Total(l) \in Int
  /\ FitsIn(l.voted, chain[h].transaction) =>
       m.voted = VotedAfter(l.voted, chain[h].transaction)
  /\ FitsIn(l.voted, chain[h].transaction) /\ Matched(l) => Matched(m)

LEMMA SteppedOn ==
  ASSUME NEW l \in Ledgers, NEW chain \in Seq(Block), NEW h \in 2..MaxHeight, Len(chain) = h,
         NEW m, m = StepOn(l, chain, h)
  PROVE  StepsOn(l, chain, h, m)
<1>1. PICK t, round : t = chain[h].transaction /\ round = Calc(h)
  OBVIOUS
<1>2. t \in TransactionTypes /\ round \in 1..MaxRound
  BY <1>1, HeightIs
<1>3. PICK k : k = Apply(l, t, round)
  OBVIOUS
<1>4. Applies(l, t, round, k)
  BY ONLY l \in Ledgers, <1>2, <1>3, Applied
<1>5. k \in Ledgers
  BY <1>4 DEF Applies
<1>6. m = Tick(k, chain)
  BY <1>1, <1>3 DEF StepOn
<1>7. Ticks(k, chain, h, m)
  BY ONLY <1>5, <1>6, chain \in Seq(Block), h \in 2..MaxHeight, Len(chain) = h, Ticked
<1>8. m \in Ledgers
  BY <1>7 DEF Ticks
<1>9. \A d \in Delegate :
        m.produced[d] = l.produced[d] + (IF d = chain[h].generator THEN 1 ELSE 0)
  BY <1>4, <1>7 DEF Ticks, Applies
<1>10. \A q \in 1..MaxRound : q # Calc(h) => m.mem[q] = l.mem[q]
  BY <1>1, <1>4, <1>7 DEF Ticks, Applies
<1>11. h % D = 0 => m.mem[Calc(h)] = NoRows
  BY <1>7 DEF Ticks
<1>12. Total(k) = Total(l) - FeeOf(t)
  BY <1>4 DEF Applies
<1>13. Total(l) \in Int /\ Total(k) \in Int /\ FeeOf(t) \in Nat
  <2>1. PICK a : a \in Account
    BY RoundsAssumption
  <2>2. l.balance = [l.balance EXCEPT ![a] = @ + 0] /\ k.balance = [k.balance EXCEPT ![a] = @ + 0]
    BY <1>5, <2>1 DEF Ledgers
  <2>3. Total(l) \in Int
    BY ONLY l \in Ledgers, <2>1, <2>2, TotalMerged, 0 \in Int
  <2>4. Total(k) \in Int
    BY ONLY <1>5, <2>1, <2>2, TotalMerged, 0 \in Int
  <2> QED
    BY <2>3, <2>4, <1>2, Kinds
<1>14. Total(m) = Total(l) - FeeOf(t) + Payout(chain, h)
  <2>1. CASE h % D = 0
    <3>1. PICK f, r : f = Fees(RoundBlocks(chain, Calc(h))) /\ r = Rewards(RoundBlocks(chain, Calc(h)))
      OBVIOUS
    <3>2. Total(m) = Total(k) + 1 * (f + r)
      BY <1>7, <2>1, <3>1 DEF Ticks
    <3>3. f \in Nat /\ r \in Nat
      <4>1. PICK bs : bs = RoundBlocks(chain, Calc(h))
        OBVIOUS
      <4>2. RoundOK(bs, D)
        BY <2>1, <4>1, RoundOfChain
      <4> QED
        BY <4>1, <4>2, <3>1, FeesNat, MaxRoundNat
    <3>4. Payout(chain, h) = f + r
      BY <2>1, <3>1 DEF Payout
    <3> QED
      BY ONLY <3>2, <3>3, <3>4, <1>12, <1>13
  <2>2. CASE h % D # 0
    <3>1. Payout(chain, h) = 0
      BY <2>2 DEF Payout
    <3>2. Total(m) = Total(k)
      BY <1>7, <2>2 DEF Ticks, Total
    <3> QED
      BY ONLY <3>1, <3>2, <1>12, <1>13
  <2> QED
    BY ONLY <2>1, <2>2
<1>15. m.voted = k.voted
  BY <1>7 DEF Ticks
<1>16. FitsIn(l.voted, t) => m.voted = VotedAfter(l.voted, t)
  BY <1>4, <1>15 DEF Applies
<1>17. FitsIn(l.voted, t) /\ Matched(l) => Matched(m)
  BY <1>4, <1>7 DEF Applies, Ticks
<1> QED
  BY <1>1, <1>8, <1>9, <1>10, <1>11, <1>13, <1>14, <1>16, <1>17 DEF StepsOn

\* The same backwards
StepsBack(l, chain, h, m) ==
  /\ m \in Ledgers
  /\ \A d \in Delegate :
       m.produced[d] = l.produced[d] + (IF d = chain[h].generator THEN -1 ELSE 0)
  /\ Total(m) = Total(l) + FeeOf(chain[h].transaction) - Payout(chain, h)
  /\ Total(l) \in Int
  /\ h % D # 0 => \A q \in 1..MaxRound : q # Calc(h) => m.mem[q] = l.mem[q]
  /\ h % D = 0 => \A q \in 1..MaxRound, d \in Delegate :
       m.mem[q][d] = (IF q = Calc(h) THEN 0 ELSE l.mem[q][d]) + snapshot.mem[q][d]

LEMMA SteppedBack ==
  ASSUME NEW l \in Ledgers, NEW chain \in Seq(Block), NEW h \in 2..MaxHeight, Len(chain) = h,
         SnapshotOK, NEW m, m = StepBack(l, chain, h)
  PROVE  /\ StepsBack(l, chain, h, m)
         /\ m.voted = Undo(l, chain[h].transaction, Calc(h)).voted
<1>1. PICK t, round : t = chain[h].transaction /\ round = Calc(h)
  OBVIOUS
<1>2. t \in TransactionTypes /\ round \in 1..MaxRound
  BY <1>1, HeightIs
<1>3. PICK k : k = Undo(l, t, round)
  OBVIOUS
<1>4. Undoes(l, t, round, k)
  BY ONLY l \in Ledgers, <1>2, <1>3, Undone
<1>5. k \in Ledgers
  BY <1>4 DEF Undoes
<1>6. m = BackwardTick(k, chain)
  BY <1>1, <1>3 DEF StepBack
<1>7. Unticks(k, chain, h, m)
  BY ONLY <1>5, <1>6, chain \in Seq(Block), h \in 2..MaxHeight, Len(chain) = h, SnapshotOK,
     Unticked
<1>8. m \in Ledgers
  BY <1>7 DEF Unticks
<1>9. \A d \in Delegate :
        m.produced[d] = l.produced[d] + (IF d = chain[h].generator THEN -1 ELSE 0)
  BY <1>4, <1>7 DEF Unticks, Undoes
<1>10. h % D # 0 => \A q \in 1..MaxRound : q # Calc(h) => m.mem[q] = l.mem[q]
  BY <1>1, <1>4, <1>7 DEF Unticks, Undoes
<1>11. h % D = 0 => \A q \in 1..MaxRound, d \in Delegate :
         m.mem[q][d] = (IF q = Calc(h) THEN 0 ELSE l.mem[q][d]) + snapshot.mem[q][d]
  <2> SUFFICES ASSUME h % D = 0, NEW q \in 1..MaxRound, NEW d \in Delegate
               PROVE  m.mem[q][d] = (IF q = Calc(h) THEN 0 ELSE l.mem[q][d]) + snapshot.mem[q][d]
    OBVIOUS
  <2>1. m.mem[q][d] = (IF q = Calc(h) THEN 0 ELSE k.mem[q][d]) + snapshot.mem[q][d]
    BY <1>7 DEF Unticks
  <2>2. q # Calc(h) => k.mem[q] = l.mem[q]
    BY <1>1, <1>4 DEF Undoes
  <2> QED
    BY <2>1, <2>2
<1>12. Total(k) = Total(l) + FeeOf(t)
  BY <1>4 DEF Undoes
<1>13. Total(l) \in Int /\ Total(k) \in Int /\ FeeOf(t) \in Nat
  <2>1. PICK a : a \in Account
    BY RoundsAssumption
  <2>2. l.balance = [l.balance EXCEPT ![a] = @ + 0] /\ k.balance = [k.balance EXCEPT ![a] = @ + 0]
    BY <1>5, <2>1 DEF Ledgers
  <2>3. Total(l) \in Int
    BY ONLY l \in Ledgers, <2>1, <2>2, TotalMerged, 0 \in Int
  <2>4. Total(k) \in Int
    BY ONLY <1>5, <2>1, <2>2, TotalMerged, 0 \in Int
  <2> QED
    BY <2>3, <2>4, <1>2, Kinds
<1>14. Total(m) = Total(l) + FeeOf(t) - Payout(chain, h)
  <2>1. CASE h % D = 0
    <3>1. PICK f, r : f = Fees(RoundBlocks(chain, Calc(h))) /\ r = Rewards(RoundBlocks(chain, Calc(h)))
      OBVIOUS
    <3>2. Total(m) = Total(k) + (-1) * (f + r)
      BY <1>7, <2>1, <3>1 DEF Unticks
    <3>3. f \in Nat /\ r \in Nat
      <4>1. PICK bs : bs = RoundBlocks(chain, Calc(h))
        OBVIOUS
      <4>2. RoundOK(bs, D)
        BY <2>1, <4>1, RoundOfChain
      <4> QED
        BY <4>1, <4>2, <3>1, FeesNat, MaxRoundNat
    <3>4. Payout(chain, h) = f + r
      BY <2>1, <3>1 DEF Payout
    <3> QED
      BY ONLY <3>2, <3>3, <3>4, <1>12, <1>13
  <2>2. CASE h % D # 0
    <3>1. Payout(chain, h) = 0
      BY <2>2 DEF Payout
    <3>2. Total(m) = Total(k)
      BY <1>7, <2>2 DEF Unticks, Total
    <3> QED
      BY ONLY <3>1, <3>2, <1>12, <1>13
  <2> QED
    BY ONLY <2>1, <2>2
<1>15. m.voted = k.voted
  BY <1>7 DEF Unticks
<1>16. StepsBack(l, chain, h, m)
  BY <1>1, <1>8, <1>9, <1>10, <1>11, <1>13, <1>14 DEF StepsBack
<1> QED
  BY <1>1, <1>3, <1>15, <1>16

-----------------------------------------------------------------------------
(* Sums along the chain                                                    *)

FeeAt(chain) == [i \in DOMAIN chain |-> chain[i].fee]
RewardsOf(chain) == [i \in DOMAIN chain |-> chain[i].reward]
MadeBy(chain, d) == [i \in DOMAIN chain |-> IF d = chain[i].generator THEN 1 ELSE 0]
UpToHeight(f, n) == SumOver(f, 1..n)

\* The chain up to one height, and one block more
LEMMA AlongChain ==
  ASSUME NEW chain \in Seq(Block), NEW n \in Nat, n <= Len(chain), NEW d
  PROVE  /\ \A i \in 1..n : FeeAt(chain)[i] = chain[i].fee /\ chain[i].fee \in Nat
         /\ \A i \in 1..n : RewardsOf(chain)[i] = chain[i].reward /\ chain[i].reward \in Nat
         /\ \A i \in 1..n : MadeBy(chain, d)[i] = (IF d = chain[i].generator THEN 1 ELSE 0)
         /\ \A i \in 1..n : chain[i] \in Block
<1> SUFFICES ASSUME NEW i \in 1..n
             PROVE  /\ FeeAt(chain)[i] = chain[i].fee /\ chain[i].fee \in Nat
                    /\ RewardsOf(chain)[i] = chain[i].reward /\ chain[i].reward \in Nat
                    /\ MadeBy(chain, d)[i] = (IF d = chain[i].generator THEN 1 ELSE 0)
                    /\ chain[i] \in Block
  OBVIOUS
<1>1. i \in DOMAIN chain /\ chain[i] \in Block
  OBVIOUS
<1> QED
  BY <1>1 DEF FeeAt, RewardsOf, MadeBy, Block

LEMMA SumsAlong ==
  ASSUME NEW n \in Nat, NEW f, \A i \in 1..n : f[i] \in Int
  PROVE  /\ UpToHeight(f, n) \in Int
         /\ n # 0 => /\ UpToHeight(f, n) = UpToHeight(f, n - 1) + f[n]
                     /\ UpToHeight(f, n - 1) \in Int
<1>1. CASE n = 0
  <2>1. PICK E : E = {}
    OBVIOUS
  <2>2. 1..n = E
    BY <1>1, <2>1
  <2>3. UpToHeight(f, n) = 0
    BY <2>1, <2>2, SumEmpty DEF UpToHeight
  <2> QED
    BY <1>1, <2>3
<1>2. CASE n # 0
  <2>1. PICK k \in Nat : n = k + 1
    BY <1>2
  <2>2. \A i \in 1..k + 1 : f[i] \in Int
    BY <2>1
  <2>3. SumOver(f, 1..k) \in Int /\ SumOver(f, 1..k + 1) = SumOver(f, 1..k) + f[k + 1]
    BY <2>2, SumUpTo
  <2>4. n - 1 = k /\ f[k + 1] \in Int
    BY <2>1, <2>2
  <2> QED
    BY <2>1, <2>3, <2>4 DEF UpToHeight
<1> QED
  BY <1>1, <1>2

LEMMA SumsAlike ==
  ASSUME NEW n \in Nat, NEW f, NEW g, \A i \in 1..n : f[i] \in Int /\ g[i] = f[i]
  PROVE  UpToHeight(f, n) = UpToHeight(g, n)
<1>1. IsFiniteSet(1..n)
  BY IntervalFinite
<1>2. PICK S : S = 1..n
  OBVIOUS
<1>3. SumOver(f, S) = SumOver(g, S)
  BY <1>1, <1>2, SumSame
<1> QED
  BY <1>2, <1>3 DEF UpToHeight

\* The sum of a stretch
LEMMA SumsBetween ==
  ASSUME NEW c \in Nat, NEW n \in Nat, NEW f, \A i \in 1..c + n : f[i] \in Int
  PROVE  /\ SumOver(f, c + 1..c + n) = UpToHeight(f, c + n) - UpToHeight(f, c)
         /\ UpToHeight(f, c + n) \in Int /\ UpToHeight(f, c) \in Int
<1>1. PICK S, P : S = 1..c + n /\ P = 1..c
  OBVIOUS
<1>2. IsFiniteSet(S)
  BY <1>1, IntervalFinite
<1>3. SumOver(f, S) = SumOver(f, S \cap P) + SumOver(f, S \ P)
  <2>1. \A i \in S : f[i] \in Int
    BY <1>1
  <2> QED
    BY ONLY <2>1, <1>2, SumUnion
<1>4. S \cap P = 1..c /\ S \ P = c + 1..c + n
  BY <1>1
<1>5. SumOver(f, S \ P) \in Int
  <2>1. IsFiniteSet(S \ P)
    BY <1>2, FS_Difference
  <2> QED
    BY <2>1, <1>1, SumInt
<1>6. UpToHeight(f, c + n) \in Int /\ UpToHeight(f, c) \in Int
  BY c + n \in Nat, SumsAlong
<1>7. SumOver(f, S) = UpToHeight(f, c + n) /\ SumOver(f, S \cap P) = UpToHeight(f, c)
  BY <1>1, <1>4 DEF UpToHeight
<1>8. SumOver(f, S \ P) = SumOver(f, c + 1..c + n)
  BY <1>4
<1> QED
  BY ONLY <1>3, <1>5, <1>6, <1>7, <1>8

\* What the end of a round pays: the fees and the rewards of its blocks
LEMMA PayoutIs ==
  ASSUME NEW chain \in Seq(Block), NEW h \in 2..MaxHeight, Len(chain) = h, h % D = 0
  PROVE  \E c \in Nat : /\ h = c + D /\ c = (Calc(h) - 1) * D
                        /\ Payout(chain, h) =
                             (UpToHeight(FeeAt(chain), h) - UpToHeight(FeeAt(chain), c))
                               + (UpToHeight(RewardsOf(chain), h) - UpToHeight(RewardsOf(chain), c))
<1>1. PICK bs : bs = RoundBlocks(chain, Calc(h))
  OBVIOUS
<1>2. PICK c \in Nat : /\ h = c + D /\ c = (Calc(h) - 1) * D /\ RoundOK(bs, D)
                       /\ \A i \in 1..D : bs[i] = chain[c + i]
  BY <1>1, RoundOfChain
<1>3. PICK f, g, r, w : /\ f = [i \in 1..Len(bs) |-> bs[i].fee] /\ g = FeeAt(chain)
                        /\ r = [i \in 1..Len(bs) |-> bs[i].reward] /\ w = RewardsOf(chain)
  OBVIOUS
<1>4. \A i \in 1..h : g[i] = chain[i].fee /\ g[i] \in Int /\ w[i] = chain[i].reward /\ w[i] \in Int
  BY ONLY chain \in Seq(Block), h \in 2..MaxHeight, Len(chain) = h, MaxRoundNat, <1>3, AlongChain
<1>5. \A i \in 1..D : f[i] \in Int /\ g[c + i] = f[i] /\ r[i] \in Int /\ w[c + i] = r[i]
  <2> SUFFICES ASSUME NEW i \in 1..D
               PROVE  f[i] \in Int /\ g[c + i] = f[i] /\ r[i] \in Int /\ w[c + i] = r[i]
    OBVIOUS
  <2>1. c + i \in 1..h /\ i \in 1..Len(bs) /\ bs[i] = chain[c + i]
    BY <1>2, MaxRoundNat DEF RoundOK
  <2> QED
    BY <2>1, <1>2, <1>3, <1>4 DEF RoundOK
<1>6. D \in Nat
  BY MaxRoundNat
<1>7. SumOver(f, 1..D) = SumOver(g, c + 1..c + D)
  <2>1. \A i \in 1..D : f[i] \in Int /\ g[c + i] = f[i]
    BY <1>5
  <2> QED
    BY ONLY <2>1, <1>6, c \in Nat, SumShift
<1>8. SumOver(r, 1..D) = SumOver(w, c + 1..c + D)
  <2>1. \A i \in 1..D : r[i] \in Int /\ w[c + i] = r[i]
    BY <1>5
  <2> QED
    BY ONLY <2>1, <1>6, c \in Nat, SumShift
<1>9. SumOver(g, c + 1..c + D) = UpToHeight(g, c + D) - UpToHeight(g, c)
  BY <1>2, <1>4, <1>6, SumsBetween
<1>10. SumOver(w, c + 1..c + D) = UpToHeight(w, c + D) - UpToHeight(w, c)
  BY <1>2, <1>4, <1>6, SumsBetween
<1>11. Fees(bs) = SumOver(f, 1..D) /\ Rewards(bs) = SumOver(r, 1..D)
  BY <1>2, <1>3 DEF Fees, Rewards, RoundOK
<1>12. Payout(chain, h) = Fees(bs) + Rewards(bs)
  BY <1>1 DEF Payout
<1>13. Payout(chain, h) = (UpToHeight(g, c + D) - UpToHeight(g, c)) + (UpToHeight(w, c + D) - UpToHeight(w, c))
  BY ONLY <1>7, <1>8, <1>9, <1>10, <1>11, <1>12
<1> QED
  BY <1>2, <1>3, <1>13

-----------------------------------------------------------------------------
(* The steps of the specification                                          *)

TablesOK ==
  /\ blocks \in Seq(Block) /\ Len(blocks) \in 1..MaxHeight
  /\ ledger \in Ledgers
  /\ past \in Seq(Ledgers) /\ Len(past) = Len(blocks)
  /\ SnapshotOK /\ snapshot.height \in 0..MaxHeight
  /\ rollbacks \in 0..MaxRollbacks
  /\ happened \subseteq {"misvote", "stale", "uneven"}

\* A block is applied, to a chain of height h.
Applying(t, chain, h) ==
  /\ h \in 2..MaxHeight /\ h = Len(blocks) + 1 /\ t \in Transactions
  /\ chain \in Seq(Block) /\ Len(chain) = h /\ blocks' = chain
  /\ chain[h].transaction = t /\ chain[h].fee = FeeOf(t)
  /\ \A i \in 1..h - 1 : chain[i] = blocks[i]
  /\ ledger' = StepOn(ledger, chain, h)
  /\ snapshot' = SnapshotAfter(ledger', h)
  /\ past' = Append(past, ledger')
  /\ happened' = happened \cup If(t.kind = "vote" /\ ~VoteFits(ledger, t), "misvote")
  /\ rollbacks' = rollbacks

LEMMA ApplyStep ==
  ASSUME TablesOK, NEW generator \in Delegate, NEW t \in Transactions, ApplyBlock(generator, t)
  PROVE  \E chain, h : Applying(t, chain, h)
<1>1. PICK h : h = Len(blocks) + 1
  OBVIOUS
<1>2. h \in 2..MaxHeight /\ h - 1 = Len(blocks) /\ blocks \in Seq(Block)
  BY <1>1, RoundsAssumption DEF TablesOK, ApplyBlock
<1>3. PICK block : block = [generator |-> generator, transaction |-> t, fee |-> FeeOf(t),
                            reward |-> RewardAt[h]]
  OBVIOUS
<1>4. block \in Block
  <2>1. t \in TransactionTypes /\ generator \in Account /\ RewardAt[h] \in Nat
    BY <1>2, RoundsAssumption
  <2> QED
    BY <1>3, <2>1, Kinds DEF Block
<1>5. PICK chain : chain = Append(blocks, block)
  OBVIOUS
<1>6. /\ chain \in Seq(Block) /\ Len(chain) = h /\ chain[h] = block
      /\ \A i \in 1..h - 1 : chain[i] = blocks[i]
  BY <1>1, <1>2, <1>4, <1>5
<1>7. chain[h].transaction = t /\ chain[h].fee = FeeOf(t)
  BY <1>3, <1>6
<1>8. /\ blocks' = chain /\ ledger' = Tick(Apply(ledger, t, Calc(h)), chain)
      /\ snapshot' = SnapshotAfter(ledger', h) /\ past' = Append(past, ledger')
      /\ happened' = happened \cup If(t.kind = "vote" /\ ~VoteFits(ledger, t), "misvote")
      /\ rollbacks' = rollbacks
  BY <1>1, <1>3, <1>5 DEF ApplyBlock
<1>9. ledger' = StepOn(ledger, chain, h)
  BY <1>7, <1>8 DEF StepOn
<1>10. Applying(t, chain, h)
  BY <1>1, <1>2, <1>6, <1>7, <1>8, <1>9 DEF Applying
<1> QED
  BY <1>10

\* The last block is deleted, that of height h.
Deleting(h) ==
  /\ h \in 2..MaxHeight /\ Len(blocks) = h
  /\ blocks' \in Seq(Block) /\ Len(blocks') = h - 1
  /\ \A i \in 1..h - 1 : blocks'[i] = blocks[i]
  /\ past' \in Seq(Ledgers) /\ Len(past') = h - 1
  /\ \A i \in 1..h - 1 : past'[i] = past[i]
  /\ ledger' = StepBack(ledger, blocks, h)
  /\ happened' = happened \cup If(h % D = 0 /\ snapshot.height # h - 1, "stale")
                   \cup If(h % D = 0 /\ Uneven(RoundBlocks(blocks, Calc(h))), "uneven")
  /\ snapshot' = snapshot
  /\ rollbacks' \in 0..MaxRollbacks

LEMMA FrontIs ==
  ASSUME NEW S, NEW s \in Seq(S), Len(s) # 0
  PROVE  /\ Front(s) \in Seq(S) /\ Len(Front(s)) = Len(s) - 1
         /\ \A i \in 1..Len(s) - 1 : Front(s)[i] = s[i]
<1>1. PICK n \in Nat : n = Len(s) - 1 /\ n + 1 = Len(s) /\ n <= Len(s)
  OBVIOUS
<1>2. Front(s) = SubSeq(s, 1, n)
  BY <1>1 DEF Front
<1>3. \A i \in 1..n : i \in 1..Len(s) /\ s[i] \in S
  BY <1>1
<1>4. SubSeq(s, 1, n) \in Seq(S) /\ Len(SubSeq(s, 1, n)) = n
  BY <1>1, <1>3
<1>5. \A i \in 1..n : SubSeq(s, 1, n)[i] = s[i]
  BY <1>1, <1>3
<1> QED
  BY <1>1, <1>2, <1>4, <1>5

LEMMA DeleteStep ==
  ASSUME TablesOK, DeleteLastBlock
  PROVE  \E h : Deleting(h)
<1>1. PICK h : h = Len(blocks)
  OBVIOUS
<1>2. h \in 2..MaxHeight /\ blocks \in Seq(Block) /\ past \in Seq(Ledgers) /\ Len(past) = h
  BY <1>1 DEF TablesOK, DeleteLastBlock
<1>3. /\ blocks' \in Seq(Block) /\ Len(blocks') = h - 1
      /\ \A i \in 1..h - 1 : blocks'[i] = blocks[i]
  <2>1. blocks' = Front(blocks)
    BY DEF DeleteLastBlock
  <2> QED
    BY <1>1, <1>2, <2>1, FrontIs
<1>4. /\ past' \in Seq(Ledgers) /\ Len(past') = h - 1
      /\ \A i \in 1..h - 1 : past'[i] = past[i]
  <2>1. past' = Front(past)
    BY DEF DeleteLastBlock
  <2> QED
    BY <1>2, <2>1, FrontIs
<1>5. FinishRoundBackward(h) <=> h % D = 0
  BY <1>2, FinishIs
<1>6. /\ ledger' = BackwardTick(Undo(ledger, blocks[h].transaction, Calc(h)), blocks)
      /\ happened' = happened \cup If(FinishRoundBackward(h) /\ snapshot.height # h - 1, "stale")
           \cup If(FinishRoundBackward(h) /\ Uneven(RoundBlocks(blocks, Calc(h))), "uneven")
      /\ snapshot' = snapshot /\ rollbacks < MaxRollbacks /\ rollbacks' = rollbacks + 1
  BY <1>1 DEF DeleteLastBlock
<1>7. ledger' = StepBack(ledger, blocks, h)
  BY <1>6 DEF StepBack
<1>8. rollbacks' \in 0..MaxRollbacks
  BY <1>6, RoundsAssumption DEF TablesOK
<1>9. happened' = happened \cup If(h % D = 0 /\ snapshot.height # h - 1, "stale")
                   \cup If(h % D = 0 /\ Uneven(RoundBlocks(blocks, Calc(h))), "uneven")
  BY <1>5, <1>6
<1>10. Deleting(h)
  BY <1>1, <1>2, <1>3, <1>4, <1>6, <1>7, <1>8, <1>9 DEF Deleting
<1> QED
  BY <1>10

-----------------------------------------------------------------------------
(* Types, and the money                                                    *)

ChainOK ==
  /\ blocks[1] = GenesisBlock
  /\ \A h \in 2..Len(blocks) : blocks[h].fee = FeeOf(blocks[h].transaction)

\* A delegate has made the blocks of the chain that are its.
ProducedOK ==
  \A d \in Delegate : ledger.produced[d] = UpToHeight(MadeBy(blocks, d), Len(blocks))

\* The money of the accounts and the fees of the open round are the first money
\* and the rewards of the rounds that have landed.
MoneyOf(total, chain, n) ==
  LET landed == (n \div D) * D
  IN  total + UpToHeight(FeeAt(chain), n) - UpToHeight(FeeAt(chain), landed)
        = SumOver(Balance0, Account) + UpToHeight(RewardsOf(chain), landed)

MoneyOK == MoneyOf(Total(ledger), blocks, Len(blocks))

BaseInv == TablesOK /\ ChainOK /\ ProducedOK /\ MoneyOK

\* What one more block does to the sums along the chain
LEMMA ChainGrows ==
  ASSUME NEW chain \in Seq(Block), NEW longer \in Seq(Block), NEW h \in 2..MaxHeight,
         Len(longer) = h, Len(chain) = h - 1, \A i \in 1..h - 1 : longer[i] = chain[i],
         NEW n \in 0..h - 1
  PROVE  /\ UpToHeight(FeeAt(longer), n) = UpToHeight(FeeAt(chain), n)
         /\ UpToHeight(RewardsOf(longer), n) = UpToHeight(RewardsOf(chain), n)
         /\ \A d \in Delegate : UpToHeight(MadeBy(longer, d), n) = UpToHeight(MadeBy(chain, d), n)
<1>1. n \in Nat /\ n <= Len(chain) /\ n <= Len(longer) /\ \A i \in 1..n : longer[i] = chain[i]
  OBVIOUS
<1>2. ASSUME NEW d
      PROVE  /\ UpToHeight(FeeAt(longer), n) = UpToHeight(FeeAt(chain), n)
             /\ UpToHeight(RewardsOf(longer), n) = UpToHeight(RewardsOf(chain), n)
             /\ UpToHeight(MadeBy(longer, d), n) = UpToHeight(MadeBy(chain, d), n)
  <2>1. PICK f, g, r, w, p, q :
          /\ f = FeeAt(longer) /\ g = FeeAt(chain) /\ r = RewardsOf(longer)
          /\ w = RewardsOf(chain) /\ p = MadeBy(longer, d) /\ q = MadeBy(chain, d)
    OBVIOUS
  <2>2. /\ \A i \in 1..n : f[i] = longer[i].fee /\ f[i] \in Nat
        /\ \A i \in 1..n : r[i] = longer[i].reward /\ r[i] \in Nat
        /\ \A i \in 1..n : p[i] = (IF d = longer[i].generator THEN 1 ELSE 0)
    BY <1>1, <2>1, AlongChain
  <2>3. /\ \A i \in 1..n : g[i] = chain[i].fee /\ w[i] = chain[i].reward
        /\ \A i \in 1..n : q[i] = (IF d = chain[i].generator THEN 1 ELSE 0)
    BY <1>1, <2>1, AlongChain
  <2>4. /\ \A i \in 1..n : f[i] \in Int /\ g[i] = f[i]
        /\ \A i \in 1..n : r[i] \in Int /\ w[i] = r[i]
        /\ \A i \in 1..n : p[i] \in Int /\ q[i] = p[i]
    <3> SUFFICES ASSUME NEW i \in 1..n
                 PROVE  /\ f[i] \in Int /\ g[i] = f[i]
                        /\ r[i] \in Int /\ w[i] = r[i]
                        /\ p[i] \in Int /\ q[i] = p[i]
      OBVIOUS
    <3>1. longer[i] = chain[i]
      BY <1>1
    <3>2. /\ f[i] = longer[i].fee /\ f[i] \in Nat
          /\ r[i] = longer[i].reward /\ r[i] \in Nat
          /\ p[i] = (IF d = longer[i].generator THEN 1 ELSE 0)
      BY ONLY i \in 1..n, <2>2
    <3>3. /\ g[i] = chain[i].fee /\ w[i] = chain[i].reward
          /\ q[i] = (IF d = chain[i].generator THEN 1 ELSE 0)
      BY ONLY i \in 1..n, <2>3
    <3> QED
      BY ONLY <3>1, <3>2, <3>3
  <2>5. UpToHeight(f, n) = UpToHeight(g, n)
    BY ONLY n \in Nat, <2>4, SumsAlike
  <2>6. UpToHeight(r, n) = UpToHeight(w, n)
    BY ONLY n \in Nat, <2>4, SumsAlike
  <2>7. UpToHeight(p, n) = UpToHeight(q, n)
    BY ONLY n \in Nat, <2>4, SumsAlike
  <2> QED
    BY <2>1, <2>5, <2>6, <2>7
<1> QED
  BY <1>2

\* Up to the last block
LEMMA LastOfChain ==
  ASSUME NEW chain \in Seq(Block), NEW h \in 2..MaxHeight, Len(chain) = h
  PROVE  /\ UpToHeight(FeeAt(chain), h) = UpToHeight(FeeAt(chain), h - 1) + chain[h].fee
         /\ \A d \in Delegate : UpToHeight(MadeBy(chain, d), h) =
              UpToHeight(MadeBy(chain, d), h - 1) + (IF d = chain[h].generator THEN 1 ELSE 0)
         /\ \A d \in Delegate : UpToHeight(MadeBy(chain, d), h - 1) \in Int
         /\ \A n \in 0..h : /\ UpToHeight(FeeAt(chain), n) \in Int
                            /\ UpToHeight(RewardsOf(chain), n) \in Int
         /\ chain[h].fee \in Nat
<1>1. ASSUME NEW d, NEW n \in 0..h
      PROVE  /\ n # 0 => UpToHeight(FeeAt(chain), n) = UpToHeight(FeeAt(chain), n - 1) + chain[n].fee
             /\ n # 0 => UpToHeight(MadeBy(chain, d), n) =
                  UpToHeight(MadeBy(chain, d), n - 1) + (IF d = chain[n].generator THEN 1 ELSE 0)
             /\ UpToHeight(FeeAt(chain), n) \in Int
             /\ UpToHeight(RewardsOf(chain), n) \in Int
             /\ UpToHeight(MadeBy(chain, d), n) \in Int
  <2>1. PICK f, r, p : f = FeeAt(chain) /\ r = RewardsOf(chain) /\ p = MadeBy(chain, d)
    OBVIOUS
  <2>2. n \in Nat /\ n <= Len(chain)
    OBVIOUS
  <2>3. /\ \A i \in 1..n : f[i] = chain[i].fee /\ f[i] \in Nat
        /\ \A i \in 1..n : r[i] = chain[i].reward /\ r[i] \in Nat
        /\ \A i \in 1..n : p[i] = (IF d = chain[i].generator THEN 1 ELSE 0)
    BY <2>1, <2>2, AlongChain
  <2>4. /\ \A i \in 1..n : f[i] \in Int
        /\ \A i \in 1..n : r[i] \in Int
        /\ \A i \in 1..n : p[i] \in Int
    BY <2>2, <2>3
  <2>5. UpToHeight(f, n) \in Int /\ (n # 0 => UpToHeight(f, n) = UpToHeight(f, n - 1) + f[n])
    BY ONLY <2>2, <2>4, SumsAlong
  <2>6. UpToHeight(r, n) \in Int
    BY ONLY <2>2, <2>4, SumsAlong
  <2>7. UpToHeight(p, n) \in Int /\ (n # 0 => UpToHeight(p, n) = UpToHeight(p, n - 1) + p[n])
    BY ONLY <2>2, <2>4, SumsAlong
  <2>8. n # 0 => n \in 1..n
    BY <2>2
  <2>9. n # 0 => f[n] = chain[n].fee /\ p[n] = (IF d = chain[n].generator THEN 1 ELSE 0)
    BY <2>3, <2>8
  <2> QED
    BY <2>1, <2>5, <2>6, <2>7, <2>9
<1>2. h \in 0..h /\ h - 1 \in 0..h /\ h # 0
  OBVIOUS
<1>3. chain[h].fee \in Nat
  BY HeightIs DEF Block
<1> QED
  BY <1>1, <1>2, <1>3

\* The height of the last round that has landed, before a block and after it
LEMMA LandedIs ==
  ASSUME NEW h \in 2..MaxHeight
  PROVE  /\ (h \div D) * D \in 0..h /\ ((h - 1) \div D) * D \in 0..h - 1
         /\ h % D # 0 => (h \div D) * D = ((h - 1) \div D) * D
         /\ h % D = 0 => (h \div D) * D = h
         /\ \A c \in Nat : h = c + D /\ h % D = 0 => ((h - 1) \div D) * D = c
<1>1. h \in Nat /\ h - 1 \in Nat /\ D \in Nat \ {0, 1}
  BY MaxRoundNat
<1>2. PICK k \in Nat, r \in 0..D - 1 : h \div D = k /\ h % D = r /\ h = k * D + r
  BY <1>1, Divided
<1>3. PICK p \in Nat : p = k * D
  BY <1>1
<1>4. p <= h
  BY <1>1, <1>2, <1>3
<1>5. CASE r # 0
  <2>1. PICK q \in 0..D - 1 : r = q + 1
    BY <1>1, <1>5
  <2>2. h - 1 = k * D + q
    BY ONLY <1>1, <1>2, <1>3, <2>1, p \in Nat, k \in Nat
  <2>3. PICK g \in Nat : g = h - 1
    BY <1>1
  <2>4. g \div D = k
    BY ONLY <2>2, <2>3, <2>1, k \in Nat, q \in 0..D - 1, g \in Nat, DividedOnce
  <2>5. (h - 1) \div D = k
    BY <2>3, <2>4
  <2>6. p <= h - 1
    BY <1>1, <1>2, <1>3, <1>5
  <2> QED
    BY ONLY <1>1, <1>2, <1>3, <1>4, <1>5, <2>5, <2>6, p \in Nat
<1>6. CASE r = 0
  <2>1. h = p
    BY ONLY <1>2, <1>3, <1>6, p \in Nat
  <2>2. k # 0
    BY <2>1, <1>3, <1>1
  <2>3. PICK j \in Nat : k = j + 1
    BY <2>2
  <2>4. PICK c \in Nat : c = j * D
    BY <1>1
  <2>5. p = c + D
    BY <1>3, <2>3, <2>4, <1>1
  <2>6. PICK g \in Nat, q \in 0..D - 1 : g = h - 1 /\ q = D - 1
    BY <1>1
  <2>7. g = j * D + q
    BY ONLY <2>1, <2>4, <2>5, <2>6, <1>1, c \in Nat
  <2>8. g \div D = j
    BY ONLY <2>7, j \in Nat, q \in 0..D - 1, g \in Nat, DividedOnce
  <2>9. ((h - 1) \div D) * D = c
    BY <2>4, <2>6, <2>8
  <2>10. (h \div D) * D = h
    BY <1>2, <1>3, <2>1
  <2>11. c <= h - 1
    BY ONLY <2>1, <2>5, <1>1, c \in Nat
  <2>12. \A b \in Nat : h = b + D => b = c
    BY ONLY <2>1, <2>5, <1>1, c \in Nat
  <2> QED
    BY <1>1, <1>2, <1>6, <2>9, <2>10, <2>11, <2>12
<1> QED
  BY <1>5, <1>6

\* The money before a block and after it
LEMMA MoneyMoves ==
  ASSUME NEW chain \in Seq(Block), NEW longer \in Seq(Block), NEW h \in 2..MaxHeight,
         Len(longer) = h, Len(chain) = h - 1, \A i \in 1..h - 1 : longer[i] = chain[i],
         NEW total \in Int, NEW after \in Int,
         after = total - longer[h].fee + Payout(longer, h)
  PROVE  MoneyOf(total, chain, h - 1) <=> MoneyOf(after, longer, h)
<1>1. PICK c, e, x : /\ c = ((h - 1) \div D) * D /\ e = (h \div D) * D /\ x = longer[h].fee
  OBVIOUS
<1>2. /\ c \in 0..h - 1 /\ e \in 0..h
      /\ h % D # 0 => e = c
      /\ h % D = 0 => e = h /\ \A b \in Nat : h = b + D => c = b
  BY ONLY <1>1, LandedIs, h \in 2..MaxHeight
<1>3. SumOver(Balance0, Account) \in Int
  BY RoundsAssumption, SumInt
<1>4. PICK F, G : /\ F = [n \in 0..h |-> UpToHeight(FeeAt(longer), n)]
                  /\ G = [n \in 0..h |-> UpToHeight(RewardsOf(longer), n)]
  OBVIOUS
<1>13. /\ UpToHeight(FeeAt(longer), h) = UpToHeight(FeeAt(longer), h - 1) + x
       /\ \A n \in 0..h : /\ UpToHeight(FeeAt(longer), n) \in Int
                          /\ UpToHeight(RewardsOf(longer), n) \in Int
       /\ x \in Nat
  BY ONLY longer \in Seq(Block), h \in 2..MaxHeight, Len(longer) = h, <1>1, LastOfChain
<1>5. F \in [0..h -> Int] /\ G \in [0..h -> Int] /\ x \in Nat
  BY ONLY <1>4, <1>13
<1>6. F[h] = F[h - 1] + x
  BY <1>4, <1>13
<1>7. MoneyOf(after, longer, h) <=> after + F[h] - F[e] = SumOver(Balance0, Account) + G[e]
  BY <1>1, <1>2, <1>4 DEF MoneyOf
<1>8. \A n \in 0..h - 1 : UpToHeight(FeeAt(chain), n) = F[n] /\ UpToHeight(RewardsOf(chain), n) = G[n]
  <2> TAKE n \in 0..h - 1
  <2>1. n \in 0..h
    OBVIOUS
  <2> QED
    BY <1>4, <2>1, ChainGrows
<1>9. MoneyOf(total, chain, h - 1) <=> total + F[h - 1] - F[c] = SumOver(Balance0, Account) + G[c]
  <2>1. h - 1 \in 0..h - 1
    OBVIOUS
  <2>2. UpToHeight(FeeAt(chain), h - 1) = F[h - 1] /\ UpToHeight(FeeAt(chain), c) = F[c]
        /\ UpToHeight(RewardsOf(chain), c) = G[c]
    BY <1>2, <1>8, <2>1
  <2> QED
    BY <1>1, <2>2 DEF MoneyOf
<1>10. CASE h % D = 0
  <2>1. PICK b \in Nat : /\ h = b + D
                         /\ Payout(longer, h) =
                              (UpToHeight(FeeAt(longer), h) - UpToHeight(FeeAt(longer), b))
                                + (UpToHeight(RewardsOf(longer), h) - UpToHeight(RewardsOf(longer), b))
    BY <1>10, PayoutIs
  <2>2. c = b /\ e = h
    BY <1>2, <1>10, <2>1
  <2>3. b \in 0..h /\ h \in 0..h
    BY <2>1, MaxRoundNat
  <2>4. Payout(longer, h) = (F[h] - F[c]) + (G[h] - G[c])
    BY <1>4, <2>1, <2>2, <2>3
  <2>5. PICK sum, f, g, k, y : sum = SumOver(Balance0, Account) /\ f = F[h] /\ g = F[c] /\ k = G[h] /\ y = G[c]
    OBVIOUS
  <2>6. sum \in Int /\ f \in Int /\ g \in Int /\ k \in Int /\ y \in Int
    BY <1>3, <1>5, <2>2, <2>3, <2>5
  <2>7. F[h - 1] = f - x
    BY <1>5, <1>6, <2>5, h - 1 \in 0..h
  <2>8. MoneyOf(after, longer, h) <=> after + f - f = sum + k
    BY <1>7, <2>2, <2>5
  <2>9. MoneyOf(total, chain, h - 1) <=> total + (f - x) - g = sum + y
    BY <1>9, <2>5, <2>7
  <2>10. after = total - x + ((f - g) + (k - y))
    BY <1>1, <2>4, <2>5
  <2> QED
    BY ONLY <2>6, <2>8, <2>9, <2>10, <1>5, total \in Int, after \in Int
<1>11. CASE h % D # 0
  <2>1. Payout(longer, h) = 0 /\ e = c
    BY <1>2, <1>11 DEF Payout
  <2>2. PICK sum, f, g, y : sum = SumOver(Balance0, Account) /\ f = F[h - 1] /\ g = F[c] /\ y = G[c]
    OBVIOUS
  <2>3. sum \in Int /\ f \in Int /\ g \in Int /\ y \in Int
    <3>1. h - 1 \in 0..h /\ c \in 0..h
      BY <1>2
    <3> QED
      BY ONLY <1>3, <1>5, <2>2, <3>1
  <2>4. MoneyOf(after, longer, h) <=> after + (f + x) - g = sum + y
    BY <1>6, <1>7, <2>1, <2>2
  <2>5. MoneyOf(total, chain, h - 1) <=> total + f - g = sum + y
    BY <1>9, <2>2
  <2>6. after = total - x + 0
    BY <1>1, <2>1
  <2> QED
    BY ONLY <2>3, <2>4, <2>5, <2>6, <1>5, total \in Int, after \in Int
<1> QED
  BY <1>10, <1>11

\* Money is neither lost nor made, as Conserved says it: MoneyOK.
LEMMA MoneyConserved ==
  ASSUME TablesOK, ChainOK, MoneyOK
  PROVE  Conserved
<1>1. PICK n, L : n = Len(blocks) /\ L = (n \div D) * D
  OBVIOUS
<1>2. n \in Nat \ {0} /\ n <= MaxHeight /\ L \in 0..n
  <2>1. n \in Nat \ {0} /\ n <= MaxHeight
    BY <1>1 DEF TablesOK
  <2>2. PICK k \in Nat, r \in 0..D - 1 : n \div D = k /\ n = k * D + r
    BY <2>1, Divided
  <2>3. PICK p \in Nat : p = k * D
    BY MaxRoundNat
  <2> QED
    BY <1>1, <2>1, <2>2, <2>3
<1>3. PICK f, w, S : f = FeeAt(blocks) /\ w = RewardsOf(blocks) /\ S = 1..n
  OBVIOUS
<1>4. blocks \in Seq(Block) /\ S = DOMAIN blocks
  BY <1>1, <1>3 DEF TablesOK
<1>5. \A i \in S : f[i] = blocks[i].fee /\ f[i] \in Int /\ w[i] = blocks[i].reward /\ w[i] \in Int
  <2>1. n <= Len(blocks)
    BY <1>1, <1>2
  <2>2. \A i \in 1..n : /\ FeeAt(blocks)[i] = blocks[i].fee /\ blocks[i].fee \in Nat
                       /\ RewardsOf(blocks)[i] = blocks[i].reward /\ blocks[i].reward \in Nat
    BY ONLY <1>2, <1>4, <2>1, AlongChain
  <2> QED
    BY <1>3, <2>2
<1>6. f[1] = 0 /\ w[1] = 0
  <2>1. 1 \in S
    BY <1>2, <1>3
  <2> QED
    BY <1>5, <2>1 DEF ChainOK, GenesisBlock
<1>7. Landed = S \cap (2..L)
  BY <1>1, <1>2, <1>3, <1>4 DEF Landed
<1>8. IsFiniteSet(S) /\ IsFiniteSet(1..L)
  BY <1>2, <1>3, IntervalFinite
<1>9. PICK T, E, one : T = 1..L /\ E = {} /\ one = T \cap {1}
  OBVIOUS
<1>10. T \subseteq S /\ Landed = T \ {1} /\ Landed \subseteq S
  BY <1>2, <1>3, <1>7, <1>9
<1>11. /\ \A i \in T : f[i] \in Int
       /\ \A i \in T : w[i] \in Int
       /\ \A i \in S : f[i] \in Int
  BY <1>5, <1>10
<1>12. IsFiniteSet(T) /\ IsFiniteSet(one) /\ IsFiniteSet(Landed) /\ IsFiniteSet(S \ Landed)
  BY <1>8, <1>9, <1>10, FS_Subset, FS_Difference
<1>13. SumOver(f, one) = 0
  <2>1. \A i \in one : f[i] = 0
    BY <1>6, <1>9
  <2> QED
    BY ONLY <1>12, <2>1, SumZero
<1>14. SumOver(w, one) = 0
  <2>1. \A i \in one : w[i] = 0
    BY <1>6, <1>9
  <2> QED
    BY ONLY <1>12, <2>1, SumZero
<1>15. SumOver(f, T) = SumOver(f, T \cap {1}) + SumOver(f, T \ {1})
  BY ONLY <1>11, <1>12, SumUnion
<1>16. SumOver(w, T) = SumOver(w, T \cap {1}) + SumOver(w, T \ {1})
  BY ONLY <1>11, <1>12, SumUnion
<1>17. SumOver(f, S) = SumOver(f, S \cap Landed) + SumOver(f, S \ Landed)
  BY ONLY <1>11, <1>8, SumUnion
<1>18. SumOver(f, Landed) \in Int /\ SumOver(w, Landed) \in Int /\ SumOver(f, S \ Landed) \in Int
  BY <1>5, <1>10, <1>12, SumInt
<1>19. S \cap Landed = Landed
  BY <1>10
<1>20. UpToHeight(f, n) = SumOver(f, Landed) + SumOver(f, S \ Landed)
  BY <1>3, <1>17, <1>19 DEF UpToHeight
<1>21. UpToHeight(f, L) = 0 + SumOver(f, Landed) /\ UpToHeight(w, L) = 0 + SumOver(w, Landed)
  BY <1>9, <1>10, <1>13, <1>14, <1>15, <1>16 DEF UpToHeight
<1>22. Total(ledger) + UpToHeight(f, n) - UpToHeight(f, L)
         = SumOver(Balance0, Account) + UpToHeight(w, L)
  BY <1>1, <1>3 DEF MoneyOK, MoneyOf
<1>23. Total(ledger) \in Int
  BY LedgerValues, SumInt, RoundsAssumption DEF Total, TablesOK
<1>24. Total(ledger) + SumOver(f, S \ Landed) = SumOver(Balance0, Account) + SumOver(w, Landed)
  BY ONLY <1>18, <1>20, <1>21, <1>22, <1>23
<1>25. /\ [h \in DOMAIN blocks |-> blocks[h].fee] = f
       /\ [h \in DOMAIN blocks |-> blocks[h].reward] = w
  BY <1>3 DEF FeeAt, RewardsOf
<1> QED
  BY <1>4, <1>24, <1>25 DEF Conserved, Total

LEMMA GenesisOK == GenesisLedger \in Ledgers /\ GenesisBlock \in Block
<1>1. NoRows \in [Delegate -> Int]
  BY NoRowsIs
<1>2. ASSUME NEW d \in Delegate
      PROVE  SumOver(Balance0, {a \in Account : d \in Voted0[a]}) \in Int
  <2>1. PICK S : S = {a \in Account : d \in Voted0[a]}
    OBVIOUS
  <2>2. IsFiniteSet(S) /\ \A a \in S : Balance0[a] \in Int
    <3>1. S \subseteq Account
      BY <2>1
    <3> QED
      BY <3>1, RoundsAssumption, FS_Subset
  <2> QED
    BY <2>1, <2>2, SumInt
<1>3. Balance0 \in [Account -> Int]
  BY RoundsAssumption
<1>4. GenesisBlock \in Block
  BY RoundsAssumption DEF GenesisBlock, Block, TransactionTypes
<1> QED
  BY <1>1, <1>2, <1>3, <1>4 DEF GenesisLedger, Ledgers

LEMMA InitBase ==
  ASSUME Init
  PROVE  BaseInv
<1>1. PICK g, b : g = GenesisLedger /\ b = GenesisBlock
  OBVIOUS
<1>2. g \in Ledgers /\ b \in Block
  BY <1>1, GenesisOK
<1>3. blocks = <<b>> /\ past = <<g>> /\ ledger = g /\ rollbacks = 0 /\ happened = {}
      /\ snapshot = [mem |-> g.mem, vote |-> g.vote, height |-> IF D = 2 THEN 1 ELSE 0]
  BY <1>1 DEF Init
<1>4. blocks \in Seq(Block) /\ Len(blocks) = 1 /\ past \in Seq(Ledgers) /\ Len(past) = 1 /\ blocks[1] = b
  BY <1>2, <1>3
<1>5. SnapshotOK
  BY <1>2, <1>3 DEF SnapshotOK, Ledgers
<1>6. TablesOK
  BY <1>2, <1>3, <1>4, <1>5, RoundsAssumption DEF TablesOK
<1>7. ChainOK
  BY <1>1, <1>4 DEF ChainOK
<1>8. PICK f, w : f = FeeAt(blocks) /\ w = RewardsOf(blocks)
  OBVIOUS
<1>9. f[1] = 0 /\ b.generator = Genesis
  BY <1>1, <1>4, <1>8 DEF FeeAt, GenesisBlock
<1>10. ProducedOK
  <2> SUFFICES ASSUME NEW d \in Delegate
               PROVE  ledger.produced[d] = UpToHeight(MadeBy(blocks, d), Len(blocks))
    BY DEF ProducedOK
  <2>1. PICK p : p = MadeBy(blocks, d)
    OBVIOUS
  <2>2. d # Genesis
    BY RoundsAssumption
  <2>3. p[1] = 0
    BY <1>4, <1>9, <2>1, <2>2 DEF MadeBy
  <2>4. UpToHeight(p, 1) = 0
    <3>1. PICK S : S = 1..1
      OBVIOUS
    <3>2. IsFiniteSet(S)
      BY <3>1, IntervalFinite, 1 \in Int
    <3>3. \A i \in S : p[i] = 0
      BY <2>3, <3>1, \A i \in 1..1 : i = 1
    <3> QED
      BY <3>1, <3>2, <3>3, SumZero DEF UpToHeight
  <2>5. ledger.produced[d] = 0
    BY <1>1, <1>3, NoRowsIs DEF GenesisLedger
  <2> QED
    BY <1>4, <2>1, <2>4, <2>5
<1>11. MoneyOK
  <2>1. UpToHeight(f, 1) = 0
    <3>1. PICK S : S = 1..1
      OBVIOUS
    <3>2. IsFiniteSet(S)
      BY <3>1, IntervalFinite, 1 \in Int
    <3>3. \A i \in S : f[i] = 0
      BY <1>9, <3>1, \A i \in 1..1 : i = 1
    <3> QED
      BY <3>1, <3>2, <3>3, SumZero DEF UpToHeight
  <2>2. (1 \div D) * D = 0
    <3>1. 1 = 0 * D + 1 /\ 1 \in 0..D - 1 /\ 1 \in Nat /\ 0 \in Nat
      BY MaxRoundNat
    <3>2. 1 \div D = 0
      BY ONLY <3>1, DividedOnce
    <3> QED
      BY <3>2, MaxRoundNat
  <2>3. UpToHeight(f, 0) = 0 /\ UpToHeight(w, 0) = 0
    <3>1. PICK E : E = {}
      OBVIOUS
    <3>2. 1..0 = E
      BY <3>1
    <3> QED
      BY <3>1, <3>2, SumEmpty DEF UpToHeight
  <2>4. Total(ledger) = SumOver(Balance0, Account)
    BY <1>1, <1>3 DEF Total, GenesisLedger
  <2>5. SumOver(Balance0, Account) \in Int
    BY RoundsAssumption, SumInt
  <2>6. Total(ledger) + UpToHeight(f, 1) - UpToHeight(f, (1 \div D) * D)
          = SumOver(Balance0, Account) + UpToHeight(w, (1 \div D) * D)
    BY <2>1, <2>2, <2>3, <2>4, <2>5
  <2> QED
    BY <1>4, <1>8, <2>6 DEF MoneyOK, MoneyOf
<1> QED
  BY <1>6, <1>7, <1>10, <1>11 DEF BaseInv

LEMMA ApplyBase ==
  ASSUME BaseInv, NEW t, NEW chain, NEW h, Applying(t, chain, h)
  PROVE  BaseInv'
<1>1. /\ h \in 2..MaxHeight /\ Len(blocks) = h - 1 /\ chain \in Seq(Block) /\ Len(chain) = h
      /\ blocks' = chain /\ \A i \in 1..h - 1 : chain[i] = blocks[i]
      /\ chain[h].transaction = t /\ chain[h].fee = FeeOf(t) /\ t \in Transactions
      /\ ledger' = StepOn(ledger, chain, h) /\ past' = Append(past, ledger')
      /\ rollbacks' = rollbacks
  BY DEF Applying, BaseInv, TablesOK
<1>2. TablesOK /\ ChainOK /\ ProducedOK /\ MoneyOK /\ ledger \in Ledgers /\ blocks \in Seq(Block)
  BY DEF BaseInv, TablesOK
<1>3. PICK l, m : l = ledger /\ m = ledger'
  OBVIOUS
<1>4. StepsOn(l, chain, h, m)
  BY <1>1, <1>2, <1>3, SteppedOn
<1>5. m \in Ledgers
  BY <1>4 DEF StepsOn
<1>6. past' \in Seq(Ledgers) /\ Len(past') = h
  <2>1. past \in Seq(Ledgers) /\ Len(past) = h - 1
    BY <1>1, <1>2 DEF TablesOK
  <2> QED
    BY <1>1, <1>3, <1>5, <2>1
<1>7. SnapshotOK' /\ (snapshot.height \in 0..MaxHeight)'
  <2>1. snapshot' = [mem |-> m.mem, vote |-> m.vote, height |-> h] \/ snapshot' = snapshot
    BY <1>3 DEF Applying, SnapshotAfter
  <2>2. m.mem \in [1..MaxRound -> [Delegate -> Int]] /\ m.vote \in [Delegate -> Int]
    BY <1>5 DEF Ledgers
  <2> QED
    BY <1>1, <1>2, <2>1, <2>2 DEF TablesOK, SnapshotOK
<1>8. happened' \subseteq {"misvote", "stale", "uneven"}
  BY <1>2 DEF TablesOK, Applying, If
<1>9. TablesOK'
  BY <1>1, <1>2, <1>3, <1>5, <1>6, <1>7, <1>8 DEF TablesOK
<1>10. ChainOK'
  <2>1. chain[1] = GenesisBlock
    BY <1>1, <1>2 DEF ChainOK
  <2>2. \A i \in 2..h : chain[i].fee = FeeOf(chain[i].transaction)
    <3> SUFFICES ASSUME NEW i \in 2..h PROVE chain[i].fee = FeeOf(chain[i].transaction)
      OBVIOUS
    <3>1. i = h \/ i \in 2..h - 1
      BY <1>1
    <3> QED
      BY <1>1, <1>2, <3>1 DEF ChainOK
  <2> QED
    BY <1>1, <2>1, <2>2 DEF ChainOK
<1>11. ProducedOK'
  <2> SUFFICES ASSUME NEW d \in Delegate
               PROVE  m.produced[d] = UpToHeight(MadeBy(chain, d), h)
    BY <1>1, <1>3 DEF ProducedOK
  <2>1. m.produced[d] = l.produced[d] + (IF d = chain[h].generator THEN 1 ELSE 0)
    BY <1>4 DEF StepsOn
  <2>2. l.produced[d] = UpToHeight(MadeBy(blocks, d), h - 1)
    BY <1>1, <1>2, <1>3 DEF ProducedOK
  <2>3. UpToHeight(MadeBy(chain, d), h - 1) = UpToHeight(MadeBy(blocks, d), h - 1)
    BY <1>1, <1>2, ChainGrows, h - 1 \in 0..h - 1
  <2>4. UpToHeight(MadeBy(chain, d), h) =
          UpToHeight(MadeBy(chain, d), h - 1) + (IF d = chain[h].generator THEN 1 ELSE 0)
    BY <1>1, LastOfChain
  <2> QED
    BY <2>1, <2>2, <2>3, <2>4
<1>12. MoneyOK'
  <2>1. Total(m) = Total(l) - chain[h].fee + Payout(chain, h)
    BY <1>1, <1>4 DEF StepsOn
  <2>2. Total(l) \in Int /\ Total(m) \in Int
    BY <1>2, <1>3, <1>5, LedgerValues, SumInt, RoundsAssumption DEF Total
  <2>3. MoneyOf(Total(l), blocks, h - 1) <=> MoneyOf(Total(m), chain, h)
    BY <1>1, <1>2, <2>1, <2>2, MoneyMoves
  <2>4. MoneyOf(Total(l), blocks, h - 1)
    BY <1>1, <1>2, <1>3 DEF MoneyOK
  <2>5. MoneyOf(Total(m), chain, h)
    BY <2>3, <2>4
  <2>6. MoneyOK' <=> MoneyOf(Total(m), chain, h)
    BY <1>1, <1>3 DEF MoneyOK, MoneyOf, Total, UpToHeight
  <2> QED
    BY <2>5, <2>6
<1> QED
  BY <1>9, <1>10, <1>11, <1>12 DEF BaseInv

LEMMA DeleteBase ==
  ASSUME BaseInv, NEW h, Deleting(h)
  PROVE  BaseInv'
<1>1. /\ h \in 2..MaxHeight /\ Len(blocks) = h /\ blocks' \in Seq(Block) /\ Len(blocks') = h - 1
      /\ \A i \in 1..h - 1 : blocks'[i] = blocks[i]
      /\ ledger' = StepBack(ledger, blocks, h) /\ past' \in Seq(Ledgers) /\ Len(past') = h - 1
      /\ rollbacks' \in 0..MaxRollbacks /\ snapshot' = snapshot
  BY DEF Deleting
<1>2. TablesOK /\ ChainOK /\ ProducedOK /\ MoneyOK /\ ledger \in Ledgers /\ blocks \in Seq(Block)
      /\ SnapshotOK
  BY DEF BaseInv, TablesOK
<1>3. PICK l, m, shorter : l = ledger /\ m = ledger' /\ shorter = blocks'
  OBVIOUS
<1>4. StepsBack(l, blocks, h, m)
  BY <1>1, <1>2, <1>3, SteppedBack
<1>5. m \in Ledgers
  BY <1>4 DEF StepsBack
<1>6. happened' \subseteq {"misvote", "stale", "uneven"}
  BY <1>2 DEF TablesOK, Deleting, If
<1>7. TablesOK'
  <2>1. SnapshotOK' /\ (snapshot.height \in 0..MaxHeight)'
    BY <1>1, <1>2 DEF TablesOK, SnapshotOK
  <2>2. h - 1 \in 1..MaxHeight
    BY <1>1, MaxRoundNat
  <2> QED
    BY <1>1, <1>3, <1>5, <1>6, <2>1, <2>2 DEF TablesOK
<1>8. ChainOK'
  <2>1. shorter[1] = GenesisBlock
    BY <1>1, <1>2, <1>3 DEF ChainOK
  <2>2. \A i \in 2..h - 1 : shorter[i].fee = FeeOf(shorter[i].transaction)
    BY <1>1, <1>2, <1>3 DEF ChainOK
  <2> QED
    BY <1>1, <1>3, <2>1, <2>2 DEF ChainOK
<1>9. ProducedOK'
  <2> SUFFICES ASSUME NEW d \in Delegate
               PROVE  m.produced[d] = UpToHeight(MadeBy(shorter, d), h - 1)
    BY <1>1, <1>3 DEF ProducedOK
  <2>1. m.produced[d] = l.produced[d] + (IF d = blocks[h].generator THEN -1 ELSE 0)
    BY <1>4 DEF StepsBack
  <2>2. l.produced[d] = UpToHeight(MadeBy(blocks, d), h)
    BY <1>1, <1>2, <1>3 DEF ProducedOK
  <2>3. UpToHeight(MadeBy(blocks, d), h - 1) = UpToHeight(MadeBy(shorter, d), h - 1)
    BY <1>1, <1>2, <1>3, ChainGrows, h - 1 \in 0..h - 1
  <2>4. UpToHeight(MadeBy(blocks, d), h - 1) \in Int
        /\ UpToHeight(MadeBy(blocks, d), h) =
             UpToHeight(MadeBy(blocks, d), h - 1) + (IF d = blocks[h].generator THEN 1 ELSE 0)
    BY <1>1, <1>2, LastOfChain
  <2>5. PICK x, z : x = UpToHeight(MadeBy(blocks, d), h - 1) /\ z = UpToHeight(MadeBy(blocks, d), h)
    OBVIOUS
  <2>6. x \in Int /\ z = x + (IF d = blocks[h].generator THEN 1 ELSE 0)
    BY <2>4, <2>5
  <2>7. m.produced[d] = z + (IF d = blocks[h].generator THEN -1 ELSE 0)
    BY <2>1, <2>2, <2>5
  <2> QED
    BY <2>3, <2>5, <2>6, <2>7
<1>10. MoneyOK'
  <2>1. Total(m) = Total(l) + blocks[h].fee - Payout(blocks, h)
    BY <1>1, <1>2, <1>4 DEF StepsBack, ChainOK
  <2>2. Total(l) \in Int /\ Total(m) \in Int
    BY <1>2, <1>3, <1>5, LedgerValues, SumInt, RoundsAssumption DEF Total
  <2>3. Payout(blocks, h) \in Int /\ blocks[h].fee \in Nat
    <3>1. blocks[h].fee \in Nat
      BY <1>1, <1>2, LastOfChain
    <3>2. CASE h % D = 0
      <4>1. PICK bs : bs = RoundBlocks(blocks, Calc(h))
        OBVIOUS
      <4>2. RoundOK(bs, D)
        BY <1>1, <1>2, <3>2, <4>1, RoundOfChain
      <4>3. Fees(bs) \in Nat /\ Rewards(bs) \in Nat
        BY <4>2, FeesNat, MaxRoundNat
      <4> QED
        BY <3>1, <3>2, <4>1, <4>3 DEF Payout
    <3>3. CASE h % D # 0
      BY <3>1, <3>3 DEF Payout
    <3> QED
      BY <3>2, <3>3
  <2>4. Total(l) = Total(m) - blocks[h].fee + Payout(blocks, h)
    BY ONLY <2>1, <2>2, <2>3
  <2>5. MoneyOf(Total(m), shorter, h - 1) <=> MoneyOf(Total(l), blocks, h)
    BY <1>1, <1>2, <1>3, <2>2, <2>4, MoneyMoves
  <2>6. MoneyOf(Total(l), blocks, h)
    BY <1>1, <1>2, <1>3 DEF MoneyOK
  <2>7. MoneyOK' <=> MoneyOf(Total(m), shorter, h - 1)
    BY <1>1, <1>3 DEF MoneyOK, MoneyOf, Total, UpToHeight
  <2> QED
    BY <2>5, <2>6, <2>7
<1> QED
  BY <1>7, <1>8, <1>9, <1>10 DEF BaseInv

LEMMA NextBase ==
  ASSUME BaseInv, [Next]_vars
  PROVE  BaseInv'
<1>1. ASSUME NEW generator \in Delegate, NEW t \in Transactions, ApplyBlock(generator, t)
      PROVE  BaseInv'
  BY <1>1, ApplyStep, ApplyBase DEF BaseInv
<1>2. ASSUME DeleteLastBlock
      PROVE  BaseInv'
  BY <1>2, DeleteStep, DeleteBase DEF BaseInv
<1>3. ASSUME UNCHANGED vars
      PROVE  BaseInv'
  BY <1>3 DEF vars, BaseInv, TablesOK, SnapshotOK, ChainOK, ProducedOK, MoneyOK, MoneyOf,
     UpToHeight, MadeBy, FeeAt, RewardsOf, Total
<1> QED
  BY <1>1, <1>2, <1>3 DEF Next

(***************************************************************************)
(* Conserved holds: no chain of blocks, rounds and rollbacks makes money   *)
(* or loses it, for every number of delegates of a round and all rewards.  *)
(***************************************************************************)
THEOREM MoneyKept == Spec => []Conserved
<1>1. Init => BaseInv
  BY InitBase
<1>2. BaseInv /\ [Next]_vars => BaseInv'
  BY NextBase
<1>3. BaseInv => Conserved
  BY MoneyConserved DEF BaseInv
<1> QED
  BY <1>1, <1>2, <1>3, PTL DEF Spec

-----------------------------------------------------------------------------
(* Rows, lists of delegates and rollbacks                                  *)

Exact == {"stale", "misvote"} \cap happened = {}
Even == "uneven" \notin happened

\* The rows that wait after block h are those of the round of the next block,
\* and none where a round has ended.
OpenRows(l, h) == \A r \in 1..MaxRound : (r # Calc(h + 1) \/ h % D = 0) => l.mem[r] = NoRows

RowsInv ==
  Exact => OpenRoundOnly /\ \A h \in 1..Len(past) : OpenRows(past[h], h)

\* A delegate is on the list of a voter once at most.
Single(voted) == \A a \in Account, d \in Delegate : voted[a][d] \in {0, 1}

VotedInv ==
  Exact =>
    /\ ledger.voted = past[Len(past)].voted
    /\ \A h \in 1..Len(past) : Single(past[h].voted)
    /\ \A h \in 2..Len(past) : /\ FitsIn(past[h - 1].voted, blocks[h].transaction)
                               /\ past[h].voted = VotedAfter(past[h - 1].voted, blocks[h].transaction)

\* The snapshot is of the block at its height, where that is in the chain.
SnapshotInv ==
  /\ snapshot.height \in 1..Len(past) =>
       snapshot.mem = past[snapshot.height].mem /\ snapshot.vote = past[snapshot.height].vote
  /\ snapshot.height = 0 \/ (snapshot.height + 1) % D = 0

\* The tables after block h are made by it from tables that elect as those
\* after the block before it do.
MadeFrom(l, m, chain, h) ==
  \E k \in Ledgers, c \in Seq(Block) :
    /\ Len(c) = h /\ \A i \in 1..h : c[i] = chain[i]
    /\ Elects(k) = Elects(l) /\ m = StepOn(k, c, h)

\* Of a round with other rewards read backwards that is so only until the
\* snapshot that was used to roll it back.
StepsInv ==
  Exact => \A h \in 2..Len(past) :
    (Even \/ h > snapshot.height + 1) => MadeFrom(past[h - 1], past[h], blocks, h)

SameInv == Exact /\ (Even \/ Len(past) > snapshot.height) => Elects(ledger) = Elects(past[Len(past)])

MatchedInv == happened = {} => \A h \in 1..Len(past) : Matched(past[h])

IInv ==
  /\ BaseInv /\ RowsInv /\ VotedInv /\ SnapshotInv /\ StepsInv /\ SameInv /\ MatchedInv

\* The money of voters, as the votes of genesis count it
LEMMA GenesisMatched == Matched(GenesisLedger)
<1> SUFFICES ASSUME NEW d \in Delegate
             PROVE  Cast(GenesisLedger, d) = Held(GenesisLedger, d)
  BY DEF Matched
<1>1. PICK l, V : l = GenesisLedger /\ V = {a \in Account : d \in Voted0[a]}
  OBVIOUS
<1>2. V \subseteq Account /\ IsFiniteSet(Account) /\ IsFiniteSet(V)
  BY <1>1, RoundsAssumption, FS_Subset
<1>3. PICK f, g : f = [a \in Account |-> l.balance[a] * l.voted[a][d]] /\ g = Balance0
  OBVIOUS
<1>4. \A a \in Account : g[a] \in Int /\ f[a] = IF a \in V THEN g[a] ELSE 0
  <2> SUFFICES ASSUME NEW a \in Account
               PROVE  g[a] \in Int /\ f[a] = IF a \in V THEN g[a] ELSE 0
    OBVIOUS
  <2>1. g[a] \in Nat
    BY <1>3, RoundsAssumption
  <2>2. l.balance[a] = g[a] /\ l.voted[a][d] = (IF a \in V THEN 1 ELSE 0)
    BY <1>1, <1>3 DEF GenesisLedger
  <2>3. f[a] = l.balance[a] * l.voted[a][d]
    BY <1>3
  <2> QED
    BY <2>1, <2>2, <2>3
<1>5. SumOver(f, Account) = SumOver(f, Account \cap V) + SumOver(f, Account \ V)
  <2>1. \A a \in Account : f[a] \in Int
    BY <1>4
  <2> QED
    BY ONLY <1>2, <2>1, SumUnion
<1>6. SumOver(f, Account \ V) = 0
  <2>1. IsFiniteSet(Account \ V) /\ \A a \in Account \ V : f[a] = 0
    BY <1>2, <1>4, FS_Difference
  <2> QED
    BY ONLY <2>1, SumZero
<1>7. SumOver(g, V) = SumOver(f, V)
  <2>1. \A a \in V : g[a] \in Int /\ f[a] = g[a]
    BY <1>2, <1>4
  <2> QED
    BY ONLY <1>2, <2>1, SumSame
<1>8. Account \cap V = V
  BY <1>2
<1>9. SumOver(g, V) \in Int
  <2>1. \A a \in V : g[a] \in Int
    BY <1>2, <1>4
  <2> QED
    BY ONLY <1>2, <2>1, SumInt
<1>10. Held(l, d) = SumOver(g, V)
  <2>1. Held(l, d) = SumOver(f, Account)
    BY <1>3 DEF Held
  <2>2. SumOver(f, Account) = SumOver(g, V) + 0
    BY ONLY <1>5, <1>6, <1>7, <1>8
  <2> QED
    BY ONLY <2>1, <2>2, <1>9
<1>11. l.vote[d] = SumOver(g, V)
  BY <1>1, <1>3 DEF GenesisLedger
<1>12. PICK w, R : w = [r \in 1..MaxRound |-> l.mem[r][d]] /\ R = 1..MaxRound
  OBVIOUS
<1>13. SumOver(w, R) = 0
  <2>1. IsFiniteSet(R)
    BY <1>12, IntervalFinite, MaxRoundNat
  <2>2. \A r \in R : w[r] = 0
    BY <1>1, <1>12, NoRowsIs DEF GenesisLedger
  <2> QED
    BY ONLY <2>1, <2>2, SumZero
<1>14. Cast(l, d) = SumOver(g, V)
  BY <1>9, <1>11, <1>12, <1>13 DEF Cast
<1> QED
  BY <1>1, <1>10, <1>14

LEMMA InitIInv ==
  ASSUME Init
  PROVE  IInv
<1>1. PICK g : g = GenesisLedger
  OBVIOUS
<1>2. g \in Ledgers /\ Matched(g)
  BY <1>1, GenesisOK, GenesisMatched
<1>3. blocks = <<GenesisBlock>> /\ past = <<g>> /\ ledger = g /\ happened = {}
      /\ snapshot = [mem |-> g.mem, vote |-> g.vote, height |-> IF D = 2 THEN 1 ELSE 0]
  BY <1>1 DEF Init
<1>4. Len(blocks) = 1 /\ Len(past) = 1 /\ past[1] = g
  BY <1>3
<1>5. BaseInv
  BY InitBase
<1>6. \A r \in 1..MaxRound : g.mem[r] = NoRows
  BY <1>1 DEF GenesisLedger
<1>7. RowsInv
  BY <1>3, <1>4, <1>6 DEF RowsInv, OpenRoundOnly, OpenRows
<1>8. VotedInv
  <2>1. Single(g.voted)
    BY <1>1 DEF Single, GenesisLedger
  <2> QED
    BY <1>3, <1>4, <2>1 DEF VotedInv
<1>9. SnapshotInv
  <2>1. D = 2 => (1 + 1) % D = 0
    OBVIOUS
  <2> QED
    BY <1>3, <1>4, <2>1 DEF SnapshotInv
<1>10. StepsInv
  BY <1>4 DEF StepsInv
<1>11. SameInv
  BY <1>3, <1>4 DEF SameInv
<1>12. MatchedInv
  BY <1>2, <1>4 DEF MatchedInv
<1> QED
  BY <1>5, <1>7, <1>8, <1>9, <1>10, <1>11, <1>12 DEF IInv

LEMMA VoteIn ==
  ASSUME NEW l \in Ledgers, NEW t \in TransactionTypes, Single(l.voted),
         t.kind = "vote" => VoteFits(l, t)
  PROVE  FitsIn(l.voted, t)
<1> SUFFICES ASSUME t.kind = "vote"
             PROVE  l.voted[t.from][t.vote.delegate] = IF t.vote.action = "+" THEN 0 ELSE 1
  BY DEF FitsIn
<1>1. t.from \in Account /\ t.vote.delegate \in Delegate
  BY Kinds DEF Votes
<1>2. l.voted[t.from][t.vote.delegate] \in {0, 1}
  BY <1>1 DEF Single
<1> QED
  BY <1>2 DEF VoteFits

LEMMA VotedSingle ==
  ASSUME NEW l \in Ledgers, NEW t \in TransactionTypes, Single(l.voted)
  PROVE  Single(VotedAfter(l.voted, t))
<1>1. CASE t.kind # "vote"
  BY <1>1 DEF VotedAfter
<1>2. CASE t.kind = "vote"
  <2>1. PICK a \in Account, e \in Delegate, x \in {0, 1} :
          a = t.from /\ e = t.vote.delegate /\ x = IF t.vote.action = "+" THEN 1 ELSE 0
    <3>1. t.from \in Account /\ t.vote.delegate \in Delegate
      BY <1>2, Kinds DEF Votes
    <3>2. (IF t.vote.action = "+" THEN 1 ELSE 0) \in {0, 1}
      OBVIOUS
    <3> QED
      BY <3>1, <3>2
  <2>2. PICK v, w : v = l.voted /\ w = VotedAfter(v, t)
    OBVIOUS
  <2>3. v \in [Account -> [Delegate -> Nat]]
    BY <2>2 DEF Ledgers
  <2>4. w = [v EXCEPT ![a][e] = x]
    BY <1>2, <2>1, <2>2 DEF VotedAfter
  <2>5. \A b \in Account, d \in Delegate : w[b][d] = v[b][d] \/ w[b][d] = x
    BY <2>1, <2>3, <2>4
  <2> QED
    BY <2>1, <2>2, <2>5 DEF Single
<1> QED
  BY <1>1, <1>2

LEMMA RowsOn ==
  ASSUME NEW l, NEW chain, NEW h \in 2..MaxHeight, NEW m, StepsOn(l, chain, h, m),
         \A r \in 1..MaxRound : r # Calc(h) => l.mem[r] = NoRows
  PROVE  OpenRows(m, h) /\ \A r \in 1..MaxRound : r # Calc(h + 1) => m.mem[r] = NoRows
<1>1. \A r \in 1..MaxRound : r # Calc(h) => m.mem[r] = NoRows
  BY DEF StepsOn
<1>2. CASE h % D = 0
  <2>1. m.mem[Calc(h)] = NoRows
    BY <1>2 DEF StepsOn
  <2> QED
    BY <1>1, <2>1 DEF OpenRows
<1>3. CASE h % D # 0
  <2>1. Calc(h + 1) = Calc(h)
    BY <1>3, RoundEnds, h \in Nat \ {0}
  <2> QED
    BY <1>1, <1>3, <2>1 DEF OpenRows
<1> QED
  BY <1>2, <1>3

\* What happens is not forgotten.
LEMMA ExactBefore ==
  ASSUME NEW e, happened' = happened \cup e
  PROVE  /\ Exact' => Exact /\ "stale" \notin e /\ "misvote" \notin e
         /\ Even' => Even /\ "uneven" \notin e
         /\ happened' = {} => happened = {} /\ e = {}
BY DEF Exact, Even

LEMMA SameSequence ==
  ASSUME NEW S, NEW s \in Seq(S), NEW c \in Seq(S), Len(s) = Len(c),
         \A i \in 1..Len(s) : c[i] = s[i]
  PROVE  c = s
OBVIOUS

LEMMA MatchedElects ==
  ASSUME NEW l, NEW m, Elects(l) = Elects(m), Matched(l)
  PROVE  Matched(m)
BY SameElects, MatchedSame

\* A shorter chain does.
LEMMA MadeFromPart ==
  ASSUME NEW l, NEW m, NEW chain, NEW other, NEW h, MadeFrom(l, m, chain, h),
         \A i \in 1..h : other[i] = chain[i]
  PROVE  MadeFrom(l, m, other, h)
BY DEF MadeFrom

LEMMA ApplyIInv ==
  ASSUME IInv, NEW t, NEW chain, NEW h, Applying(t, chain, h)
  PROVE  IInv'
<1>1. /\ h \in 2..MaxHeight /\ Len(blocks) = h - 1 /\ chain \in Seq(Block) /\ Len(chain) = h
      /\ blocks' = chain /\ \A i \in 1..h - 1 : chain[i] = blocks[i]
      /\ chain[h].transaction = t /\ t \in Transactions /\ ledger' = StepOn(ledger, chain, h)
      /\ past' = Append(past, ledger') /\ snapshot' = SnapshotAfter(ledger', h)
      /\ happened' = happened \cup If(t.kind = "vote" /\ ~VoteFits(ledger, t), "misvote")
  BY DEF Applying, IInv, BaseInv, TablesOK
<1>2. /\ BaseInv /\ TablesOK /\ RowsInv /\ VotedInv /\ SnapshotInv /\ StepsInv /\ SameInv
      /\ MatchedInv /\ ledger \in Ledgers /\ past \in Seq(Ledgers) /\ Len(past) = h - 1
      /\ snapshot.height \in Nat
  BY <1>1 DEF IInv, BaseInv, TablesOK
<1>3. PICK l, m : l = ledger /\ m = ledger'
  OBVIOUS
<1>4. StepsOn(l, chain, h, m)
  BY <1>1, <1>2, <1>3, SteppedOn
<1>5. m \in Ledgers /\ l \in Ledgers /\ t \in TransactionTypes
  BY <1>1, <1>2, <1>3, <1>4, RoundsAssumption DEF StepsOn
<1>6. /\ Len(past') = h /\ past'[h] = m /\ \A i \in 1..h - 1 : past'[i] = past[i]
      /\ \A i \in 1..h - 1 : past[i] \in Ledgers
  BY <1>1, <1>2, <1>3, <1>5
<1>7. h - 1 \in 1..h - 1 /\ h \in Nat /\ 2..h = (2..h - 1) \cup {h} /\ 1..h = (1..h - 1) \cup {h}
  BY <1>1
<1>8. /\ Exact' => Exact /\ (t.kind = "vote" => VoteFits(l, t))
      /\ Even' => Even
      /\ happened' = {} => happened = {}
  BY <1>1, <1>3, ExactBefore DEF If
<1>9. \/ snapshot' = snapshot /\ (h + 1) % D # 0
      \/ /\ snapshot'.height = h /\ snapshot'.mem = m.mem /\ snapshot'.vote = m.vote
         /\ (h + 1) % D = 0
  BY <1>1, <1>3 DEF SnapshotAfter
<1>10. RowsInv'
  <2> SUFFICES ASSUME Exact'
               PROVE  /\ \A r \in 1..MaxRound : r # Calc(h + 1) => m.mem[r] = NoRows
                      /\ \A i \in 1..h : OpenRows(past'[i], i)
    BY <1>1, <1>3, <1>6 DEF RowsInv, OpenRoundOnly, OpenRows
  <2>1. \A r \in 1..MaxRound : r # Calc(h) => l.mem[r] = NoRows
    BY <1>1, <1>2, <1>3, <1>8 DEF RowsInv, OpenRoundOnly, Exact
  <2>2. OpenRows(m, h) /\ \A r \in 1..MaxRound : r # Calc(h + 1) => m.mem[r] = NoRows
    BY <1>1, <1>4, <2>1, RowsOn
  <2>3. \A i \in 1..h - 1 : OpenRows(past[i], i)
    BY <1>2, <1>8 DEF RowsInv
  <2> QED
    BY <1>6, <1>7, <2>2, <2>3
<1>11. Exact' => FitsIn(l.voted, t) /\ m.voted = VotedAfter(l.voted, t) /\ l.voted = past[h - 1].voted
                 /\ Single(l.voted)
  <2> SUFFICES ASSUME Exact'
               PROVE  FitsIn(l.voted, t) /\ m.voted = VotedAfter(l.voted, t)
                      /\ l.voted = past[h - 1].voted /\ Single(l.voted)
    OBVIOUS
  <2>1. l.voted = past[h - 1].voted /\ Single(past[h - 1].voted)
    BY <1>2, <1>3, <1>7, <1>8 DEF VotedInv
  <2>2. FitsIn(l.voted, t)
    BY <1>5, <1>8, <2>1, VoteIn
  <2> QED
    BY <1>1, <1>4, <2>1, <2>2 DEF StepsOn
<1>12. VotedInv'
  <2> SUFFICES ASSUME Exact'
               PROVE  /\ m.voted = past'[h].voted
                      /\ \A i \in 1..h : Single(past'[i].voted)
                      /\ \A i \in 2..h : /\ FitsIn(past'[i - 1].voted, chain[i].transaction)
                                         /\ past'[i].voted = VotedAfter(past'[i - 1].voted, chain[i].transaction)
    BY <1>1, <1>3, <1>6 DEF VotedInv
  <2>1. Single(m.voted)
    BY <1>5, <1>11, VotedSingle
  <2>2. \A i \in 1..h : Single(past'[i].voted)
    <3>1. \A i \in 1..h - 1 : Single(past[i].voted)
      BY <1>2, <1>8 DEF VotedInv
    <3> QED
      BY <1>6, <1>7, <2>1, <3>1
  <2>3. ASSUME NEW i \in 2..h
        PROVE  /\ FitsIn(past'[i - 1].voted, chain[i].transaction)
               /\ past'[i].voted = VotedAfter(past'[i - 1].voted, chain[i].transaction)
    <3>1. CASE i = h
      BY <3>1, <1>1, <1>6, <1>7, <1>11
    <3>2. CASE i # h
      <4>1. i \in 2..h - 1 /\ i \in 1..h - 1 /\ i - 1 \in 1..h - 1
        BY <3>2, <1>7
      <4>2. /\ FitsIn(past[i - 1].voted, blocks[i].transaction)
            /\ past[i].voted = VotedAfter(past[i - 1].voted, blocks[i].transaction)
        BY <4>1, <1>2, <1>8 DEF VotedInv
      <4> QED
        BY <4>1, <4>2, <1>1, <1>6
    <3> QED
      BY <3>1, <3>2
  <2> QED
    BY <1>6, <2>2, <2>3
<1>13. SnapshotInv'
  <2> SUFFICES /\ snapshot'.height \in 1..h =>
                    /\ snapshot'.mem = past'[snapshot'.height].mem
                    /\ snapshot'.vote = past'[snapshot'.height].vote
               /\ snapshot'.height = 0 \/ (snapshot'.height + 1) % D = 0
    BY <1>6 DEF SnapshotInv
  <2>1. CASE snapshot' = snapshot /\ (h + 1) % D # 0
    <3>1. snapshot.height # h
      <4>1. h # 0
        BY <1>1
      <4> QED
        BY <4>1, <2>1, <1>2 DEF SnapshotInv
    <3>2. snapshot.height \in 1..h => snapshot.height \in 1..h - 1
      BY <1>7, <3>1
    <3> QED
      BY <1>2, <1>6, <2>1, <3>2 DEF SnapshotInv
  <2>2. CASE /\ snapshot'.height = h /\ snapshot'.mem = m.mem /\ snapshot'.vote = m.vote
             /\ (h + 1) % D = 0
    BY <1>6, <2>2
  <2> QED
    BY <1>9, <2>1, <2>2
<1>14. Exact' /\ (Even' \/ h > snapshot'.height + 1) => Elects(l) = Elects(past[h - 1])
  <2> SUFFICES ASSUME Exact', Even' \/ h > snapshot'.height + 1
               PROVE  Elects(l) = Elects(past[h - 1])
    OBVIOUS
  <2>1. Even \/ h - 1 > snapshot.height
    BY <1>2, <1>7, <1>8, <1>9
  <2> QED
    BY <1>2, <1>3, <1>8, <2>1 DEF SameInv
<1>15. StepsInv'
  <2> SUFFICES ASSUME Exact', NEW i \in 2..h, Even' \/ i > snapshot'.height + 1
               PROVE  MadeFrom(past'[i - 1], past'[i], chain, i)
    BY <1>1, <1>6 DEF StepsInv
  <2>1. CASE i = h
    <3>1. Elects(l) = Elects(past[h - 1])
      BY <1>14, <2>1
    <3>2. MadeFrom(past[h - 1], m, chain, h)
      BY <3>1, <1>1, <1>3, <1>5 DEF MadeFrom
    <3> QED
      BY <3>2, <2>1, <1>6, <1>7
  <2>2. CASE i # h
    <3>1. i \in 2..h - 1 /\ i \in 1..h - 1 /\ i - 1 \in 1..h - 1
      BY <2>2, <1>7
    <3>2. Even \/ i > snapshot.height + 1
      BY <3>1, <1>2, <1>7, <1>8, <1>9
    <3>3. MadeFrom(past[i - 1], past[i], blocks, i)
      BY <3>1, <3>2, <1>2, <1>8 DEF StepsInv
    <3>4. \A j \in 1..i : chain[j] = blocks[j]
      BY <3>1, <1>1, <1>7
    <3>5. MadeFrom(past[i - 1], past[i], chain, i)
      BY ONLY <3>3, <3>4, MadeFromPart
    <3> QED
      BY <3>1, <3>5, <1>6
  <2> QED
    BY <2>1, <2>2
<1>16. SameInv'
  BY <1>3, <1>6 DEF SameInv, Elects
<1>17. MatchedInv'
  <2> SUFFICES ASSUME happened' = {}
               PROVE  \A i \in 1..h : Matched(past'[i])
    BY <1>6 DEF MatchedInv, Matched, Cast, Held
  <2>1. Exact' /\ Even'
    BY DEF Exact, Even
  <2>2. Elects(l) = Elects(past[h - 1])
    BY <1>14, <2>1
  <2>3. \A i \in 1..h - 1 : Matched(past[i])
    BY <1>2, <1>8 DEF MatchedInv
  <2>4. Matched(l)
    <3>1. Matched(past[h - 1]) /\ Elects(past[h - 1]) = Elects(l)
      BY <1>7, <2>2, <2>3
    <3> QED
      BY ONLY <3>1, MatchedElects
  <2>5. Matched(m)
    BY <1>1, <1>4, <1>11, <2>1, <2>4 DEF StepsOn
  <2> QED
    BY <1>6, <1>7, <2>3, <2>5
<1>18. BaseInv'
  BY <1>2, ApplyBase
<1> QED
  BY <1>10, <1>12, <1>13, <1>15, <1>16, <1>17, <1>18 DEF IInv

LEMMA DeleteIInv ==
  ASSUME IInv, NEW h, Deleting(h)
  PROVE  IInv'
<1>1. /\ h \in 2..MaxHeight /\ Len(blocks) = h /\ blocks' \in Seq(Block) /\ Len(blocks') = h - 1
      /\ \A i \in 1..h - 1 : blocks'[i] = blocks[i]
      /\ Len(past') = h - 1 /\ \A i \in 1..h - 1 : past'[i] = past[i]
      /\ ledger' = StepBack(ledger, blocks, h) /\ snapshot' = snapshot
  BY DEF Deleting
<1>2. /\ BaseInv /\ RowsInv /\ VotedInv /\ SnapshotInv /\ StepsInv /\ SameInv /\ MatchedInv
      /\ blocks \in Seq(Block) /\ SnapshotOK /\ ledger \in Ledgers /\ past \in Seq(Ledgers)
      /\ Len(past) = h /\ snapshot.height \in Nat
  BY <1>1 DEF IInv, BaseInv, TablesOK
<1>3. PICK l, m, p, t : l = ledger /\ m = ledger' /\ p = past[h - 1] /\ t = blocks[h].transaction
  OBVIOUS
<1>4. StepsBack(l, blocks, h, m) /\ m.voted = Undo(l, t, Calc(h)).voted
  BY <1>1, <1>2, <1>3, SteppedBack
<1>5. m \in Ledgers /\ l \in Ledgers /\ p \in Ledgers /\ t \in TransactionTypes
      /\ Calc(h) \in 1..MaxRound
  <2>1. h - 1 \in 1..Len(past)
    BY <1>1, <1>2
  <2> QED
    BY <1>1, <1>2, <1>3, <1>4, <2>1, HeightIs DEF StepsBack
<1>6. /\ Exact' => Exact /\ (h % D = 0 => snapshot.height = h - 1)
      /\ Even' => Even /\ (h % D = 0 => ~Uneven(RoundBlocks(blocks, Calc(h))))
      /\ happened' = {} => happened = {}
  <2>1. PICK e : e = If(h % D = 0 /\ snapshot.height # h - 1, "stale")
                       \cup If(h % D = 0 /\ Uneven(RoundBlocks(blocks, Calc(h))), "uneven")
    OBVIOUS
  <2>2. happened' = happened \cup e
    BY <2>1 DEF Deleting
  <2>3. "stale" \notin e => (h % D = 0 => snapshot.height = h - 1)
    BY <2>1 DEF If
  <2>4. "uneven" \notin e => (h % D = 0 => ~Uneven(RoundBlocks(blocks, Calc(h))))
    BY <2>1 DEF If
  <2> QED
    BY <2>2, <2>3, <2>4, ExactBefore
<1>7. h - 1 \in 1..h - 1 /\ h - 1 \in 1..h /\ h \in 1..h /\ h \in 2..h /\ h \in Nat
      /\ 1..h - 1 \subseteq 1..h /\ 2..h - 1 \subseteq 2..h
  BY <1>1
\* Where the round ends, the snapshot is that of the block before.
<1>8. Exact' /\ h % D = 0 => snapshot.mem = p.mem /\ snapshot.vote = p.vote
  BY <1>2, <1>3, <1>6, <1>7 DEF SnapshotInv
<1>9. Exact' => \A r \in 1..MaxRound : r # Calc(h) => p.mem[r] = NoRows
  <2>1. Exact' => OpenRows(p, h - 1)
    BY <1>2, <1>3, <1>6, <1>7 DEF RowsInv
  <2>2. h - 1 + 1 = h
    BY <1>7
  <2> QED
    BY <2>1, <2>2 DEF OpenRows
<1>10. Exact' => \A r \in 1..MaxRound : r # Calc(h) => m.mem[r] = NoRows
  <2> SUFFICES ASSUME Exact', NEW r \in 1..MaxRound, r # Calc(h)
               PROVE  m.mem[r] = NoRows
    OBVIOUS
  <2>1. CASE h % D # 0
    <3>1. Calc(h + 1) = Calc(h)
      BY <2>1, <1>1, RoundEnds
    <3>2. l.mem[r] = NoRows
      BY <3>1, <1>1, <1>2, <1>3, <1>6 DEF RowsInv, OpenRoundOnly, Exact
    <3> QED
      BY <3>2, <2>1, <1>4 DEF StepsBack
  <2>2. CASE h % D = 0
    <3>1. Elects(l) = Elects(past[h])
      BY <2>2, <1>2, <1>3, <1>6, <1>7 DEF SameInv
    <3>2. l.mem = past[h].mem
      BY <3>1, SameElects
    <3>3. l.mem[r] = NoRows
      BY <3>2, <2>2, <1>2, <1>6, <1>7 DEF RowsInv, OpenRows
    <3>4. snapshot.mem[r] = NoRows
      BY <2>2, <1>8, <1>9
    <3>5. \A d \in Delegate : m.mem[r][d] = l.mem[r][d] + snapshot.mem[r][d]
      BY <2>2, <1>4 DEF StepsBack
    <3>6. m.mem[r] \in [Delegate -> Int]
      BY <1>5 DEF Ledgers
    <3>7. \A d \in Delegate : m.mem[r][d] = NoRows[d]
      BY <3>3, <3>4, <3>5, NoRowsIs
    <3> QED
      BY <3>6, <3>7, NoRowsIs
  <2> QED
    BY <2>1, <2>2
<1>11. RowsInv'
  <2> SUFFICES ASSUME Exact'
               PROVE  /\ \A r \in 1..MaxRound : r # Calc(h) => m.mem[r] = NoRows
                      /\ \A i \in 1..h - 1 : OpenRows(past'[i], i)
    BY <1>1, <1>3, <1>7 DEF RowsInv, OpenRoundOnly, OpenRows
  <2>1. \A i \in 1..h - 1 : OpenRows(past[i], i)
    BY <1>2, <1>6, <1>7 DEF RowsInv
  <2> QED
    BY <1>1, <1>10, <2>1
<1>12. Exact' => FitsIn(p.voted, t) /\ l.voted = VotedAfter(p.voted, t)
  BY <1>2, <1>3, <1>6, <1>7 DEF VotedInv
<1>13. VotedInv'
  <2> SUFFICES ASSUME Exact'
               PROVE  /\ m.voted = past'[h - 1].voted
                      /\ \A i \in 1..h - 1 : Single(past'[i].voted)
                      /\ \A i \in 2..h - 1 : /\ FitsIn(past'[i - 1].voted, blocks'[i].transaction)
                                             /\ past'[i].voted = VotedAfter(past'[i - 1].voted, blocks'[i].transaction)
    BY <1>1, <1>3 DEF VotedInv
  <2>1. PICK round, u : round \in 1..MaxRound /\ round = Calc(h) /\ u = Undo(l, t, round)
    BY <1>5
  <2>2. u.voted = p.voted
    BY ONLY <1>5, <1>12, <2>1, Exact', VotedUndone
  <2>3. \A i \in 1..h - 1 : Single(past[i].voted)
    BY <1>2, <1>6, <1>7 DEF VotedInv
  <2>4. ASSUME NEW i \in 2..h - 1
        PROVE  /\ FitsIn(past'[i - 1].voted, blocks'[i].transaction)
               /\ past'[i].voted = VotedAfter(past'[i - 1].voted, blocks'[i].transaction)
    <3>1. i \in 1..h - 1 /\ i - 1 \in 1..h - 1 /\ i \in 2..h
      BY <1>7
    <3>2. /\ FitsIn(past[i - 1].voted, blocks[i].transaction)
          /\ past[i].voted = VotedAfter(past[i - 1].voted, blocks[i].transaction)
      BY <3>1, <1>2, <1>6 DEF VotedInv
    <3> QED
      BY <3>1, <3>2, <1>1
  <2> QED
    BY <1>1, <1>3, <1>4, <1>7, <2>1, <2>2, <2>3, <2>4
<1>14. SnapshotInv'
  BY <1>1, <1>2, <1>7 DEF SnapshotInv
<1>15. StepsInv'
  <2> SUFFICES ASSUME Exact', NEW i \in 2..h - 1, Even' \/ i > snapshot.height + 1
               PROVE  MadeFrom(past[i - 1], past[i], blocks', i)
    <3>1. \A i \in 2..h - 1 : i \in 1..h - 1 /\ i - 1 \in 1..h - 1
      BY <1>7
    <3> QED
      BY <1>1, <1>7, <3>1 DEF StepsInv, MadeFrom
  <2>1. MadeFrom(past[i - 1], past[i], blocks, i)
    BY <1>2, <1>6, <1>7 DEF StepsInv
  <2>2. \A j \in 1..i : blocks'[j] = blocks[j]
    BY <1>1, <1>7
  <2> QED
    BY ONLY <2>1, <2>2, MadeFromPart
<1>16. SameInv'
  <2> SUFFICES ASSUME Exact', Even' \/ h - 1 > snapshot.height
               PROVE  Elects(m) = Elects(p)
    BY <1>1, <1>3, <1>7 DEF SameInv, Elects
  <2>1. Even \/ h > snapshot.height + 1
    BY <1>2, <1>6, <1>7
  <2>2. Elects(l) = Elects(past[h])
    BY <2>1, <1>2, <1>3, <1>6, <1>7 DEF SameInv
  <2>3. MadeFrom(p, past[h], blocks, h)
    BY <2>1, <1>2, <1>3, <1>6, <1>7 DEF StepsInv
  <2>4. PICK k \in Ledgers, c \in Seq(Block) :
          /\ Len(c) = h /\ \A i \in 1..h : c[i] = blocks[i]
          /\ Elects(k) = Elects(p) /\ past[h] = StepOn(k, c, h)
    BY <2>3 DEF MadeFrom
  <2>5. c = blocks
    BY <2>4, <1>1, <1>2, SameSequence
  <2>6. Elects(l) = Elects(StepOn(k, blocks, h))
    BY <2>2, <2>4, <2>5
  <2>7. k.voted = p.voted /\ k.mem = p.mem /\ k.vote = p.vote
    BY <2>4, SameElects
  <2>8. FitsIn(k.voted, blocks[h].transaction)
    BY <2>7, <1>3, <1>12
  <2>9. h % D = 0 =>
          /\ ~Uneven(RoundBlocks(blocks, Calc(h)))
          /\ \A q \in 1..MaxRound : q # Calc(h) => k.mem[q] = NoRows
          /\ snapshot.mem = k.mem /\ snapshot.vote = k.vote
    <3> SUFFICES ASSUME h % D = 0
                 PROVE  /\ ~Uneven(RoundBlocks(blocks, Calc(h)))
                        /\ \A q \in 1..MaxRound : q # Calc(h) => k.mem[q] = NoRows
                        /\ snapshot.mem = k.mem /\ snapshot.vote = k.vote
      OBVIOUS
    <3>1. Even'
      BY <1>6, <1>7
    <3> QED
      BY <3>1, <2>7, <1>6, <1>8, <1>9
  <2>10. m = StepBack(l, blocks, h)
    BY <1>1, <1>3
  <2>11. Elects(m) = Elects(k)
    BY ONLY <1>1, <1>2, <1>5, k \in Ledgers, <2>6, <2>8, <2>9, <2>10, BlockRestored
  <2> QED
    BY <2>4, <2>11
<1>17. MatchedInv'
  BY <1>1, <1>2, <1>6, <1>7 DEF MatchedInv, Matched, Cast, Held
<1>18. BaseInv'
  BY <1>2, DeleteBase
<1> QED
  BY <1>11, <1>13, <1>14, <1>15, <1>16, <1>17, <1>18 DEF IInv

LEMMA NextIInv ==
  ASSUME IInv, [Next]_vars
  PROVE  IInv'
<1> USE DEF IInv
<1>1. ASSUME NEW generator \in Delegate, NEW t \in Transactions, ApplyBlock(generator, t)
      PROVE  IInv'
  BY <1>1, ApplyStep, ApplyIInv DEF BaseInv
<1>2. ASSUME DeleteLastBlock
      PROVE  IInv'
  BY <1>2, DeleteStep, DeleteIInv DEF BaseInv
<1>3. ASSUME UNCHANGED vars
      PROVE  IInv'
  <2>1. BaseInv'
    BY <1>3, NextBase
  <2>2. /\ blocks' = blocks /\ ledger' = ledger /\ snapshot' = snapshot /\ past' = past
        /\ happened' = happened
    BY <1>3 DEF vars
  <2>3. RowsInv' /\ VotedInv' /\ SnapshotInv'
    BY <2>2 DEF RowsInv, VotedInv, SnapshotInv, Exact, OpenRoundOnly
  <2>4. StepsInv'
    BY <2>2 DEF StepsInv, Exact, Even
  <2>5. SameInv'
    BY <2>2 DEF SameInv, Exact, Even, Elects
  <2>6. MatchedInv'
    BY <2>2 DEF MatchedInv
  <2> QED
    BY <2>1, <2>3, <2>4, <2>5, <2>6
<1> QED
  BY <1>1, <1>2, <1>3 DEF Next

LEMMA TypesFollow ==
  ASSUME IInv
  PROVE  TypeOK
<1>1. TablesOK /\ ProducedOK /\ blocks \in Seq(Block) /\ Len(blocks) \in 1..MaxHeight
      /\ ledger \in Ledgers
  BY DEF IInv, BaseInv, TablesOK
<1>2. ASSUME NEW d \in Delegate
      PROVE  ledger.produced[d] \in Nat
  <2>1. PICK n, f, g : n = Len(blocks) /\ f = MadeBy(blocks, d) /\ g = [i \in 1..n |-> f[i]]
    OBVIOUS
  <2>2. n \in Nat /\ \A i \in 1..n : f[i] \in Nat
    <3>1. n \in Nat
      BY <1>1, <2>1
    <3>2. \A i \in 1..n : f[i] = (IF d = blocks[i].generator THEN 1 ELSE 0)
      BY <1>1, <2>1, <3>1, AlongChain
    <3> QED
      BY <3>1, <3>2
  <2>3. SumOver(f, 1..n) \in Nat
    BY ONLY <2>2, SumNat
  <2> QED
    BY <1>1, <2>1, <2>3 DEF ProducedOK, UpToHeight
<1>3. ledger.produced \in [Delegate -> Nat]
  BY <1>1, <1>2 DEF Ledgers
<1> QED
  BY <1>1, <1>3 DEF TypeOK, TablesOK, Ledgers

(***************************************************************************)
(* Only the rows of the open round wait in mem_round, whatever blocks were *)
(* applied and rolled back, for every set of delegates and every workload. *)
(***************************************************************************)
THEOREM RowsOfOpenRound == Spec => []RowsOK
<1>1. Init => IInv
  BY InitIInv
<1>2. IInv /\ [Next]_vars => IInv'
  BY NextIInv
<1>3. IInv => RowsOK
  <2>1. ASSUME IInv PROVE OpenRoundOnly
    <3>1. CASE Exact
      BY <2>1, <3>1 DEF IInv, RowsInv
    <3>2. CASE ~Exact
      BY <3>2 DEF Exact, OpenRoundOnly
    <3> QED
      BY <3>1, <3>2
  <2> QED
    BY <2>1, TypesFollow DEF RowsOK
<1> QED
  BY <1>1, <1>2, <1>3, PTL DEF Spec

(***************************************************************************)
(* A block that is rolled back leaves the balances, the lists of voters,   *)
(* the votes, mem_round and the counts of blocks as they were before it.   *)
(***************************************************************************)
THEOREM RollbackExact == Spec => []RollbackRestores
<1>1. Init => IInv
  BY InitIInv
<1>2. IInv /\ [Next]_vars => IInv'
  BY NextIInv
<1>3. IInv => RollbackRestores
  BY DEF IInv, SameInv, RollbackRestores, Exact, Even
<1> QED
  BY <1>1, <1>2, <1>3, PTL DEF Spec

(***************************************************************************)
(* The vote of every delegate and its rows in mem_round add up to the      *)
(* balances of the accounts that vote for it.                              *)
(***************************************************************************)
THEOREM VotesFollowMoney == Spec => []VotesMatch
<1>1. Init => IInv
  BY InitIInv
<1>2. IInv /\ [Next]_vars => IInv'
  BY NextIInv
<1>3. IInv => VotesMatch
  <2>1. ASSUME IInv, happened = {}
        PROVE  Matched(ledger)
    <3>1. Exact /\ Even
      BY <2>1 DEF Exact, Even
    <3>2. PICK n : n = Len(past)
      OBVIOUS
    <3>3. n \in 1..n
      BY <2>1, <3>2 DEF IInv, BaseInv, TablesOK
    <3>4. Elects(past[n]) = Elects(ledger)
      BY <2>1, <3>1, <3>2 DEF IInv, SameInv
    <3>5. Matched(past[n])
      BY <2>1, <3>2, <3>3 DEF IInv, MatchedInv
    <3> QED
      BY ONLY <3>4, <3>5, MatchedElects
  <2> QED
    BY <2>1 DEF VotesMatch, Matched, Cast, Held
<1> QED
  BY <1>1, <1>2, <1>3, PTL DEF Spec

-----------------------------------------------------------------------------
(***************************************************************************)
(*                           The reward pool                               *)
(***************************************************************************)

-----------------------------------------------------------------------------
(* Folds over sequences, as FoldLeft takes them: from the last position down *)

FoldTable(g, n, base, step) ==
  \A S \in SUBSET (1..n) : g[S] = IF S = {} THEN base ELSE step[<<Max(S), g[S \ {Max(S)}]>>]

\* A table of a fold exists.
LEMMA FoldExists ==
  ASSUME NEW n \in Nat, NEW V, NEW base \in V, NEW step,
         \A i \in 1..n, v \in V : step[<<i, v>>] \in V
  PROVE  \E g \in [SUBSET (1..n) -> V] : FoldTable(g, n, base, step)
<1> DEFINE N == 1..n
           c == [S \in SUBSET N |-> Max(S)]
<1>1. \A S \in SUBSET N : c[S] = Max(S)
  OBVIOUS
<1>2. \A S \in SUBSET N : S # {} => c[S] \in S
  BY <1>1, MaxExists
<1>3. IsFiniteSet(N) /\ \A x \in N, v \in V : step[<<x, v>>] \in V
  BY FS_Interval
<1> HIDE DEF N, c
<1>4. PICK g \in [SUBSET N -> V] : Recurs(g, N, c, base, step)
  BY <1>2, <1>3, RecursionExists
<1>5. \A S \in SUBSET N : g[S] = IF S = {} THEN base ELSE step[<<Max(S), g[S \ {Max(S)}]>>]
  BY <1>1, <1>4 DEF Recurs
<1> QED
  BY <1>5 DEF N, FoldTable

\* It goes from the beginning up to a position to the one that is shorter by one.
LEMMA Intervals ==
  ASSUME NEW n \in Nat, NEW k \in 1..n
  PROVE  /\ Max(1..k) = k /\ (1..k) \ {k} = 1..(k - 1)
         /\ 1..k \in SUBSET (1..n) /\ 1..k # {} /\ k - 1 \in 0..n
<1>1. 1..k \in SUBSET (1..k) /\ 1..k # {} /\ k \in Nat /\ k \in 1..k
  OBVIOUS
<1>2. Max(1..k) \in 1..k /\ \A y \in 1..k : Max(1..k) >= y
  BY <1>1, MaxExists
<1>3. Max(1..k) = k
  BY <1>1, <1>2
<1>4. \A i \in 1..k : i = k \/ i \in 1..(k - 1)
  OBVIOUS
<1>5. \A i \in 1..(k - 1) : i # k /\ i \in 1..k
  OBVIOUS
<1>6. 1..k \subseteq 1..n /\ k - 1 \in 0..n
  OBVIOUS
<1> QED
  BY <1>1, <1>3, <1>4, <1>5, <1>6

-----------------------------------------------------------------------------
(* What holds of a state of the reward pool                                *)

\* What the pool does with a table
Credit == [height : Nat, read : BOOLEAN, rows : SUBSET Row, seen : [Row -> Nat]]

\* The types, with those of the history
ShapeInv ==
  /\ forged \in Seq(BOOLEAN) /\ Height <= MaxBlocks
  /\ last_block \in 0..Height /\ heights \subseteq 0..Height /\ fetching \subseteq 1..Height
  /\ replaced \subseteq 0..Height /\ stopped \subseteq 0..Height
  /\ credit \in [Table -> Credit]
  /\ \A t \in Table : /\ credit[t].height \in 0..Height /\ credit[t].rows \subseteq Rows(t)
                      /\ credit[t].rows # {} => credit[t].read
  /\ balance \in [Row -> Nat] /\ paid \in [Row -> Nat] /\ earned \in [Row -> Nat]
  /\ payment \in [Row -> [amount : Nat, sent : BOOLEAN]]
  /\ mishap \in [Row -> SUBSET Mishaps]
  /\ credited \in [Table -> SUBSET Nat] /\ missed \in [Table -> SUBSET Int]
  /\ again \in [Table -> SUBSET Nat]

\* The rows of the voters
VotersInv ==
  /\ voters \in Seq(Voter) /\ active \subseteq ToSet(voters)
  /\ VotersFollowed

\* A height is fetched once in a life of the pool, and a later life begins with
\* the height at which the one before it was stopped.
HeightsInv ==
  /\ \A h \in heights, s \in stopped : s <= h
  /\ \A h \in fetching : h <= last_block
  /\ \A t \in Table :
       /\ \A h \in credited[t] : \E s \in stopped \cup {last_block} : h <= s
       /\ \A h \in fetching : h \in credited[t] => h \in stopped
       /\ Asked(t) => LET h == credit[t].height IN
            h <= last_block /\ h \notin fetching /\ (h \in credited[t] => h \in stopped)
       /\ Read(t) => credit[t].height \in credited[t]
  /\ CreditedOnce

\* What was read of a row is what it holds, unless a payment has zeroed it
\* since; and a payment under way is not more than the row holds.
AmountsInv ==
  /\ \A t \in Table : \A r \in credit[t].rows :
       /\ balance[r] <= credit[t].seen[r]
       /\ "revived" \notin mishap[r] => balance[r] = credit[t].seen[r]
  /\ \A r \in Row : payment[r].amount <= balance[r]
  /\ RowsExact

PayoutInv == ShapeInv /\ VotersInv /\ HeightsInv /\ AmountsInv

-----------------------------------------------------------------------------
(* The steps                                                                *)

LEMMA Tables ==
  /\ "voters" \in Table /\ "poolfees" \in Table
  /\ \A t \in Table : Rows(t) \subseteq Row
  /\ \A t, u \in Table : \A r \in Row : r \in Rows(t) /\ r \in Rows(u) => t = u
  /\ Idle \in Credit /\ Idle.height = 0 /\ Idle.read = FALSE /\ Idle.rows = {}
  /\ NoPayment \in [amount : Nat, sent : BOOLEAN] /\ NoPayment.amount = 0 /\ NoPayment.sent = FALSE
  /\ \A r \in Row : Share[r] \in Nat /\ Share[r] > 0
BY RewardPoolAssumption DEF Table, Rows, Row, Idle, Credit, NoPayment

\* A table that is asked for, read or neither
LEMMA CreditStages ==
  ASSUME ShapeInv, NEW t \in Table
  PROVE  /\ credit[t] \in Credit /\ credit[t].height \in 0..Height
         /\ credit[t].rows \subseteq Rows(t) /\ credit[t].rows \subseteq Row
         /\ ~Read(t) => credit[t].rows = {}
BY Tables DEF ShapeInv, Read

LEMMA HeightNat == ShapeInv => Height \in Nat /\ MaxBlocks \in Nat /\ DOMAIN forged = 1..Height
BY RewardPoolAssumption DEF ShapeInv, Height

\* The steps on the chain and the heights
LEMMA ShapeOfHeights ==
  ASSUME ShapeInv,
         \/ \E own \in BOOLEAN : NewBlock(own)
         \/ ReplaceBlock \/ AskHeight
         \/ \E h \in 0..MaxBlocks : PoolStep(h) \/ RequestFails(h)
  PROVE  ShapeInv'
<1>1. Height \in Nat /\ MaxBlocks \in Nat /\ DOMAIN forged = 1..Height
  BY HeightNat
<1>2. CASE \E own \in BOOLEAN : NewBlock(own)
  <2>1. PICK own \in BOOLEAN : NewBlock(own)
    BY <1>2
  <2>2. forged' \in Seq(BOOLEAN) /\ Height' = Height + 1 /\ Height' <= MaxBlocks
    BY <1>1, <2>1 DEF NewBlock, ShapeInv, Height
  <2>3. /\ 0..Height \subseteq 0..(Height + 1) /\ 1..Height \subseteq 1..(Height + 1)
    BY <1>1
  <2>4. UNCHANGED <<replaced, pollVars, voterVars, heightVars, rowVars, credit>>
    BY <2>1 DEF NewBlock
  <2> QED
    BY <2>2, <2>3, <2>4 DEF ShapeInv, pollVars, heightVars, rowVars
<1>3. CASE ReplaceBlock
  <2>1. forged' \in Seq(BOOLEAN) /\ Height' = Height
    BY <1>1, <1>3 DEF ReplaceBlock, ShapeInv, Height
  <2>2. UNCHANGED <<pollVars, heightVars, rowVars, credit>>
    BY <1>3 DEF ReplaceBlock
  <2>3. replaced' \subseteq 0..Height
    <3>1. Height \in 0..Height
      BY <1>1
    <3>2. replaced' = replaced \cup {Height} /\ replaced \subseteq 0..Height
      BY <1>3 DEF ReplaceBlock, ShapeInv
    <3> QED
      BY <3>1, <3>2
  <2> QED
    BY <2>1, <2>2, <2>3 DEF ShapeInv, pollVars, heightVars, rowVars
<1>4. CASE AskHeight
  <2>1. UNCHANGED <<forged, replaced, last_block, fetching, heightVars, rowVars, credit>>
    BY <1>4 DEF AskHeight, chainVars
  <2>2. Height' = Height
    BY <2>1 DEF Height
  <2>3. Height \in 0..Height
    BY <1>1
  <2>4. heights' \subseteq 0..Height
    BY <1>4, <2>3 DEF AskHeight, ShapeInv
  <2> QED
    BY <2>1, <2>2, <2>4 DEF ShapeInv, heightVars, rowVars
<1>5. CASE \E h \in 0..MaxBlocks : PoolStep(h) \/ RequestFails(h)
  <2>1. PICK h \in 0..MaxBlocks : PoolStep(h) \/ RequestFails(h)
    BY <1>5
  <2>2. CASE HeightAnswered(h)
    <3>1. /\ UNCHANGED <<forged, replaced, credited, again, stopped, rowVars, credit>>
          /\ h \in heights /\ heights' = heights \ {h}
      BY <2>2 DEF HeightAnswered, chainVars
    <3>2. h \in 0..Height /\ last_block \in 0..Height /\ fetching \subseteq 1..Height
      BY <3>1 DEF ShapeInv
    <3>3. last_block' \in 0..Height /\ fetching' \subseteq 1..Height
      BY <1>1, <2>2, <3>2 DEF HeightAnswered
    <3>4. PICK skipped \in SUBSET Int : skipped = last_block + 1..h - 1
      OBVIOUS
    <3>5. missed' = missed \/ missed' = [t \in Table |-> missed[t] \cup skipped]
      BY <2>2, <3>4 DEF HeightAnswered
    <3>6. missed' \in [Table -> SUBSET Int]
      BY <3>5 DEF ShapeInv
    <3> QED
      BY <3>1, <3>3, <3>6 DEF ShapeInv, Height, rowVars
  <2>3. CASE BlockAnswered(h)
    <3>1. /\ UNCHANGED <<forged, replaced, last_block, heights, heightVars, rowVars>>
          /\ h \in 1..Height /\ fetching' \subseteq fetching
      BY <2>3 DEF BlockAnswered, chainVars, ShapeInv
    <3>2. ASSUME NEW t \in Table, credit' # credit
          PROVE  credit'[t] \in Credit /\ credit'[t].height = h /\ credit'[t].rows = {}
      <4>1. credit'[t] = [Idle EXCEPT !.height = h]
        BY <2>3, <3>2 DEF BlockAnswered
      <4>2. h \in Nat
        BY <1>1, <3>1
      <4> QED
        BY <4>1, <4>2, Tables DEF Credit
    <3>3. credit' = credit \/ credit' = [t \in Table |-> [Idle EXCEPT !.height = h]]
      BY <2>3 DEF BlockAnswered
    <3>4. credit' \in [Table -> Credit]
      BY <3>2, <3>3 DEF ShapeInv
    <3>5. ASSUME NEW t \in Table
          PROVE  /\ credit'[t].height \in 0..Height /\ credit'[t].rows \subseteq Rows(t)
                 /\ credit'[t].rows # {} => credit'[t].read
      <4>1. CASE credit' = credit
        BY <4>1 DEF ShapeInv
      <4>2. CASE credit' # credit
        <5>1. h \in 0..Height
          BY <1>1, <3>1
        <5> QED
          BY <3>2, <4>2, <5>1
      <4> QED
        BY <4>1, <4>2
    <3> QED
      BY <3>1, <3>4, <3>5 DEF ShapeInv, Height, rowVars, heightVars
  <2>4. CASE RequestFails(h)
    <3>1. missed' \in [Table -> SUBSET Int]
      BY <2>4 DEF RequestFails, ShapeInv
    <3> QED
      BY <2>4, <3>1 DEF RequestFails, ShapeInv, Height, rowVars, chainVars
  <2> QED
    BY <2>1, <2>2, <2>3, <2>4 DEF PoolStep
<1> QED
  BY <1>2, <1>3, <1>4, <1>5

\* The steps on the tables
LEMMA ShapeOfTables ==
  ASSUME ShapeInv, VotersInv, NEW t \in Table, TableStep(t) \/ QueryFails(t)
  PROVE  ShapeInv'
<1>1. /\ credit[t] \in Credit /\ credit[t].height \in 0..Height /\ credit[t].height \in Nat
      /\ credit[t].rows \subseteq Rows(t) /\ credit[t].rows \subseteq Row
  BY CreditStages, HeightNat
<1>2. CASE ReadRows(t)
  <2>1. ToCredit(t) \subseteq Rows(t) /\ ToCredit(t) \subseteq Row
    <3>1. active \subseteq Voter
      BY DEF VotersInv, ToSet
    <3> QED
      BY <3>1 DEF ToCredit, Rows, Row, Table
  <2>2. PICK c : /\ credit' = [credit EXCEPT ![t] = c]
                 /\ \/ c = Idle
                    \/ /\ c = [credit[t] EXCEPT !.read = TRUE, !.rows = ToCredit(t), !.seen = balance]
    BY <1>2 DEF ReadRows
  <2>3. /\ c \in Credit /\ c.height \in 0..Height /\ c.rows \subseteq Rows(t)
        /\ c.rows # {} => c.read
    <3>1. 0 \in 0..Height
      BY HeightNat
    <3>2. CASE c = Idle
      BY <3>1, <3>2, Tables
    <3>3. CASE c = [credit[t] EXCEPT !.read = TRUE, !.rows = ToCredit(t), !.seen = balance]
      BY <1>1, <2>1, <3>3 DEF Credit, ShapeInv
    <3> QED
      BY <2>2, <3>2, <3>3
  <2>4. earned' \in [Row -> Nat]
    BY <1>2, Tables DEF ReadRows, ShapeInv
  <2>5. credited' \in [Table -> SUBSET Nat] /\ again' \in [Table -> SUBSET Nat]
    BY <1>1, <1>2 DEF ReadRows, ShapeInv
  <2>6. UNCHANGED <<forged, replaced, pollVars, missed, stopped, balance, payment, paid, mishap>>
    BY <1>2 DEF ReadRows, chainVars
  <2> QED
    BY <2>2, <2>3, <2>4, <2>5, <2>6 DEF ShapeInv, Height, pollVars
<1>3. CASE WriteRows(t) \/ QueryFails(t)
  <2>1. credit' = [credit EXCEPT ![t] = Idle]
    BY <1>3 DEF WriteRows, QueryFails
  <2>2. credit' \in [Table -> Credit] /\ credit'[t] = Idle /\ \A u \in Table \ {t} : credit'[u] = credit[u]
    BY <2>1, Tables DEF ShapeInv
  <2>3. \A u \in Table : /\ credit'[u].height \in 0..Height /\ credit'[u].rows \subseteq Rows(u)
                         /\ credit'[u].rows # {} => credit'[u].read
    <3> SUFFICES ASSUME NEW u \in Table
                 PROVE  /\ credit'[u].height \in 0..Height /\ credit'[u].rows \subseteq Rows(u)
                        /\ credit'[u].rows # {} => credit'[u].read
      OBVIOUS
    <3>1. CASE u = t
      <4>1. 0 \in 0..Height
        BY HeightNat
      <4>2. credit'[u].height = 0 /\ credit'[u].rows = {}
        BY <2>2, <3>1, Tables
      <4> QED
        BY <4>1, <4>2
    <3>2. CASE u # t
      <4>1. credit'[u] = credit[u]
        BY <2>2, <3>2
      <4> QED
        BY <4>1 DEF ShapeInv
    <3> QED
      BY <3>1, <3>2
  <2>4. balance' \in [Row -> Nat]
    <3>1. CASE WriteRows(t)
      <4>1. \A r \in Row : credit[t].seen[r] + Share[r] \in Nat
        BY <1>1, Tables DEF Credit
      <4>2. balance' = [r \in Row |-> IF r \in credit[t].rows THEN credit[t].seen[r] + Share[r]
                                    ELSE balance[r]]
        BY <3>1 DEF WriteRows
      <4> QED
        BY <4>1, <4>2 DEF ShapeInv
    <3>2. CASE QueryFails(t)
      BY <3>2 DEF QueryFails, ShapeInv
    <3> QED
      BY <1>3, <3>1, <3>2
  <2>5. mishap' \in [Row -> SUBSET Mishaps]
    BY <1>3 DEF WriteRows, QueryFails, ShapeInv, Mishaps
  <2>6. missed' \in [Table -> SUBSET Int]
    <3>1. CASE WriteRows(t)
      BY <3>1 DEF WriteRows, heightVars, ShapeInv
    <3>2. CASE QueryFails(t)
      BY <1>1, <3>2 DEF QueryFails, ShapeInv
    <3> QED
      BY <1>3, <3>1, <3>2
  <2>7. UNCHANGED <<forged, replaced, pollVars, credited, again, stopped, payment, paid, earned>>
    BY <1>3 DEF WriteRows, QueryFails, chainVars, heightVars
  <2> QED
    BY <2>2, <2>3, <2>4, <2>5, <2>6, <2>7 DEF ShapeInv, Height, pollVars
<1> QED
  BY <1>2, <1>3 DEF TableStep

\* The steps on the payments, and the restart
LEMMA ShapeOfRows ==
  ASSUME ShapeInv, Withdrawal \/ Restart \/ \E r \in Row : RowStep(r)
  PROVE  ShapeInv'
<1>1. \A r \in Row : payment[r] \in [amount : Nat, sent : BOOLEAN] /\ balance[r] \in Nat /\ paid[r] \in Nat
  BY DEF ShapeInv
<1>2. CASE Withdrawal
  <2>1. payment' \in [Row -> [amount : Nat, sent : BOOLEAN]]
    BY <1>1, <1>2, Tables DEF Withdrawal
  <2> QED
    BY <1>2, <2>1 DEF Withdrawal, ShapeInv, Height, chainVars, pollVars, heightVars
<1>3. CASE Restart
  <2>1. credit' \in [Table -> Credit] /\ \A t \in Table : credit'[t] = Idle
    BY <1>3, Tables DEF Restart
  <2>2. \A t \in Table : /\ credit'[t].height \in 0..Height /\ credit'[t].rows \subseteq Rows(t)
                         /\ credit'[t].rows # {} => credit'[t].read
    BY <2>1, Tables, HeightNat
  <2>3. payment' \in [Row -> [amount : Nat, sent : BOOLEAN]] /\ balance' \in [Row -> Nat]
    BY <1>1, <1>3, Tables DEF Restart
  <2>4. mishap' \in [Row -> SUBSET Mishaps]
    BY <1>3 DEF Restart, ShapeInv, Mishaps
  <2>5. missed' \in [Table -> SUBSET Int]
    <3>1. \A t \in Table : missed[t] \cup fetching \cup {credit[t].height} \in SUBSET Int
      <4>1. Height \in Nat /\ fetching \subseteq 1..Height /\ missed \in [Table -> SUBSET Int]
        BY HeightNat DEF ShapeInv
      <4>2. \A t \in Table : credit[t].height \in 0..Height
        BY DEF ShapeInv
      <4>3. fetching \subseteq Int /\ \A t \in Table : credit[t].height \in Int
        BY <4>1, <4>2
      <4>4. \A t \in Table : missed[t] \subseteq Int
        BY <4>1
      <4> QED
        BY ONLY <4>3, <4>4
    <3>2. missed' = [t \in Table |-> missed[t] \cup fetching \cup
                       (IF Asked(t) THEN {credit[t].height} ELSE {})]
      BY <1>3 DEF Restart
    <3> QED
      BY <3>1, <3>2
  <2>6. /\ last_block' \in 0..Height /\ heights' \subseteq 0..Height /\ fetching' \subseteq 1..Height
        /\ stopped' \subseteq 0..Height
    BY <1>3, HeightNat DEF Restart, ShapeInv
  <2>7. UNCHANGED <<forged, replaced, credited, again, paid, earned>>
    BY <1>3 DEF Restart, chainVars
  <2> QED
    BY <2>1, <2>2, <2>3, <2>4, <2>5, <2>6, <2>7 DEF ShapeInv, Height
<1>4. CASE \E r \in Row : RowStep(r)
  <2>1. PICK r \in Row : RowStep(r)
    BY <1>4
  <2>2. UNCHANGED <<forged, replaced, pollVars, heightVars, earned, credit>>
    BY <2>1 DEF RowStep, NodePays, NodeRefuses, Answered, Unheard, chainVars
  <2>3. /\ payment' \in [Row -> [amount : Nat, sent : BOOLEAN]]
        /\ balance' \in [Row -> Nat] /\ paid' \in [Row -> Nat] /\ mishap' \in [Row -> SUBSET Mishaps]
    <3>1. CASE NodePays(r)
      <4>1. [payment[r] EXCEPT !.sent = TRUE] \in [amount : Nat, sent : BOOLEAN]
        BY <1>1
      <4>2. paid[r] + payment[r].amount \in Nat
        BY <1>1
      <4>3. payment' = [payment EXCEPT ![r] = [payment[r] EXCEPT !.sent = TRUE]]
        BY <3>1 DEF NodePays
      <4> QED
        BY <3>1, <4>1, <4>2, <4>3 DEF NodePays, ShapeInv
    <3>2. CASE NodeRefuses(r)
      BY <3>2, Tables DEF NodeRefuses, ShapeInv
    <3>3. CASE Answered(r)
      <4>1. payment' = [payment EXCEPT ![r] = NoPayment] /\ balance' = [balance EXCEPT ![r] = 0]
        BY <3>3 DEF Answered
      <4>2. mishap' \in [Row -> SUBSET Mishaps]
        BY <3>3 DEF Answered, ShapeInv, Mishaps
      <4> QED
        BY <3>3, <4>1, <4>2, Tables DEF Answered, ShapeInv
    <3>4. CASE Unheard(r)
      BY <3>4, Tables DEF Unheard, ShapeInv, Mishaps
    <3> QED
      BY <2>1, <3>1, <3>2, <3>3, <3>4 DEF RowStep
  <2> QED
    BY <2>2, <2>3 DEF ShapeInv, Height, pollVars, heightVars
<1> QED
  BY <1>2, <1>3, <1>4

-----------------------------------------------------------------------------
(* The voters                                                               *)

\* The fold of updateVoters over the list of voters
-----------------------------------------------------------------------------
(* The voters                                                               *)

\* The loop of updateVoters over the list: the rows with those that had none
LEMMA AddVoters ==
  ASSUME NEW rows \in Seq(Voter), NEW list \in Seq(Voter)
  PROVE  /\ FoldLeft(AddVoter, rows, list) \in Seq(Voter)
         /\ ToSet(FoldLeft(AddVoter, rows, list)) = ToSet(rows) \cup ToSet(list)
<1>1. PICK n \in Nat : n = Len(list)
  OBVIOUS
<1>2. DOMAIN list = 1..n /\ \A i \in 1..n : list[i] \in Voter
  BY <1>1
<1> DEFINE Table0(g) == g = [S \in SUBSET (1..n) |->
                              IF S = {} THEN rows ELSE AddVoter(g[S \ {Max(S)}], list[Max(S)])]
           V == Seq(Voter)
           step == [p \in (1..n) \X V |-> AddVoter(p[2], list[p[1]])]
<1>3. FoldLeft(AddVoter, rows, list) = (CHOOSE g : Table0(g))[1..n]
  BY <1>2 DEF FoldLeft, MapThenFoldSet
<1>4. ASSUME NEW v \in V, NEW x \in Voter
      PROVE  AddVoter(v, x) \in V /\ ToSet(AddVoter(v, x)) = ToSet(v) \cup {x}
  <2>1. CASE x \in ToSet(v)
    BY <2>1 DEF AddVoter
  <2>2. CASE x \notin ToSet(v)
    <3>1. PICK r : r = Append(v, x)
      OBVIOUS
    <3>2. /\ r \in Seq(Voter) /\ DOMAIN r = 1..(Len(v) + 1) /\ DOMAIN v = 1..Len(v)
          /\ r[Len(v) + 1] = x /\ Len(v) \in Nat /\ \A i \in 1..Len(v) : r[i] = v[i]
      BY <3>1
    <3>3. \A i \in 1..(Len(v) + 1) : i \in 1..Len(v) \/ i = Len(v) + 1
      BY <3>2
    <3>4. Len(v) + 1 \in 1..(Len(v) + 1) /\ \A i \in 1..Len(v) : i \in 1..(Len(v) + 1)
      BY <3>2
    <3>5. ToSet(r) = ToSet(v) \cup {x}
      BY <3>2, <3>3, <3>4 DEF ToSet
    <3> QED
      BY <2>2, <3>1, <3>2, <3>5 DEF AddVoter
  <2> QED
    BY <2>1, <2>2
<1>5. \A i \in 1..n, v \in V : step[<<i, v>>] = AddVoter(v, list[i])
  OBVIOUS
<1>6. rows \in V
  OBVIOUS
<1> HIDE DEF V, step
<1>7. \A i \in 1..n, v \in V : step[<<i, v>>] \in V
  BY <1>2, <1>4, <1>5
<1>8. PICK g \in [SUBSET (1..n) -> V] :
        FoldTable(g, n, rows, step)
  <2>1. n \in Nat
    OBVIOUS
  <2> QED
    BY ONLY <1>6, <1>7, <2>1, FoldExists
<1>9. ASSUME NEW S \in SUBSET (1..n), S # {}
      PROVE  step[<<Max(S), g[S \ {Max(S)}]>>] = AddVoter(g[S \ {Max(S)}], list[Max(S)])
  <2>1. Max(S) \in 1..n /\ S \ {Max(S)} \in SUBSET (1..n)
    BY <1>9, MaxExists
  <2> QED
    BY <1>5, <2>1
<1>10. Table0(g)
  BY <1>8, <1>9 DEF FoldTable
<1> DEFINE h == CHOOSE f : Table0(f)
<1>11. Table0(h)
  BY <1>10
<1>12. \A S \in SUBSET (1..n) :
         h[S] = IF S = {} THEN rows ELSE AddVoter(h[S \ {Max(S)}], list[Max(S)])
  BY <1>11
<1> HIDE DEF h, Table0
<1> DEFINE Upto(k) == ToSet(rows) \cup {list[i] : i \in 1..k}
           G == {k \in 0..n : h[1..k] \in V /\ ToSet(h[1..k]) = Upto(k)}
<1>13. 0 \in G
  <2>1. PICK none : none = 1..0
    OBVIOUS
  <2>2. none = {} /\ none \in SUBSET (1..n) /\ 0 \in 0..n /\ {list[i] : i \in none} = {}
    BY <2>1
  <2>3. h[none] = rows
    BY <1>12, <2>2
  <2> QED
    BY <1>6, <2>1, <2>2, <2>3
<1>14. ASSUME NEW k \in 0..n - 1, k \in G PROVE k + 1 \in G
  <2>1. k + 1 \in 1..n /\ (k + 1) - 1 = k /\ k + 1 \in 0..n
    OBVIOUS
  <2>2. h[1..k + 1] = AddVoter(h[1..k], list[k + 1])
    <3>1. /\ Max(1..k + 1) = k + 1 /\ (1..k + 1) \ {k + 1} = 1..((k + 1) - 1)
          /\ 1..k + 1 \in SUBSET (1..n) /\ 1..k + 1 # {}
      BY <2>1, Intervals
    <3> QED
      BY <1>12, <2>1, <3>1
  <2>3. /\ AddVoter(h[1..k], list[k + 1]) \in V
        /\ ToSet(AddVoter(h[1..k], list[k + 1])) = Upto(k) \cup {list[k + 1]}
    <3>1. PICK v \in V, x \in Voter : v = h[1..k] /\ x = list[k + 1]
      BY <1>2, <1>14, <2>1
    <3>2. ToSet(v) = Upto(k)
      BY <1>14, <3>1
    <3> QED
      BY <1>4, <3>1, <3>2
  <2>4. Upto(k + 1) = Upto(k) \cup {list[k + 1]}
    <3>1. \A i \in 1..k + 1 : i \in 1..k \/ i = k + 1
      OBVIOUS
    <3>2. \A i \in 1..k : i \in 1..k + 1
      OBVIOUS
    <3> QED
      BY <2>1, <3>1, <3>2
  <2> HIDE DEF Upto
  <2> QED
    BY <2>1, <2>2, <2>3, <2>4
<1>15. n \in G
  <2> HIDE DEF G
  <2> QED
    BY <1>13, <1>14, UpTo
<1>16. FoldLeft(AddVoter, rows, list) = h[1..n]
  BY <1>3 DEF h
<1>17. ToSet(list) = {list[i] : i \in 1..n}
  BY <1>2 DEF ToSet
<1> QED
  BY <1>15, <1>16, <1>17 DEF V

LEMMA ReportIs ==
  ASSUME NEW list \in Reports
  PROVE  list \in Seq(Voter) /\ ToSet(list) \subseteq Voter
<1>1. PICK n : list \in [1..n -> Voter] /\ n \in Nat
  <2>1. Cardinality(Voter) \in Nat
    BY RewardPoolAssumption, FS_CardinalityType
  <2> QED
    BY <2>1 DEF Reports, BoundedSeq, SeqOf
<1> QED
  BY <1>1 DEF ToSet

\* Who is active, of the voters that the update has followed
LEMMA VotersUpdated ==
  ASSUME VotersInv, NEW list \in Reports, NEW small \in SUBSET Voter, NEW done \in SUBSET Queries,
         UpdateVoters(list, small, done)
  PROVE  VotersInv'
<1> DEFINE known == ToSet(voters)
           written == IF list = <<>> \/ Throws(list) THEN {} ELSE done
           added == IF "insert" \in written THEN list ELSE <<>>
<1>1. list \in Seq(Voter) /\ ToSet(list) \subseteq Voter /\ voters \in Seq(Voter) /\ active \subseteq known
  BY ReportIs DEF VotersInv
<1>2. added \in Seq(Voter) /\ ToSet(added) \subseteq ToSet(list)
  BY <1>1 DEF ToSet
<1>3. /\ voters' = FoldLeft(AddVoter, voters, added)
      /\ active' = (IF "update" \in written THEN Statuses(list, small) ELSE active)
                     \cup (ToSet(added) \ (known \cup small))
      /\ reported' = ToSet(list) \ small
      /\ unfollowed' = (IF "update" \in written THEN Misjudged(list) ELSE known)
                         \cup (ToSet(list) \ (known \cup ToSet(added)))
  BY DEF UpdateVoters
<1> HIDE DEF written, added
<1>4. voters' \in Seq(Voter) /\ ToSet(voters') = known \cup ToSet(added)
  BY <1>1, <1>2, <1>3, AddVoters
<1>5. Statuses(list, small) \subseteq known
  BY DEF Statuses, ToSet
<1>6. \A v \in known \ Misjudged(list) : v \in Statuses(list, small) <=> v \in ToSet(list) \ small
  <2> SUFFICES ASSUME NEW v \in known \ Misjudged(list)
               PROVE  v \in Statuses(list, small) <=> v \in ToSet(list) \ small
    OBVIOUS
  <2>1. PICK i \in DOMAIN voters : voters[i] = v
    BY DEF ToSet
  <2>2. \A j \in DOMAIN voters : voters[j] = v /\ v \in ToSet(list) => list[j] = v
    BY DEF Misjudged
  <2> QED
    BY <2>1, <2>2 DEF Statuses
<1>7. \A v \in Voter \ unfollowed' : v \in active' <=> v \in reported'
  <2> SUFFICES ASSUME NEW v \in Voter \ unfollowed' PROVE v \in active' <=> v \in reported'
    OBVIOUS
  <2>1. v \in ToSet(list) => v \in known \cup ToSet(added)
    BY <1>3
  <2>2. CASE v \in known
    BY <1>2, <1>3, <1>6, <2>2
  <2>3. CASE v \notin known
    BY <1>1, <1>2, <1>3, <1>5, <2>1, <2>3
  <2> QED
    BY <2>2, <2>3
<1>8. active' \subseteq ToSet(voters')
  BY <1>1, <1>3, <1>4, <1>5
<1> QED
  BY <1>4, <1>7, <1>8 DEF VotersInv, VotersFollowed, ToSet

-----------------------------------------------------------------------------
(* The heights                                                              *)

LEMMA OnceOfHeights ==
  ASSUME ShapeInv, ShapeInv', HeightsInv,
         \/ \E own \in BOOLEAN : NewBlock(own)
         \/ ReplaceBlock \/ AskHeight
         \/ \E h \in 0..MaxBlocks : PoolStep(h) \/ RequestFails(h)
  PROVE  HeightsInv'
<1>1. Height \in Nat /\ DOMAIN forged = 1..Height /\ last_block \in 0..Height /\ last_block \in Int
  BY HeightNat DEF ShapeInv
<1>2. CASE \E own \in BOOLEAN : NewBlock(own)
  <2>1. PICK own \in BOOLEAN : NewBlock(own)
    BY <1>2
  <2>2. UNCHANGED <<pollVars, heightVars, credit>> /\ forged' = Append(forged, own)
    BY <2>1 DEF NewBlock
  <2>3. \A h \in 1..last_block : forged'[h] = forged[h]
    BY <1>1, <2>2 DEF ShapeInv, Height
  <2> QED
    BY <2>2, <2>3 DEF HeightsInv, CreditedOnce, Asked, Read, pollVars, heightVars
<1>3. CASE ReplaceBlock
  <2>1. UNCHANGED <<pollVars, heightVars, credit>> /\ forged' = [forged EXCEPT ![Height] = FALSE]
    BY <1>3 DEF ReplaceBlock
  <2>2. \A h \in 1..last_block : forged'[h] => forged[h]
    BY <1>1, <2>1
  <2> QED
    BY <2>1, <2>2 DEF HeightsInv, CreditedOnce, Asked, Read, pollVars, heightVars
<1>4. CASE AskHeight
  <2>1. UNCHANGED <<forged, last_block, fetching, heightVars, credit>> /\ heights' = heights \cup {Height}
    BY <1>4 DEF AskHeight, chainVars
  <2>2. \A s \in stopped : s <= Height
    BY <1>1 DEF ShapeInv
  <2> QED
    BY <2>1, <2>2 DEF HeightsInv, CreditedOnce, Asked, Read, heightVars
<1>5. CASE \E h \in 0..MaxBlocks : HeightAnswered(h)
  <2>1. PICK h \in 0..MaxBlocks : HeightAnswered(h)
    BY <1>5
  <2>2. /\ UNCHANGED <<forged, credited, again, stopped, credit>>
        /\ h \in heights /\ heights' = heights \ {h} /\ h \in Int
    BY <2>1 DEF HeightAnswered, chainVars
  <2>3. CASE last_block < h
    <3>1. /\ last_block' = h /\ fetching' = fetching \cup {h}
          /\ \A t \in Table : missed'[t] = missed[t] \cup (last_block + 1..h - 1)
      BY <2>1, <2>3 DEF HeightAnswered
    <3>2. \A s \in stopped : s <= h
      BY <2>2 DEF HeightsInv
    <3>3. stopped \subseteq Int /\ fetching \subseteq Int /\ \A t \in Table : credited[t] \subseteq Int
      BY <1>1 DEF ShapeInv
    <3>4. ASSUME NEW t \in Table, h \in credited[t] PROVE h \in stopped
      <4>1. PICK s \in stopped \cup {last_block} : h <= s
        BY <3>4 DEF HeightsInv
      <4> QED
        BY <1>1, <2>2, <2>3, <3>2, <3>3, <4>1
    <3>5. ASSUME NEW t \in Table, NEW k \in credited[t] PROVE \E s \in stopped' \cup {last_block'} : k <= s
      <4>1. PICK s \in stopped \cup {last_block} : k <= s
        BY <3>5 DEF HeightsInv
      <4>2. s = last_block => k <= h
        BY <1>1, <2>2, <2>3, <3>3, <4>1
      <4> QED
        BY <2>2, <3>1, <4>1, <4>2
    <3>6. ASSUME NEW t \in Table, Asked(t)
          PROVE  /\ credit[t].height <= h /\ credit[t].height \notin fetching \cup {h}
                 /\ credit[t].height \in credited[t] => credit[t].height \in stopped
      <4>1. credit[t].height <= last_block /\ credit[t].height \in Int
        BY <3>6, CreditStages, HeightNat DEF HeightsInv
      <4> QED
        BY <1>1, <2>2, <2>3, <3>6, <4>1 DEF HeightsInv
    <3>7. ASSUME NEW t \in Table, NEW k \in 1..h, forged[k]
          PROVE  k \in credited[t] \cup missed'[t] \cup fetching' \cup {credit[t].height}
      <4>1. CASE k \in 1..last_block
        BY <3>1, <3>7, <4>1 DEF HeightsInv, CreditedOnce
      <4>2. CASE k \in last_block + 1..h - 1
        BY <3>1, <4>2
      <4>3. CASE k = h
        BY <3>1, <4>3
      <4> QED
        BY <1>1, <2>2, <4>1, <4>2, <4>3
    <3>8. /\ \A k \in heights', s \in stopped' : s <= k
          /\ \A k \in fetching' : k <= last_block'
      BY <1>1, <2>2, <2>3, <3>1, <3>3 DEF HeightsInv
    <3>9. \A t \in Table : \A k \in fetching' : k \in credited[t] => k \in stopped
      BY <3>1, <3>4 DEF HeightsInv
    <3>10. \A t \in Table : (Asked(t)' <=> Asked(t)) /\ (Read(t)' <=> Read(t))
      BY <2>2 DEF Asked, Read
    <3> QED
      BY <2>2, <3>1, <3>5, <3>6, <3>7, <3>8, <3>9, <3>10 DEF HeightsInv, CreditedOnce
  <2>4. CASE ~(last_block < h)
    BY <2>1, <2>2, <2>4 DEF HeightAnswered, HeightsInv, CreditedOnce, Asked, Read
  <2> QED
    BY <2>3, <2>4
<1>6. CASE \E h \in 0..MaxBlocks : BlockAnswered(h)
  <2>1. PICK h \in 0..MaxBlocks : BlockAnswered(h)
    BY <1>6
  <2>2. /\ UNCHANGED <<forged, last_block, heights, heightVars>>
        /\ h \in fetching /\ fetching' = fetching \ {h} /\ h \in Int /\ h # 0
    BY <1>1, <2>1 DEF BlockAnswered, chainVars, ShapeInv
  <2>3. CASE forged[h]
    <3>1. \A t \in Table : /\ credit[t].height = 0
                           /\ credit'[t].height = h /\ credit'[t].read = FALSE
      BY <2>1, <2>3, Tables DEF BlockAnswered, Credit
    <3>2. \A t \in Table : Asked(t)' /\ ~Read(t)'
      BY <2>2, <3>1 DEF Asked, Read
    <3>3. \A t \in Table : h <= last_block /\ h \notin fetching' /\ (h \in credited[t] => h \in stopped)
      BY <2>2 DEF HeightsInv
    <3>4. \A t \in Table : \A k \in 1..last_block :
            forged[k] => k \in credited[t] \cup missed[t] \cup fetching' \cup {h}
      BY <2>2, <3>1 DEF HeightsInv, CreditedOnce
    <3> QED
      BY <2>2, <3>1, <3>2, <3>3, <3>4 DEF HeightsInv, CreditedOnce, heightVars
  <2>4. CASE ~forged[h]
    <3>1. UNCHANGED credit
      BY <2>1, <2>4 DEF BlockAnswered
    <3>2. \A t \in Table : (Asked(t)' <=> Asked(t)) /\ (Read(t)' <=> Read(t))
      BY <3>1 DEF Asked, Read
    <3> QED
      BY <2>2, <2>4, <3>1, <3>2 DEF HeightsInv, CreditedOnce, heightVars
  <2> QED
    BY <2>3, <2>4
<1>7. CASE \E h \in 0..MaxBlocks : RequestFails(h)
  <2>1. PICK h \in 0..MaxBlocks : RequestFails(h)
    BY <1>7
  <2>2. /\ UNCHANGED <<forged, last_block, heights, credited, again, stopped, credit>>
        /\ h \in fetching /\ fetching' = fetching \ {h}
        /\ \A t \in Table : missed'[t] = missed[t] \cup {h}
    BY <2>1 DEF RequestFails, chainVars
  <2>3. \A t \in Table : (Asked(t)' <=> Asked(t)) /\ (Read(t)' <=> Read(t))
    BY <2>2 DEF Asked, Read
  <2> QED
    BY <2>2, <2>3 DEF HeightsInv, CreditedOnce
<1> QED
  BY <1>2, <1>3, <1>4, <1>5, <1>6, <1>7 DEF PoolStep

LEMMA OnceOfTables ==
  ASSUME ShapeInv, HeightsInv, NEW t \in Table, TableStep(t) \/ QueryFails(t)
  PROVE  HeightsInv'
<1>1. UNCHANGED <<forged, last_block, heights, fetching, stopped>>
  BY DEF TableStep, ReadRows, WriteRows, QueryFails, chainVars, pollVars, heightVars
<1>2. \A u \in Table \ {t} :
        /\ credit'[u] = credit[u] /\ credited'[u] = credited[u] /\ missed'[u] = missed[u]
        /\ again'[u] = again[u]
  BY DEF TableStep, ReadRows, WriteRows, QueryFails, heightVars, ShapeInv
<1>3. \A u \in Table \ {t} : (Asked(u)' <=> Asked(u)) /\ (Read(u)' <=> Read(u))
  BY <1>2 DEF Asked, Read
<1>4. PICK h \in Nat : h = credit[t].height
  BY CreditStages, HeightNat
<1>5. /\ \A k \in credited'[t] : \E s \in stopped \cup {last_block} : k <= s
      /\ \A k \in fetching : k \in credited'[t] => k \in stopped
      /\ ~Asked(t)'
      /\ Read(t)' => credit'[t].height \in credited'[t]
      /\ again'[t] \subseteq stopped
      /\ \A k \in 1..last_block :
           forged[k] => k \in credited'[t] \cup missed'[t] \cup fetching \cup {credit'[t].height}
  <2>1. CASE ReadRows(t)
    <3>1. /\ Asked(t) /\ credited'[t] = credited[t] \cup {h} /\ UNCHANGED missed
          /\ again'[t] = again[t] \cup (credited[t] \cap {h})
      BY <1>4, <2>1 DEF ReadRows, ShapeInv
    <3>2. /\ credit'[t] \in {Idle, [credit[t] EXCEPT !.read = TRUE, !.rows = ToCredit(t), !.seen = balance]}
      BY <2>1 DEF ReadRows, ShapeInv
    <3>3. credit[t] \in Credit
      BY CreditStages
    <3>4. /\ ~Asked(t)' /\ (Read(t)' => credit'[t].height = h)
      BY <1>4, <3>2, <3>3, Tables DEF Asked, Read, Credit
    <3>5. h <= last_block /\ h \notin fetching /\ (h \in credited[t] => h \in stopped)
      BY <1>4, <3>1 DEF HeightsInv
    <3> QED
      BY <1>4, <3>1, <3>4, <3>5 DEF HeightsInv, CreditedOnce
  <2>2. CASE WriteRows(t)
    <3>1. Read(t) /\ credit'[t] = Idle /\ UNCHANGED heightVars
      BY <2>2 DEF WriteRows, ShapeInv
    <3>2. h \in credited[t]
      BY <1>4, <3>1 DEF HeightsInv
    <3> QED
      BY <1>4, <3>1, <3>2, Tables DEF HeightsInv, CreditedOnce, heightVars, Asked, Read
  <2>3. CASE QueryFails(t)
    <3>1. credit'[t] = Idle /\ UNCHANGED <<credited, again>>
      BY <2>3 DEF QueryFails, ShapeInv
    <3>2. missed'[t] = missed[t] \cup (IF Asked(t) THEN {h} ELSE {})
      BY <1>4, <2>3 DEF QueryFails, ShapeInv
    <3>3. ~Asked(t) => h \in credited[t] \/ h = 0
      BY <1>4 DEF HeightsInv, Asked, Read
    <3> QED
      BY <1>4, <3>1, <3>2, <3>3, Tables DEF HeightsInv, CreditedOnce, Asked, Read
  <2> QED
    BY <2>1, <2>2, <2>3 DEF TableStep
<1> QED
  BY <1>1, <1>2, <1>3, <1>5 DEF HeightsInv, CreditedOnce

LEMMA OnceOfRestart ==
  ASSUME ShapeInv, HeightsInv, Restart
  PROVE  HeightsInv'
<1>1. /\ stopped' = stopped \cup {last_block} /\ last_block' = 0
      /\ heights' = {} /\ fetching' = {} /\ UNCHANGED <<credited, again>>
      /\ \A t \in Table : credit'[t] = Idle
  BY DEF Restart
<1>2. \A t \in Table : ~Asked(t)' /\ ~Read(t)'
  BY <1>1, Tables DEF Asked, Read
<1>3. \A t \in Table : \A h \in credited[t] : \E s \in stopped \cup {last_block} : h <= s
  BY DEF HeightsInv
<1>4. \A t \in Table : again[t] \subseteq stopped
  BY DEF HeightsInv, CreditedOnce
<1> QED
  BY <1>1, <1>2, <1>3, <1>4 DEF HeightsInv, CreditedOnce

LEMMA OnceElsewhere ==
  ASSUME HeightsInv, UNCHANGED <<forged, pollVars, heightVars, credit>>
  PROVE  HeightsInv'
BY DEF HeightsInv, CreditedOnce, Asked, Read, pollVars, heightVars

-----------------------------------------------------------------------------
(* The rows                                                                 *)

\* What AmountsInv says of a row
Row1(r) ==
  /\ \A t \in Table : r \in credit[t].rows =>
       /\ balance[r] <= credit[t].seen[r]
       /\ "revived" \notin mishap[r] => balance[r] = credit[t].seen[r]
  /\ payment[r].amount <= balance[r]
  /\ mishap[r] \cap {"unheard", "revived"} = {} =>
       balance[r] + paid[r] + Pending(r) <= earned[r] + Unsettled(r)
  /\ mishap[r] \cap {"unwritten", "overtaken", "reset"} = {} =>
       balance[r] + paid[r] + Pending(r) >= earned[r] + Unsettled(r)

LEMMA RowByRow ==
  ASSUME ShapeInv
  PROVE  AmountsInv <=> \A r \in Row : Row1(r)
<1>1. \A t \in Table : credit[t].rows \subseteq Row
  BY CreditStages
<1> QED
  BY <1>1 DEF AmountsInv, Row1, RowsExact, NotOverpaid, NothingLost

LEMMA RowByRowNext ==
  ASSUME ShapeInv', \A r \in Row : Row1(r)'
  PROVE  AmountsInv'
<1>1. \A t \in Table : credit'[t].rows \subseteq Row
  BY Tables DEF ShapeInv
<1> QED
  BY <1>1 DEF AmountsInv, Row1, RowsExact, NotOverpaid, NothingLost

\* The numbers of a row
LEMMA RowNumbers ==
  ASSUME ShapeInv, NEW r \in Row
  PROVE  /\ balance[r] \in Nat /\ paid[r] \in Nat /\ earned[r] \in Nat
         /\ payment[r] \in [amount : Nat, sent : BOOLEAN]
         /\ Pending(r) \in Nat /\ Unsettled(r) \in Nat
         /\ \A t \in Table : credit[t].seen[r] \in Nat
<1>1. \A t \in Table : credit[t] \in Credit
  BY CreditStages
<1> QED
  BY <1>1, Tables DEF ShapeInv, Pending, Unsettled, Credit

\* A row is in the rows of one table at most.
LEMMA OneTable ==
  ASSUME ShapeInv, NEW r \in Row, NEW t \in Table, NEW u \in Table,
         r \in Rows(t), r \in credit[u].rows
  PROVE  u = t
BY CreditStages, Tables

LEMMA RowsOfTables ==
  ASSUME ShapeInv, ShapeInv', VotersInv, AmountsInv, NEW t \in Table, TableStep(t) \/ QueryFails(t)
  PROVE  AmountsInv'
<1> SUFFICES ASSUME NEW r \in Row PROVE Row1(r)'
  BY RowByRowNext
<1>1. Row1(r)
  BY RowByRow
<1>2. /\ balance[r] \in Nat /\ paid[r] \in Nat /\ earned[r] \in Nat
      /\ payment[r] \in [amount : Nat, sent : BOOLEAN] /\ Unsettled(r) \in Nat
      /\ \A u \in Table : credit[u].seen[r] \in Nat
  BY RowNumbers
<1>3. Share[r] \in Nat
  BY Tables
<1>4. \A u \in Table \ {t} : credit'[u] = credit[u]
  BY DEF TableStep, ReadRows, WriteRows, QueryFails, ShapeInv
<1>5. UNCHANGED <<payment, paid>> /\ Unsettled(r)' = Unsettled(r)
  BY DEF TableStep, ReadRows, WriteRows, QueryFails, Unsettled, Sent
<1>6. CASE ReadRows(t)
  <2>1. /\ UNCHANGED <<balance, mishap>>
        /\ earned'[r] = IF r \in ToCredit(t) THEN earned[r] + Share[r] ELSE earned[r]
    BY <1>6 DEF ReadRows
  <2>2. credit[t].rows = {} /\ credit[t] \in Credit
    BY <1>6, CreditStages DEF ReadRows, Asked, Read
  <2>3. /\ r \in credit'[t].rows <=> r \in ToCredit(t)
        /\ r \in ToCredit(t) => credit'[t].seen = balance
    <3>1. credit'[t] = IF ToCredit(t) = {} THEN Idle
                       ELSE [credit[t] EXCEPT !.read = TRUE, !.rows = ToCredit(t), !.seen = balance]
      BY <1>6 DEF ReadRows, ShapeInv
    <3> QED
      BY <2>2, <3>1, Tables DEF Credit
  <2>4. CASE r \in ToCredit(t)
    <3>1. r \in Rows(t)
      BY <2>4 DEF ToCredit, Rows, Table, VotersInv, ToSet
    <3>2. \A u \in Table : r \notin credit[u].rows
      BY <2>2, <3>1, OneTable
    <3>3. Pending(r) = 0 /\ Pending(r)' = Share[r]
      BY <2>3, <2>4, <3>2 DEF Pending
    <3>4. \A u \in Table : r \in credit'[u].rows => u = t
      BY <1>4, <3>2
    <3> QED
      BY <1>1, <1>2, <1>3, <1>5, <2>1, <2>3, <2>4, <3>3, <3>4 DEF Row1
  <2>5. CASE r \notin ToCredit(t)
    <3>1. \A u \in Table : r \in credit'[u].rows <=> r \in credit[u].rows
      BY <1>4, <2>2, <2>3, <2>5
    <3>2. Pending(r)' = Pending(r)
      BY <3>1 DEF Pending
    <3>3. \A u \in Table : r \in credit'[u].rows => credit'[u] = credit[u]
      BY <1>4, <2>3, <2>5
    <3> QED
      BY <1>1, <1>5, <2>1, <2>5, <3>1, <3>2, <3>3 DEF Row1
  <2> QED
    BY <2>4, <2>5
<1>7. CASE WriteRows(t) \/ QueryFails(t)
  <2>1. credit'[t].rows = {}
    BY <1>7, Tables DEF WriteRows, QueryFails, ShapeInv
  <2>2. UNCHANGED earned
    BY <1>7 DEF WriteRows, QueryFails
  <2>3. CASE r \in credit[t].rows
    <3>1. \A u \in Table : r \notin credit'[u].rows
      <4>1. r \in Rows(t)
        BY <2>3, CreditStages
      <4> QED
        BY <1>4, <2>1, <4>1, OneTable
    <3>2. Pending(r) = Share[r] /\ Pending(r)' = 0
      BY <2>3, <3>1 DEF Pending
    <3>3. /\ balance[r] <= credit[t].seen[r]
          /\ "revived" \notin mishap[r] => balance[r] = credit[t].seen[r]
      BY <1>1, <2>3 DEF Row1
    <3>4. CASE WriteRows(t)
      <4>1. balance'[r] = credit[t].seen[r] + Share[r] /\ UNCHANGED mishap
        BY <2>3, <3>4 DEF WriteRows
      <4>2. PICK seen \in Nat : seen = credit[t].seen[r]
        BY <1>2
      <4>3. balance[r] <= balance'[r] /\ ("revived" \notin mishap[r] => balance'[r] = balance[r] + Share[r])
        BY <1>2, <1>3, <3>3, <4>1, <4>2
      <4>4. balance'[r] \in Nat /\ balance'[r] >= balance[r] + Share[r]
        BY <1>2, <1>3, <3>3, <4>1, <4>2
      <4>5. payment'[r].amount <= balance'[r]
        BY <1>1, <1>2, <1>5, <4>3, <4>4 DEF Row1
      <4>6. mishap'[r] = mishap[r] /\ paid'[r] = paid[r] /\ earned'[r] = earned[r]
        BY <1>5, <2>2, <4>1
      <4>7. mishap'[r] \cap {"unheard", "revived"} = {} =>
              balance'[r] + paid'[r] + Pending(r)' <= earned'[r] + Unsettled(r)'
        <5>1. mishap[r] \cap {"unheard", "revived"} = {} =>
                balance'[r] + paid[r] + 0 <= earned[r] + Unsettled(r)
          BY <1>1, <1>2, <1>3, <3>2, <4>3 DEF Row1
        <5> QED
          BY <1>5, <3>2, <4>6, <5>1
      <4>8. mishap'[r] \cap {"unwritten", "overtaken", "reset"} = {} =>
              balance'[r] + paid'[r] + Pending(r)' >= earned'[r] + Unsettled(r)'
        <5>1. mishap[r] \cap {"unwritten", "overtaken", "reset"} = {} =>
                balance'[r] + paid[r] + 0 >= earned[r] + Unsettled(r)
          BY <1>1, <1>2, <1>3, <3>2, <4>4 DEF Row1
        <5> QED
          BY <1>5, <3>2, <4>6, <5>1
      <4> QED
        BY <3>1, <4>5, <4>7, <4>8 DEF Row1
    <3>5. CASE QueryFails(t)
      <4>1. mishap'[r] = mishap[r] \cup {"unwritten"} /\ UNCHANGED balance
        BY <2>3, <3>5 DEF QueryFails, ShapeInv
      <4>2. mishap[r] \cap {"unheard", "revived"} = {} =>
              balance[r] + paid[r] + 0 <= earned[r] + Unsettled(r)
        BY <1>1, <1>2, <1>3, <3>2 DEF Row1
      <4>3. mishap'[r] \cap {"unheard", "revived"} = {} =>
              balance'[r] + paid'[r] + Pending(r)' <= earned'[r] + Unsettled(r)'
        BY <1>5, <2>2, <3>2, <4>1, <4>2
      <4>4. payment'[r].amount <= balance'[r]
        BY <1>1, <1>5, <4>1 DEF Row1
      <4> QED
        BY <3>1, <4>1, <4>3, <4>4 DEF Row1
    <3> QED
      BY <1>7, <3>4, <3>5
  <2>4. CASE r \notin credit[t].rows
    <3>1. balance'[r] = balance[r] /\ mishap'[r] = mishap[r]
      <4>1. mishap'[r] = mishap[r] \cup {} \/ UNCHANGED mishap
        BY <1>7, <2>4 DEF WriteRows, QueryFails
      <4> QED
        BY <1>7, <2>4, <4>1 DEF WriteRows, QueryFails
    <3>2. \A u \in Table : /\ r \in credit'[u].rows <=> r \in credit[u].rows
                           /\ r \in credit'[u].rows => credit'[u] = credit[u]
      BY <1>4, <2>1, <2>4
    <3>3. Pending(r)' = Pending(r)
      BY <3>2 DEF Pending
    <3> QED
      BY <1>1, <1>5, <2>2, <3>1, <3>2, <3>3 DEF Row1
  <2> QED
    BY <2>3, <2>4
<1> QED
  BY <1>6, <1>7 DEF TableStep

LEMMA RowsOfPayments ==
  ASSUME ShapeInv, ShapeInv', AmountsInv, NEW q \in Row, RowStep(q)
  PROVE  AmountsInv'
<1> SUFFICES ASSUME NEW r \in Row PROVE Row1(r)'
  BY RowByRowNext
<1>1. Row1(r)
  BY RowByRow
<1>2. /\ balance[r] \in Nat /\ paid[r] \in Nat /\ earned[r] \in Nat /\ Pending(r) \in Nat
      /\ payment[r] \in [amount : Nat, sent : BOOLEAN] /\ Unsettled(r) \in Nat
      /\ \A u \in Table : credit[u].seen[r] \in Nat
  BY RowNumbers
<1>3. UNCHANGED <<credit, earned>> /\ Pending(r)' = Pending(r)
  BY DEF RowStep, NodePays, NodeRefuses, Answered, Unheard, Pending
<1>4. CASE r # q
  <2>1. balance'[r] = balance[r] /\ paid'[r] = paid[r] /\ payment'[r] = payment[r] /\ mishap'[r] = mishap[r]
    BY <1>4 DEF RowStep, NodePays, NodeRefuses, Answered, Unheard, ShapeInv
  <2>2. Unsettled(r)' = Unsettled(r)
    BY <2>1 DEF Unsettled, Sent
  <2> QED
    BY <1>1, <1>3, <2>1, <2>2 DEF Row1
<1>5. CASE r = q
  <2>1. PICK amount \in Nat : amount = payment[r].amount
    BY <1>2
  <2>2. CASE NodePays(r)
    <3>1. /\ amount # 0 /\ ~payment[r].sent /\ UNCHANGED <<balance, mishap>>
          /\ payment'[r].amount = amount /\ payment'[r].sent
          /\ paid'[r] = paid[r] + amount
      BY <1>2, <2>1, <2>2 DEF NodePays, Waiting, ShapeInv
    <3>2. Unsettled(r) = 0 /\ Unsettled(r)' = amount
      BY <2>1, <3>1 DEF Unsettled, Sent
    <3> QED
      BY <1>1, <1>2, <1>3, <2>1, <3>1, <3>2 DEF Row1
  <2>3. CASE NodeRefuses(r)
    <3>1. /\ ~payment[r].sent /\ UNCHANGED <<balance, mishap, paid>> /\ payment'[r] = NoPayment
      BY <2>3 DEF NodeRefuses, Waiting, ShapeInv
    <3>2. Unsettled(r) = 0 /\ Unsettled(r)' = 0
      BY <3>1, Tables DEF Unsettled, Sent
    <3> QED
      BY <1>1, <1>2, <1>3, <3>1, <3>2, Tables DEF Row1
  <2>4. CASE Answered(r)
    <3>1. /\ payment[r].sent /\ amount # 0 /\ UNCHANGED paid /\ payment'[r] = NoPayment /\ balance'[r] = 0
          /\ mishap'[r] = mishap[r] \cup (IF balance[r] # amount THEN {"overtaken"} ELSE {}) \cup
                          (IF \E t \in Table : r \in credit[t].rows THEN {"revived"} ELSE {})
      BY <2>1, <2>4 DEF Answered, Sent, ShapeInv
    <3>2. Unsettled(r) = amount /\ Unsettled(r)' = 0
      BY <2>1, <3>1, Tables DEF Unsettled, Sent
    <3>3. amount <= balance[r]
      BY <1>1, <2>1 DEF Row1
    <3>4. /\ \A t \in Table : r \in credit'[t].rows => "revived" \in mishap'[r]
          /\ \A t \in Table : r \in credit'[t].rows => 0 <= credit'[t].seen[r]
      BY <1>2, <1>3, <3>1
    <3>5. mishap'[r] \cap {"unwritten", "overtaken", "reset"} = {} =>
            mishap[r] \cap {"unwritten", "overtaken", "reset"} = {} /\ balance[r] = amount
      BY <3>1
    <3>6. mishap'[r] \cap {"unheard", "revived"} = {} => mishap[r] \cap {"unheard", "revived"} = {}
      BY <3>1
    <3> QED
      BY <1>1, <1>2, <1>3, <2>1, <3>1, <3>2, <3>3, <3>4, <3>5, <3>6, Tables DEF Row1
  <2>5. CASE Unheard(r)
    <3>1. /\ UNCHANGED <<balance, paid>> /\ payment'[r] = NoPayment
          /\ mishap'[r] = mishap[r] \cup {"unheard"}
      BY <2>5 DEF Unheard, ShapeInv
    <3>2. Unsettled(r)' = 0
      BY <3>1, Tables DEF Unsettled, Sent
    <3> QED
      BY <1>1, <1>2, <1>3, <3>1, <3>2, Tables DEF Row1
  <2> QED
    BY <1>5, <2>2, <2>3, <2>4, <2>5 DEF RowStep
<1> QED
  BY <1>4, <1>5

LEMMA RowsOfWithdrawal ==
  ASSUME ShapeInv, ShapeInv', AmountsInv, Withdrawal
  PROVE  AmountsInv'
<1> SUFFICES ASSUME NEW r \in Row PROVE Row1(r)'
  BY RowByRowNext
<1>1. Row1(r)
  BY RowByRow
<1>2. /\ balance[r] \in Nat /\ Pending(r)' = Pending(r)
      /\ UNCHANGED <<credit, earned, balance, paid, mishap>>
  BY RowNumbers DEF Withdrawal, Pending
<1>3. /\ payment[r] = NoPayment
      /\ payment'[r] = IF Payable(r) THEN [amount |-> balance[r], sent |-> FALSE] ELSE NoPayment
  BY DEF Withdrawal
<1>4. payment'[r].amount <= balance[r] /\ payment'[r].sent = FALSE
  BY <1>2, <1>3, Tables
<1>5. Unsettled(r) = 0 /\ Unsettled(r)' = 0
  BY <1>3, <1>4, Tables DEF Unsettled, Sent
<1> QED
  BY <1>1, <1>2, <1>4, <1>5 DEF Row1

LEMMA RowsOfRestart ==
  ASSUME ShapeInv, ShapeInv', AmountsInv, Restart
  PROVE  AmountsInv'
<1> SUFFICES ASSUME NEW r \in Row PROVE Row1(r)'
  BY RowByRowNext
<1>1. Row1(r)
  BY RowByRow
<1>2. /\ balance[r] \in Nat /\ paid[r] \in Nat /\ earned[r] \in Nat /\ Pending(r) \in Nat
      /\ payment[r] \in [amount : Nat, sent : BOOLEAN] /\ Unsettled(r) \in Nat
  BY RowNumbers
<1>3. /\ \A t \in Table : credit'[t].rows = {}
      /\ payment'[r] = NoPayment /\ UNCHANGED <<paid, earned>>
      /\ balance'[r] = IF r \in Fee THEN 0 ELSE balance[r]
  BY Tables DEF Restart
<1>4. mishap'[r] = mishap[r] \cup (IF Sent(r) THEN {"unheard"} ELSE {}) \cup
        (IF \E t \in Table : r \in credit[t].rows THEN {"unwritten"} ELSE {}) \cup
        (IF r \in Fee /\ balance[r] # 0 THEN {"reset"} ELSE {})
  BY DEF Restart
<1>5. Pending(r)' = 0 /\ Unsettled(r)' = 0
  BY <1>3, Tables DEF Pending, Unsettled, Sent
<1>6. mishap'[r] \cap {"unheard", "revived"} = {} =>
        mishap[r] \cap {"unheard", "revived"} = {} /\ Unsettled(r) = 0
  BY <1>4 DEF Unsettled
<1>7. mishap'[r] \cap {"unwritten", "overtaken", "reset"} = {} =>
        /\ mishap[r] \cap {"unwritten", "overtaken", "reset"} = {}
        /\ Pending(r) = 0 /\ balance'[r] = balance[r]
  BY <1>3, <1>4 DEF Pending
<1>8. balance'[r] <= balance[r] /\ balance'[r] \in Nat
  BY <1>2, <1>3
<1> QED
  BY <1>1, <1>2, <1>3, <1>5, <1>6, <1>7, <1>8, Tables DEF Row1

LEMMA RowsElsewhere ==
  ASSUME ShapeInv, ShapeInv', AmountsInv, UNCHANGED rowVars,
         \A t \in Table : credit'[t] = credit[t] \/ (credit[t].rows = {} /\ credit'[t].rows = {})
  PROVE  AmountsInv'
<1> SUFFICES ASSUME NEW r \in Row PROVE Row1(r)'
  BY RowByRowNext
<1>1. Row1(r)
  BY RowByRow
<1>2. Unsettled(r)' = Unsettled(r) /\ Pending(r)' = Pending(r)
  BY DEF Unsettled, Sent, Pending, rowVars
<1> QED
  BY <1>1, <1>2 DEF Row1, rowVars

-----------------------------------------------------------------------------
(* The invariant                                                            *)

LEMMA PayoutStarts ==
  ASSUME PayoutInit
  PROVE  PayoutInv
<1>1. /\ forged = <<>> /\ Height = 0 /\ replaced = {} /\ last_block = 0 /\ heights = {} /\ fetching = {}
      /\ credit = [t \in Table |-> Idle] /\ balance = [r \in Row |-> 0]
      /\ payment = [r \in Row |-> NoPayment] /\ paid = [r \in Row |-> 0] /\ earned = [r \in Row |-> 0]
      /\ credited = [t \in Table |-> {}] /\ missed = [t \in Table |-> {}]
      /\ again = [t \in Table |-> {}] /\ stopped = {} /\ mishap = [r \in Row |-> {}]
  BY DEF PayoutInit, Height
<1>2. \A t \in Table : credit[t] \in Credit /\ credit[t].rows = {} /\ credit[t].height = 0 /\ ~credit[t].read
  BY <1>1, Tables
<1>3. ShapeInv
  BY <1>1, <1>2, Tables, RewardPoolAssumption DEF ShapeInv
<1>4. VotersInv
  <2>1. voters \in Seq(Voter)
    <3>1. Cardinality(Voter) \in Nat
      BY RewardPoolAssumption, FS_CardinalityType
    <3>2. SetToSeq(Voter) \in Seq(Voter)
      <4>1. \E f \in [1..Cardinality(Voter) -> Voter] : IsInjective(f)
        <5>1. \E f : ExistsBijection(1..Cardinality(Voter), Voter)
          BY RewardPoolAssumption, FS_CardinalityType
        <5>2. PICK f \in Bijection(1..Cardinality(Voter), Voter) : TRUE
          BY <5>1 DEF ExistsBijection
        <5>3. f \in [1..Cardinality(Voter) -> Voter] /\ \A i, j \in 1..Cardinality(Voter) : f[i] = f[j] => i = j
          BY <5>2 DEF Bijection, Injection, Surjection, IsInjective
        <5> QED
          BY <5>3 DEF IsInjective
      <4>2. SetToSeq(Voter) \in [1..Cardinality(Voter) -> Voter]
        BY <4>1 DEF SetToSeq
      <4> QED
        BY <3>1, <4>2
    <3>3. voters \in {<<>>, SetToSeq(Voter)}
      BY DEF PayoutInit
    <3>4. <<>> \in Seq(Voter)
      OBVIOUS
    <3> QED
      BY <3>2, <3>3, <3>4
  <2>2. active \subseteq ToSet(voters) /\ reported = {} /\ unfollowed = ToSet(voters)
    BY DEF PayoutInit
  <2> QED
    BY <2>1, <2>2 DEF VotersInv, VotersFollowed
<1>5. HeightsInv
  <2>1. \A t \in Table : ~Asked(t) /\ ~Read(t)
    BY <1>2 DEF Asked, Read
  <2> QED
    BY <1>1, <2>1 DEF HeightsInv, CreditedOnce
<1>6. AmountsInv
  <2> SUFFICES ASSUME NEW r \in Row PROVE Row1(r)
    BY <1>3, RowByRow
  <2>1. Pending(r) = 0 /\ Unsettled(r) = 0 /\ payment[r].amount = 0
    BY <1>1, <1>2, Tables DEF Pending, Unsettled, Sent
  <2> QED
    BY <1>1, <1>2, <2>1 DEF Row1
<1> QED
  BY <1>3, <1>4, <1>5, <1>6 DEF PayoutInv

LEMMA PayoutGoesOn ==
  ASSUME PayoutInv, [PayoutNext]_payoutVars
  PROVE  PayoutInv'
<1>1. ShapeInv /\ VotersInv /\ HeightsInv /\ AmountsInv
  BY DEF PayoutInv
<1>2. CASE \/ \E own \in BOOLEAN : NewBlock(own)
           \/ ReplaceBlock \/ AskHeight
           \/ \E h \in 0..MaxBlocks : PoolStep(h) \/ RequestFails(h)
  <2>1. ShapeInv'
    BY <1>1, <1>2, ShapeOfHeights
  <2>2. HeightsInv'
    BY <1>1, <1>2, <2>1, OnceOfHeights
  <2>3. UNCHANGED <<voterVars, rowVars>>
    BY <1>2 DEF NewBlock, ReplaceBlock, AskHeight, PoolStep, HeightAnswered, BlockAnswered, RequestFails
  <2>4. \A t \in Table : credit'[t] = credit[t] \/ (credit[t].rows = {} /\ credit'[t].rows = {})
    <3>1. CASE \E h \in 0..MaxBlocks : BlockAnswered(h)
      BY <3>1, Tables DEF BlockAnswered, Credit
    <3>2. CASE ~\E h \in 0..MaxBlocks : BlockAnswered(h)
      BY <1>2, <3>2 DEF NewBlock, ReplaceBlock, AskHeight, PoolStep, HeightAnswered, RequestFails
    <3> QED
      BY <3>1, <3>2
  <2>5. AmountsInv'
    BY <1>1, <2>1, <2>3, <2>4, RowsElsewhere
  <2>6. VotersInv'
    BY <1>1, <2>3 DEF VotersInv, VotersFollowed, voterVars
  <2> QED
    BY <2>1, <2>2, <2>5, <2>6 DEF PayoutInv
<1>3. CASE \E t \in Table : TableStep(t) \/ QueryFails(t)
  <2>1. PICK t \in Table : TableStep(t) \/ QueryFails(t)
    BY <1>3
  <2>2. ShapeInv' /\ HeightsInv'
    BY <1>1, <2>1, ShapeOfTables, OnceOfTables
  <2>3. AmountsInv'
    BY <1>1, <2>1, <2>2, RowsOfTables
  <2>4. UNCHANGED voterVars
    BY <2>1 DEF TableStep, ReadRows, WriteRows, QueryFails
  <2>5. VotersInv'
    BY <1>1, <2>4 DEF VotersInv, VotersFollowed, voterVars
  <2> QED
    BY <2>2, <2>3, <2>5 DEF PayoutInv
<1>4. CASE Withdrawal \/ Restart \/ \E r \in Row : RowStep(r)
  <2>1. ShapeInv'
    BY <1>1, <1>4, ShapeOfRows
  <2>2. AmountsInv'
    BY <1>1, <1>4, <2>1, RowsOfWithdrawal, RowsOfRestart, RowsOfPayments
  <2>3. HeightsInv'
    <3>1. CASE Restart
      BY <1>1, <3>1, OnceOfRestart
    <3>2. CASE ~Restart
      <4>1. UNCHANGED <<forged, pollVars, heightVars, credit>>
        BY <1>4, <3>2 DEF Withdrawal, RowStep, NodePays, NodeRefuses, Answered, Unheard, chainVars
      <4> QED
        BY <1>1, <4>1, OnceElsewhere
    <3> QED
      BY <3>1, <3>2
  <2>4. UNCHANGED voterVars
    BY <1>4 DEF Withdrawal, Restart, RowStep, NodePays, NodeRefuses, Answered, Unheard
  <2>5. VotersInv'
    BY <1>1, <2>4 DEF VotersInv, VotersFollowed, voterVars
  <2> QED
    BY <2>1, <2>2, <2>3, <2>5 DEF PayoutInv
<1>5. CASE \/ \E list \in Reports, small \in SUBSET Voter, done \in SUBSET Queries :
                UpdateVoters(list, small, done)
           \/ UNCHANGED payoutVars
  <2>1. UNCHANGED <<forged, replaced, pollVars, heightVars, rowVars, credit>>
    BY <1>5 DEF UpdateVoters, payoutVars, chainVars
  <2>2. ShapeInv'
    BY <1>1, <2>1 DEF ShapeInv, Height, pollVars, heightVars, rowVars
  <2>3. HeightsInv'
    BY <1>1, <2>1, OnceElsewhere
  <2>4. AmountsInv'
    BY <1>1, <2>1, <2>2, RowsElsewhere
  <2>5. VotersInv'
    <3>1. CASE UNCHANGED payoutVars
      BY <1>1, <3>1 DEF payoutVars, voterVars, VotersInv, VotersFollowed
    <3> QED
      BY <1>1, <1>5, <3>1, VotersUpdated
  <2> QED
    BY <2>2, <2>3, <2>4, <2>5 DEF PayoutInv
<1> QED
  BY <1>2, <1>3, <1>4, <1>5 DEF PayoutNext

LEMMA PayoutHolds == PayoutSpec => []PayoutInv
<1>1. PayoutInit => PayoutInv
  BY PayoutStarts
<1>2. PayoutInv /\ [PayoutNext]_payoutVars => PayoutInv'
  BY PayoutGoesOn
<1> QED
  BY <1>1, <1>2, PTL DEF PayoutSpec

(***************************************************************************)
(* RowsExact holds: however reading, adding, paying and zeroing interleave, *)
(* a row is owed what it holds, but for the named mishaps; for any voters,  *)
(* shares, blocks, payments and failures.                                   *)
(***************************************************************************)
THEOREM RowsHoldWhatIsOwed == PayoutSpec => []RowsExact
<1>1. PayoutInv => RowsExact
  BY DEF PayoutInv, AmountsInv
<1> QED
  BY <1>1, PayoutHolds, PTL

(***************************************************************************)
(* CreditsOK holds: a block is credited once, none of the delegate's is     *)
(* forgotten but for the named reasons, and the voters that count are those *)
(* of the last report, but for those whose rows that has not reached.       *)
(***************************************************************************)
THEOREM CreditedAndFollowed == PayoutSpec => []CreditsOK
<1>1. PayoutInv => CreditsOK
  <2> SUFFICES ASSUME PayoutInv PROVE CreditsOK
    OBVIOUS
  <2>1. PayoutTypeOK
    <3>1. \A t \in Table : credit[t] \in Credit /\ credit[t].height \in 0..Height
      BY CreditStages DEF PayoutInv
    <3>2. ToSet(voters) \subseteq Voter
      BY DEF PayoutInv, VotersInv, ToSet
    <3> QED
      BY <3>1, <3>2 DEF PayoutInv, ShapeInv, VotersInv, PayoutTypeOK, Credit
  <2> QED
    BY <2>1 DEF PayoutInv, HeightsInv, VotersInv, CreditsOK
<1> QED
  BY <1>1, PayoutHolds, PTL

=============================================================================
