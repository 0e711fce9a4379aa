----------------------------- MODULE PoolQueue -----------------------------
(***************************************************************************)
(* One queue of logic/transactionPool.js: an array of transactions and an  *)
(* object that maps an id to a position of the array.  A transaction is    *)
(* removed by overwriting its slot with `false`, so the array only grows   *)
(* until reindexQueues compacts it.                                        *)
(*                                                                         *)
(* A transaction stands for its id.  Positions count from 0, as they do in *)
(* the code: whether a transaction sits in slot 0 matters to the pool.     *)
(***************************************************************************)
EXTENDS Integers, Sequences, FiniteSets

CONSTANTS Tx,      \* transaction ids
          Hole     \* the `false` left in the slot of a removed transaction

ASSUME HoleAssumption == Hole \notin Tx

Undefined == -1    \* the index holds no entry for the id

EmptyQueue == [transactions |-> <<>>, index |-> [t \in Tx |-> Undefined]]

(***************************************************************************)
(* The members of a set of positions in ascending order, and from it the   *)
(* order-preserving choice of some slots of an array (filter in JavaScript)*)
(***************************************************************************)
Ascending(P) ==
  CHOOSE f \in [1..Cardinality(P) -> P] :
    \A i, j \in 1..Cardinality(P) : i < j => f[i] < f[j]

Keep(s, P) == [i \in 1..Cardinality(P) |-> s[Ascending(P)[i]]]

Live(s) == {i \in DOMAIN s : s[i] # Hole}

Without(s) == Keep(s, Live(s))

\* indexOf: the first slot that holds the transaction, from 0
IndexOf(s, t) ==
  (CHOOSE i \in DOMAIN s : s[i] = t /\ \A j \in DOMAIN s : s[j] = t => i <= j) - 1

Members(q) == {t \in Tx : q.index[t] # Undefined}
Count(q) == Cardinality(Members(q))

Push(q, t) ==
  IF q.index[t] # Undefined
  THEN q
  ELSE LET pushed == Append(q.transactions, t)
       IN  [transactions |-> pushed,
            index |-> [q.index EXCEPT ![t] = IndexOf(pushed, t)]]

\* remove...Transaction of every id of S that the index knows
DropAll(q, S) ==
  LET gone == {q.index[t] + 1 : t \in S \cap Members(q)}
  IN  [transactions |-> [i \in DOMAIN q.transactions |->
                           IF i \in gone THEN Hole ELSE q.transactions[i]],
       index |-> [t \in Tx |-> IF t \in S THEN Undefined ELSE q.index[t]]]

Drop(q, t) == DropAll(q, {t})

\* The pushes of a list of distinct transactions, one after the other.
PushAll(q, list) ==
  LET new    == Keep(list, {i \in DOMAIN list : q.index[list[i]] = Undefined})
      pushed == q.transactions \o new
  IN  [transactions |-> pushed,
       index |-> [t \in Tx |-> IF \E i \in DOMAIN new : new[i] = t
                               THEN IndexOf(pushed, t)
                               ELSE q.index[t]]]

\* Mutant of Reindex: the index is not built anew.
ReindexStaleIndex(q) == [q EXCEPT !.transactions = Without(@)]

\* Mutant of Reindex: the transactions are pushed newest first.
ReindexReversed(q) ==
  LET all  == Without(q.transactions)
      kept == [i \in DOMAIN all |-> all[Len(all) + 1 - i]]
  IN  [transactions |-> kept,
       index |-> [t \in Tx |-> IF \E i \in DOMAIN kept : kept[i] = t
                               THEN IndexOf(kept, t)
                               ELSE Undefined]]

Reindex(q) ==
  LET kept == Without(q.transactions)
  IN  [transactions |-> kept,
       index |-> [t \in Tx |-> IF \E i \in DOMAIN kept : kept[i] = t
                               THEN IndexOf(kept, t)
                               ELSE Undefined]]

\* getTransactionList with reverse, and its `limit` newest entries
Newest(q) ==
  LET all == Without(q.transactions)
  IN  [i \in DOMAIN all |-> all[Len(all) + 1 - i]]

Limit(s, n) == SubSeq(s, 1, IF Len(s) <= n THEN Len(s) ELSE n)

(***************************************************************************)
(* What add, remove and reindex maintain together: the index and the array *)
(* describe the same transactions.                                         *)
(***************************************************************************)
QueueOK(q) ==
  /\ q = [transactions |-> q.transactions, index |-> q.index]
  /\ q.transactions \in Seq(Tx \cup {Hole})
  /\ q.index \in [Tx -> Int]
  /\ \A t \in Tx : q.index[t] # Undefined =>
       /\ q.index[t] \in 0..(Len(q.transactions) - 1)
       /\ q.transactions[q.index[t] + 1] = t
  /\ \A i \in 1..Len(q.transactions) :
       q.transactions[i] # Hole => q.index[q.transactions[i]] = i - 1
=============================================================================
