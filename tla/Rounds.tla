------------------------------- MODULE Rounds -------------------------------
(***************************************************************************)
(* What a block does to the accounts of a node, and what rolling it back   *)
(* undoes: modules/rounds.js and logic/round.js, with the confirmed half   *)
(* of a transaction (logic/transaction.js, transfer.js, vote.js) and the   *)
(* merge of an account (logic/account.js).                                 *)
(*                                                                         *)
(* A delegate's vote is the money of its voters.  It changes only when a   *)
(* round ends: until then a change of an account's balance, or of its list *)
(* of delegates, waits in mem_round as a row of the round.  The block that *)
(* ends a round lands the rows, pays the fees and rewards of the round to  *)
(* its delegates, and lands the rows of that payment.  The block before it *)
(* leaves a snapshot, which restores mem_round and the votes when the last *)
(* block of a round is rolled back.                                        *)
(***************************************************************************)
EXTENDS Integers, Sequences, FiniteSets, FiniteSetsExt, SequencesExt

CONSTANTS Account,
          Delegate,       \* accounts that are delegates
          Genesis,        \* the account that generated the genesis block
          Rank,           \* order of the delegates' public keys
          D,              \* slots.delegates, delegates of a round
          Balance0,       \* balances after the genesis block
          Voted0,         \* lists of delegates after the genesis block
          RewardAt,       \* blockReward.calcReward
          Transactions,   \* transactions that may occur in a block
          MaxHeight,      \* bound: blocks of the chain
          MaxRollbacks    \* bound: blocks rolled back

\* [kind |-> "none"], a transfer or a vote
TransactionTypes ==
  {[kind |-> "none"]}
    \cup [kind : {"transfer"}, from : Account, to : Account, amount : Nat, fee : Nat]
    \cup [kind : {"vote"}, from : Account, fee : Nat,
          vote : [action : {"+", "-"}, delegate : Delegate]]

\* The code has the height 101 where it means the end of the first round of 101.
ASSUME RoundsAssumption ==
  /\ IsFiniteSet(Account)
  /\ Delegate \subseteq Account
  /\ Genesis \in Account \ Delegate
  /\ D \in Nat \ {0, 1}
  /\ D <= Cardinality(Delegate)
  /\ Rank \in [Delegate -> Nat]
  /\ Balance0 \in [Account -> Nat]
  /\ Voted0 \in [Account -> SUBSET Delegate]
  /\ Transactions \subseteq TransactionTypes
  /\ MaxHeight \in Nat \ {0}
  /\ D = 101 \/ MaxHeight < 101
  /\ MaxRollbacks \in Nat
  /\ RewardAt \in [1..MaxHeight -> Nat]

VARIABLES
  blocks,     \* the chain: generator, transaction, fee and reward of each block
  ledger,     \* the tables of accounts and of mem_round
  snapshot,   \* mem_round_snapshot and mem_votes_snapshot, and their height
  past,       \* history: the ledger after each block of the chain
  rollbacks,  \* history: blocks rolled back
  happened    \* history: "misvote": a vote that does not fit the list of its
              \* sender; "stale": a round rolled back with a snapshot of another
              \* height; "uneven": one whose rewards are others read backwards

vars == <<blocks, ledger, snapshot, past, rollbacks, happened>>

SumOver(f, S) == MapThenSumSet(LAMBDA x : f[x], S)

-----------------------------------------------------------------------------
(* Rounds and the delegates of a round *)

\* Rounds.calc: the heights 1..D are round 1, and so on.
Calc(height) == (height + D - 1) \div D

MaxRound == Calc(MaxHeight + 1)

\* delegates.generateDelegateList; its order does not matter here.
Ahead(vote, d, e) == vote[d] > vote[e] \/ (vote[d] = vote[e] /\ Rank[d] < Rank[e])
DelegateList(vote) == {d \in Delegate : Cardinality({e \in Delegate : Ahead(vote, e, d)}) < D}

\* The blocks of the last round, in order of their height (summedRound)
RoundBlocks(chain, round) == SubSeq(chain, (round - 1) * D + 1, Len(chain))
Generators(bs) == {bs[i].generator : i \in DOMAIN bs}

-----------------------------------------------------------------------------
(* Account.merge: the row of the account, then the rows of mem_round *)
NoRows == [d \in Delegate |-> 0]

\* mem_accounts2delegates has no key: a delegate voted for twice is there twice.
MergeBalance(l, a, amount, round) ==
  [l EXCEPT !.balance[a] = @ + amount,
            !.mem[round] = [d \in Delegate |-> @[d] + amount * l.voted[a][d]]]

Plus(d) == [action |-> "+", delegate |-> d]
Minus(d) == [action |-> "-", delegate |-> d]
Opposite(v) == IF v.action = "+" THEN Minus(v.delegate) ELSE Plus(v.delegate)

MergeVote(l, a, v, round) ==
  IF v.action = "+"
  THEN [l EXCEPT !.voted[a][v.delegate] = @ + 1,
                 !.mem[round][v.delegate] = @ + l.balance[a]]
  ELSE [l EXCEPT !.voted[a][v.delegate] = 0,
                 !.mem[round][v.delegate] = @ - l.balance[a]]

-----------------------------------------------------------------------------
(* Transactions                                                            *)
AmountOf(t) == IF t.kind = "transfer" THEN t.amount ELSE 0
FeeOf(t) == IF t.kind = "none" THEN 0 ELSE t.fee

\* delegates.checkDelegates
VoteFits(l, t) ==
  IF t.vote.action = "+" THEN l.voted[t.from][t.vote.delegate] = 0
                         ELSE l.voted[t.from][t.vote.delegate] > 0

\* The sender can pay.  vote.js drops the error of checkConfirmedDelegates:
\* hasOwnProperty(id) > -1 is true of every id.
Verify(l, t) == t.kind # "none" => AmountOf(t) + FeeOf(t) <= l.balance[t.from]

(* Both merge the payer first, the type then does its part.                *)
TransferApply(l, t, round) == MergeBalance(l, t.to, t.amount, round)

\* Mutant of TransferUndo: the recipient keeps the rows of mem_round.
TransferUndoBare(l, t, round) == [l EXCEPT !.balance[t.to] = @ - t.amount]

TransferUndo(l, t, round) == MergeBalance(l, t.to, -t.amount, round)

\* VoteFits is asked for once more, and its error dropped once more.
VoteApply(l, t, round) == MergeVote(l, t.from, t.vote, round)

VoteUndo(l, t, round) == MergeVote(l, t.from, Opposite(t.vote), round)

Apply(l, t, round) ==
  CASE t.kind = "none" -> l
    [] t.kind = "transfer" ->
         TransferApply(MergeBalance(l, t.from, -(t.amount + t.fee), round), t, round)
    [] t.kind = "vote" -> VoteApply(MergeBalance(l, t.from, -t.fee, round), t, round)

Undo(l, t, round) ==
  CASE t.kind = "none" -> l
    [] t.kind = "transfer" ->
         TransferUndo(MergeBalance(l, t.from, t.amount + t.fee, round), t, round)
    [] t.kind = "vote" -> VoteUndo(MergeBalance(l, t.from, t.fee, round), t, round)

-----------------------------------------------------------------------------
(* logic/round.js *)
MergeBlockGenerator(l, generator, sign) ==
  IF generator \in Delegate THEN [l EXCEPT !.produced[generator] = @ + sign] ELSE l

UpdateVotes(l, round) ==
  [l EXCEPT !.vote = [d \in Delegate |-> @[d] + l.mem[round][d]]]

UpdateMissedBlocks(l, outsiders, sign) ==
  [l EXCEPT !.missed = [d \in Delegate |-> IF d \in outsiders THEN @[d] + sign ELSE @[d]]]

FlushRound(l, round) == [l EXCEPT !.mem[round] = NoRows]

\* What RoundChanges gives the i-th delegate of the list; the remainder of the
\* fees goes to the delegate that forged last.
Payment(i, fees, rewards, last) ==
  fees \div D + rewards[i] + IF i = last THEN fees % D ELSE 0

\* Mutant of ApplyRound: the remainder is dropped.
ApplyRoundFloor(l, round, bs, sign) ==
  LET n       == Len(bs)
      fees    == SumOver([i \in 1..n |-> bs[i].fee], 1..n)
      forger  == [i \in 1..n |-> bs[i].generator]
      merge(a, i) == MergeBalance(a, forger[i], sign * (fees \div D + bs[i].reward), round)
  IN  FoldLeftDomain(LAMBDA a, i : merge(a, i), l, bs)

\* Going backwards, the delegates are reversed but not their rewards.
ApplyRound(l, round, bs, sign) ==
  LET n       == Len(bs)
      fees    == SumOver([i \in 1..n |-> bs[i].fee], 1..n)
      rewards == [i \in 1..n |-> bs[i].reward]
      forger  == [i \in 1..n |-> bs[IF sign = 1 THEN i ELSE n + 1 - i].generator]
      last    == IF sign = 1 THEN n ELSE 1
      merge(a, i) == MergeBalance(a, forger[i], sign * Payment(i, fees, rewards, last), round)
  IN  FoldLeftDomain(LAMBDA a, i : merge(a, i), l, bs)

\* Mutant of Land: the rows of the payment wait until the round lands again.
LandOnce(l, round, bs, outsiders, sign) ==
  LET landed == FlushRound(UpdateMissedBlocks(UpdateVotes(l, round), outsiders, sign), round)
  IN  ApplyRound(landed, round, bs, sign)

Land(l, round, bs, outsiders, sign) ==
  LET landed == FlushRound(UpdateMissedBlocks(UpdateVotes(l, round), outsiders, sign), round)
      paid   == ApplyRound(landed, round, bs, sign)
  IN  FlushRound(UpdateVotes(paid, round), round)

\* Mutant of RestoreSnapshot: the votes are left as they are.
RestoreRows(l) ==
  [l EXCEPT !.mem = [r \in 1..MaxRound |-> [d \in Delegate |-> @[r][d] + snapshot.mem[r][d]]]]

\* The rows of the snapshot are inserted into mem_round, the votes are set.
RestoreSnapshot(l) ==
  [l EXCEPT !.mem = [r \in 1..MaxRound |-> [d \in Delegate |-> @[r][d] + snapshot.mem[r][d]]],
            !.vote = snapshot.vote]

\* The list of the round as the votes are before it lands; nobody is an
\* outsider of the genesis block.
Outsiders(l, height, bs) ==
  IF height = 1 THEN {} ELSE DelegateList(l.vote) \ Generators(bs)

FinishRound(height) == Calc(height) # Calc(height + 1) \/ height \in {1, 101}
FinishRoundBackward(height) ==
  \/ Calc(height - 1) = Calc(height) /\ Calc(height + 1) # Calc(height)
  \/ height \in {1, 101}

Tick(l, chain) ==
  LET height == Len(chain)
      round  == Calc(height)
      bs     == RoundBlocks(chain, round)
      merged == MergeBlockGenerator(l, chain[height].generator, 1)
  IN  IF FinishRound(height)
      THEN Land(merged, round, bs, Outsiders(l, height, bs), 1)
      ELSE merged

BackwardTick(l, chain) ==
  LET height == Len(chain)
      round  == Calc(height)
      bs     == RoundBlocks(chain, round)
      merged == MergeBlockGenerator(l, chain[height].generator, -1)
  IN  IF FinishRoundBackward(height)
      THEN RestoreSnapshot(Land(merged, round, bs, Outsiders(l, height, bs), -1))
      ELSE merged

SnapshotAfter(l, height) ==
  IF (height + 1) % D = 0 THEN [mem |-> l.mem, vote |-> l.vote, height |-> height]
                          ELSE snapshot

-----------------------------------------------------------------------------
GenesisBlock == [generator |-> Genesis, transaction |-> [kind |-> "none"],
                 fee |-> 0, reward |-> 0]

\* After applyGenesisBlock, whose round lands like any other.
GenesisLedger ==
  [balance  |-> Balance0,
   voted    |-> [a \in Account |-> [d \in Delegate |-> IF d \in Voted0[a] THEN 1 ELSE 0]],
   vote     |-> [d \in Delegate |-> SumOver(Balance0, {a \in Account : d \in Voted0[a]})],
   mem      |-> [r \in 1..MaxRound |-> NoRows],
   produced |-> NoRows,
   missed   |-> NoRows]

Init ==
  /\ blocks = <<GenesisBlock>>
  /\ ledger = GenesisLedger
  /\ snapshot = [mem |-> GenesisLedger.mem, vote |-> GenesisLedger.vote,
                 height |-> IF D = 2 THEN 1 ELSE 0]
  /\ past = <<GenesisLedger>>
  /\ rollbacks = 0
  /\ happened = {}

If(condition, event) == IF condition THEN {event} ELSE {}

\* The rewards of a round in whose middle the reward changes
Uneven(bs) == \E i \in DOMAIN bs : bs[i].reward # bs[Len(bs) + 1 - i].reward

\* applyBlock: the confirmed transaction, saveBlock, and the tick of the round
ApplyBlock(generator, t) ==
  /\ Len(blocks) < MaxHeight
  /\ generator \in DelegateList(ledger.vote)
  /\ Verify(ledger, t)
  /\ happened' = happened \cup If(t.kind = "vote" /\ ~VoteFits(ledger, t), "misvote")
  /\ LET height == Len(blocks) + 1
         block  == [generator |-> generator, transaction |-> t, fee |-> FeeOf(t),
                    reward |-> RewardAt[height]]
         chain  == Append(blocks, block)
         ticked == Tick(Apply(ledger, t, Calc(height)), chain)
     IN  /\ blocks' = chain
         /\ ledger' = ticked
         /\ snapshot' = SnapshotAfter(ticked, height)
         /\ past' = Append(past, ticked)
  /\ UNCHANGED rollbacks

\* popLastBlock: the same backwards
DeleteLastBlock ==
  /\ Len(blocks) > 1
  /\ rollbacks < MaxRollbacks
  /\ rollbacks' = rollbacks + 1
  /\ LET height == Len(blocks)
         finish == FinishRoundBackward(height)
         undone == Undo(ledger, blocks[height].transaction, Calc(height))
     IN  /\ ledger' = BackwardTick(undone, blocks)
         /\ happened' = happened \cup If(finish /\ snapshot.height # height - 1, "stale")
              \cup If(finish /\ Uneven(RoundBlocks(blocks, Calc(height))), "uneven")
  /\ blocks' = Front(blocks)
  /\ past' = Front(past)
  /\ UNCHANGED snapshot

Next ==
  \/ \E generator \in Delegate, t \in Transactions : ApplyBlock(generator, t)
  \/ DeleteLastBlock

Spec == Init /\ [][Next]_vars

-----------------------------------------------------------------------------
TypeOK ==
  /\ Len(blocks) \in 1..MaxHeight
  /\ Len(past) = Len(blocks)
  /\ ledger.balance \in [Account -> Int]
  /\ ledger.voted \in [Account -> [Delegate -> Nat]]
  /\ ledger.vote \in [Delegate -> Int]
  /\ ledger.mem \in [1..MaxRound -> [Delegate -> Int]]
  /\ ledger.produced \in [Delegate -> Nat]
  /\ ledger.missed \in [Delegate -> Int]
  /\ snapshot.height \in 0..MaxHeight
  /\ rollbacks \in 0..MaxRollbacks
  /\ happened \subseteq {"misvote", "stale", "uneven"}

(***************************************************************************)
(* A delegate's vote and its rows in mem_round add up to the balances of   *)
(* the accounts that vote for it, through every transfer, vote, payment of *)
(* a round and rollback, as long as votes fit and the rounds that were     *)
(* rolled back had a fresh snapshot and one reward.                        *)
(***************************************************************************)
VotesMatch ==
  happened = {} =>
    \A d \in Delegate :
      ledger.vote[d] + SumOver([r \in 1..MaxRound |-> ledger.mem[r][d]], 1..MaxRound)
        = SumOver([a \in Account |-> ledger.balance[a] * ledger.voted[a][d]], Account)

(***************************************************************************)
(* Money is neither lost nor made: what the accounts hold, with the fees   *)
(* that the open round has collected, is what they held at first and the   *)
(* rewards of the rounds that have landed.                                 *)
(***************************************************************************)
Landed == {h \in DOMAIN blocks : h > 1 /\ h <= (Len(blocks) \div D) * D}

Conserved ==
  SumOver(ledger.balance, Account)
    + SumOver([h \in DOMAIN blocks |-> blocks[h].fee], DOMAIN blocks \ Landed)
  = SumOver(Balance0, Account) + SumOver([h \in DOMAIN blocks |-> blocks[h].reward], Landed)

(***************************************************************************)
(* The delegates of a round are elected by all that happened before it: no *)
(* row of another round waits in mem_round, unless an old snapshot has     *)
(* brought it back or a vote that did not fit was not undone by its undo.  *)
(***************************************************************************)
OpenRoundOnly ==
  {"stale", "misvote"} \cap happened = {} =>
    \A r \in 1..MaxRound : r # Calc(Len(blocks) + 1) => ledger.mem[r] = NoRows

(***************************************************************************)
(* Rolling a block back leaves the accounts as they were before it, so     *)
(* that a node that left a fork elects the delegates that all others do:   *)
(* as long as votes fit, snapshots are fresh and a round has one reward.   *)
(***************************************************************************)
Elects(l) == [balance |-> l.balance, voted |-> l.voted, vote |-> l.vote, mem |-> l.mem,
              produced |-> l.produced]

RollbackRestores == happened = {} => Elects(ledger) = Elects(past[Len(past)])

(***************************************************************************)
(* So only the rows of the open round wait, in whatever order blocks, votes *)
(* and rollbacks have made them.                                           *)
(***************************************************************************)
RowsOK == TypeOK /\ OpenRoundOnly
=============================================================================
