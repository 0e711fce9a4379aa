----------------------------- MODULE ForkChoice -----------------------------
(***************************************************************************)
(* Which chain the nodes end up with: forging in slots (modules/delegates  *)
(* and the slots helper), what a node does with a block of a peer (onRecei-*)
(* veBlock, receiveForkOne, receiveForkFive of blocks/process.js, the      *)
(* checks of blocks/verify.js), the sync timer (modules/loader.js), and    *)
(* the reward that a block may claim (logic/blockReward.js).               *)
(*                                                                         *)
(* A block names its predecessor by its id, which is a hash: a block is    *)
(* the sequence of headers that ends with its own, and the last block of a *)
(* node is its chain; the genesis block, of height 1, is the empty one.    *)
(* Posts are lost (they never reach a node) or come late.  Transactions    *)
(* and signatures are valid: modules UnconfirmedLedger and AccountStates.  *)
(* Delegates run this program; whoever is none signs what he likes.        *)
(* A task of the sequence is one step of its node: nothing else changes    *)
(* the chain meanwhile.  Forging, which asks for peers first, is two.      *)
(***************************************************************************)
EXTENDS Integers, Sequences, FiniteSets, SequencesExt, FiniteSetsExt

CONSTANTS Node,
          Delegate,
          Stranger,     \* whoever signs a block and is not to forge it
          Lists,        \* the delegates by round, in order: used in turn
          RoundLength,  \* slots.delegates
          Keypairs,     \* __private.keypairs of every node
          Rewards,      \* constants.rewards
          TotalAmount,  \* constants.totalAmount
          SlotWindow,   \* constants.blockSlotWindow
          ReceiptSlots, \* constants.blockReceiptTimeOut in slots
          AnswerLimit,  \* the limit of blocks of an answer to a sync
          MaxUpsets,    \* bound: restarts, and blocks of strangers
          Strays,       \* bound: who gets one, and of which slot
          MaxSlot       \* bound: the last slot that anyone forges in

ASSUME ForkChoiceAssumption ==
  /\ {RoundLength, SlotWindow, ReceiptSlots, MaxSlot} \subseteq Nat \ {0}
  /\ AnswerLimit \in Nat \ {0, 1}
  /\ {MaxUpsets, TotalAmount} \subseteq Nat
  /\ Stranger \notin Delegate /\ Strays \subseteq Node \X (1..MaxSlot)
  /\ Lists \in Seq(Seq(Delegate)) /\ Lists # <<>>
  /\ \A i \in DOMAIN Lists : Len(Lists[i]) = RoundLength
  /\ Keypairs \in [Node -> SUBSET Delegate]
  /\ Rewards \in Seq([height : Nat, reward : Nat])
  /\ Rewards # <<>> /\ Rewards[1].height = 1
  /\ \A i, j \in DOMAIN Rewards : i < j => Rewards[i].height < Rewards[j].height

VARIABLES
  now,      \* the slot of the clock
  chain,    \* the last block of every node
  recent,   \* __private.lastNBlockIds of blocks/verify.js
  heard,    \* lastReceipt: the slot of it, or Never
  forging,  \* the slot that the node is forging in, or 0
  posts,    \* blocks under way to a node
  drawn,    \* ids of the blocks of a slot
  upsets,   \* counted for the bound
  offered   \* history: rivals of the last block that it has stood against since its start

vars == <<now, chain, recent, heard, forging, posts, drawn, upsets, offered>>

Never == -ReceiptSlots - 1
End == MaxSlot + 1  \* time goes on: every receipt gets stale

-----------------------------------------------------------------------------
(* Heights, slots and rewards *)

Height(b) == Len(b) + 1
Slot(b) == IF b = <<>> THEN 0 ELSE Last(b).slot
Parent(b) == Front(b)
RoundOf(h) == (h + RoundLength - 1) \div RoundLength

\* generateDelegateList: who is to forge in a slot, at a height.
Leader(slot, h) == Lists[(RoundOf(h) % Len(Lists)) + 1][(slot % RoundLength) + 1]

\* Mutant of CalcMilestone: a milestone begins after its height.
CalcMilestoneAfter(h) ==
  LET reached == {i \in DOMAIN Rewards : h > Rewards[i].height}
  IN  IF reached = {} THEN 1 ELSE CHOOSE i \in reached : \A j \in reached : j <= i

CalcMilestone(h) ==
  LET reached == {i \in DOMAIN Rewards : h >= Rewards[i].height}
  IN  IF reached = {} THEN 1 ELSE CHOOSE i \in reached : \A j \in reached : j <= i

CalcReward(h) == Rewards[CalcMilestone(h)].reward

\* The milestones that are over, and what is left of the height.
CalcSupply(h) ==
  LET top == CalcMilestone(h)
      Blocks(i) == Rewards[i + 1].height - Rewards[i].height
      Over(i) == Blocks(i) * Rewards[i].reward
  IN  TotalAmount + MapThenSumSet(Over, 1..top - 1)
        + (h - MapThenSumSet(Blocks, 1..top - 1)) * Rewards[top].reward

-----------------------------------------------------------------------------
(* Checks of blocks/verify.js *)

\* verifyReward: the height is the next one of the node.
RewardFits(n, b) == CalcReward(Height(b)) = CalcReward(Height(chain[n]) + 1)

\* verifyReceipt: before blocks of the node are deleted for this one.
VerifyReceipt(n, b) ==
  /\ b \notin ToSet(recent[n])
  /\ now - Slot(b) <= SlotWindow
  /\ Slot(b) <= now
  /\ RewardFits(n, b)

ValidateBlockSlot(b) == Last(b).generator = Leader(Slot(b), Height(b))

\* All blocks but the genesis block have a predecessor, and the last block of
\* the node is the one they are processed on.
VerifyPreviousBlock(own, b) == b # <<>> /\ Parent(b) = own

VerifyBlockSlot(own, b) == Slot(b) > Slot(own) /\ Slot(b) <= now

\* processBlock, without the transactions: verifyBlock and validateBlockSlot.  The
\* height is that of the node by now, and with it the reward is the right one.
ProcessBlock(own, b) ==
  /\ VerifyPreviousBlock(own, b)
  /\ VerifyBlockSlot(own, b)
  /\ ValidateBlockSlot(b)

\* onNewBlock of blocks/verify.js: deleted blocks stay, the oldest entry goes.
Remember(ids, b) ==
  LET all == Append(ids, b)
  IN  IF Len(all) > SlotWindow THEN Tail(all) ELSE all

\* Every new block is told to some of the peers; the posts to others are lost.
Broadcast(n, b, pending) ==
  \E reached \in SUBSET (Node \ {n}) : posts' = pending \cup (reached \X {b})

Handled(n, b) == posts \ {<<n, b>>}

NewTip(n, b) ==
  /\ chain' = [chain EXCEPT ![n] = b]
  /\ offered' = [offered EXCEPT ![n] = {}]

-----------------------------------------------------------------------------
(* Forging *)

Free(n) == forging[n] = 0

StartForge(n) ==
  /\ Free(n)
  /\ now <= MaxSlot
  /\ now # Slot(chain[n])
  /\ Leader(now, Height(chain[n]) + 1) \in Keypairs[n]
  /\ forging' = [forging EXCEPT ![n] = now]
  /\ UNCHANGED <<now, chain, recent, heard, upsets, posts, drawn, offered>>

\* Ids are compared within a slot: the second one is lower or higher.
Draw(slot) == IF drawn[slot] = {} THEN {2} ELSE {1, 3} \ drawn[slot]

\* The peers have answered: with a poor consensus the slot is skipped.  The
\* block is of the slot that forging began in.
Forge(n, id) ==
  LET slot == forging[n]
      header == [slot |-> slot, generator |-> Leader(slot, Height(chain[n]) + 1), id |-> id]
      b == Append(chain[n], header)
  IN  /\ ~Free(n)
      /\ id \in Draw(slot)
      /\ ProcessBlock(chain[n], b)
      /\ forging' = [forging EXCEPT ![n] = 0]
      /\ drawn' = [drawn EXCEPT ![slot] = @ \cup {id}]
      /\ recent' = [recent EXCEPT ![n] = Remember(@, b)]
      /\ heard' = [heard EXCEPT ![n] = now]
      /\ NewTip(n, b)
      /\ Broadcast(n, b, posts)
      /\ UNCHANGED <<now, upsets>>

SkipSlot(n) ==
  /\ ~Free(n)
  /\ forging' = [forging EXCEPT ![n] = 0]
  /\ UNCHANGED <<now, chain, recent, heard, upsets, posts, drawn, offered>>

-----------------------------------------------------------------------------
(* A block of a peer *)

\* receiveBlock, for a block on top of the last one.
ReceiveBlock(n, b) ==
  /\ Free(n) /\ <<n, b>> \in posts
  /\ ProcessBlock(chain[n], b)
  /\ recent' = [recent EXCEPT ![n] = Remember(@, b)]
  /\ heard' = [heard EXCEPT ![n] = now]
  /\ NewTip(n, b)
  /\ Broadcast(n, b, Handled(n, b))
  /\ UNCHANGED <<now, upsets, forging, drawn>>

\* The receipt counts although the block does not pass.
RefuseBlock(n, b) ==
  /\ Free(n) /\ <<n, b>> \in posts
  /\ VerifyPreviousBlock(chain[n], b) /\ ~ProcessBlock(chain[n], b)
  /\ heard' = [heard EXCEPT ![n] = now]
  /\ posts' = Handled(n, b)
  /\ UNCHANGED <<now, chain, recent, upsets, forging, drawn, offered>>

\* Mutant of Beats: of two blocks of the same slot neither beats the other.
BeatsOlder(b, own) == Slot(b) < Slot(own)

\* "Keep the oldest block, or if both have same age, keep block with lower id"
Beats(b, own) ==
  \/ Slot(b) < Slot(own)
  \/ Slot(b) = Slot(own) /\ Last(b).id <= Last(own).id

IsForkOne(own, b) == Len(b) = Len(own) + 1 /\ Parent(b) # own
IsForkFive(own, b) == Len(b) = Len(own) /\ b # own /\ Parent(b) = Parent(own)

\* Fork one: the other chain is one block longer.  Two blocks are deleted,
\* but the genesis block; the other chain comes with the next sync.
ReceiveForkOne(n, b) ==
  LET own == chain[n]
  IN  /\ Free(n) /\ <<n, b>> \in posts
      /\ own # <<>> /\ IsForkOne(own, b)
      /\ Beats(b, own)
      /\ VerifyReceipt(n, b) /\ ValidateBlockSlot(b)
      /\ NewTip(n, IF Len(own) = 1 THEN <<>> ELSE Parent(Parent(own)))
      /\ posts' = Handled(n, b)
      /\ UNCHANGED <<now, recent, heard, upsets, forging, drawn>>

\* Mutant of ReceiveForkFive: two blocks are deleted, as for fork one.
ReceiveForkFiveTwo(n, b) ==
  LET own == chain[n]
  IN  /\ Free(n) /\ <<n, b>> \in posts
      /\ own # <<>> /\ IsForkFive(own, b)
      /\ Beats(b, own)
      /\ VerifyReceipt(n, b)
      /\ heard' = [heard EXCEPT ![n] = now]
      /\ NewTip(n, IF Len(own) = 1 THEN <<>> ELSE Parent(Parent(own)))
      /\ posts' = Handled(n, b)
      /\ UNCHANGED <<now, recent, upsets, forging, drawn>>

\* Fork five: another block on the same predecessor.  The last block is
\* deleted and then the other one processed: only then its forger is looked at,
\* and whether it is younger than its predecessor.
ReceiveForkFive(n, b) ==
  LET own == chain[n]
  IN  /\ Free(n) /\ <<n, b>> \in posts
      /\ own # <<>> /\ IsForkFive(own, b)
      /\ Beats(b, own)
      /\ VerifyReceipt(n, b)
      /\ heard' = [heard EXCEPT ![n] = now]
      /\ IF ProcessBlock(Parent(own), b)
         THEN /\ recent' = [recent EXCEPT ![n] = Remember(@, b)]
              /\ NewTip(n, b)
              /\ Broadcast(n, b, Handled(n, b))
         ELSE /\ NewTip(n, Parent(own))
              /\ posts' = Handled(n, b)
              /\ UNCHANGED recent
      /\ UNCHANGED <<now, upsets, forging, drawn>>

\* Nothing changes: the last block stands, the checks refuse the other one,
\* which for fork one include its forger, or it fits nowhere.
Discard(n, b) ==
  LET own == chain[n]
  IN  /\ Free(n) /\ <<n, b>> \in posts
      /\ ~VerifyPreviousBlock(own, b)
      /\ own # <<>> /\ Beats(b, own) /\ VerifyReceipt(n, b) =>
           /\ ~IsForkFive(own, b)
           /\ IsForkOne(own, b) => ~ValidateBlockSlot(b)
      /\ posts' = Handled(n, b)
      /\ offered' = [offered EXCEPT ![n] = @ \cup {x \in {b} : own # <<>> /\ IsForkFive(own, x)}]
      /\ UNCHANGED <<now, chain, recent, heard, upsets, forging, drawn>>

\* Anyone can sign a block and post it: here one that is to follow the last block
\* of the node, or to take its place, and whose id is the lowest.
Stray(n, slot) ==
  /\ upsets < MaxUpsets
  /\ upsets' = upsets + 1
  /\ slot <= now
  /\ \E parent \in {chain[n]} \cup {Parent(b) : b \in {chain[n]} \ {<<>>}} :
       posts' = posts \cup
         {<<n, Append(parent, [slot |-> slot, generator |-> Stranger, id |-> 0])>>}
  /\ UNCHANGED <<now, chain, recent, heard, forging, drawn, offered>>

-----------------------------------------------------------------------------
(* The sync timer *)

IsStale(n) == now - heard[n] > ReceiptSlots \/ now = End

\* findGoodPeers: no peer that is lower; those near the commonest height.
GoodPeers(n) ==
  LET higher == {m \in Node \ {n} : Len(chain[m]) >= Len(chain[n])}
      Bin(m) == (Height(chain[m]) \div 2) * 2
      Size(h) == Cardinality({m \in higher : Bin(m) = h})
      commonest == {Bin(m) : m \in higher}
      top == Max({h \in commonest : \A k \in commonest : Size(k) <= Size(h)})
  IN  {m \in higher : top - Height(chain[m]) \in -2..2}

\* The last block, the first blocks of the last five rounds, the genesis block:
\* there always is a common one, and recoverChain is never called.
IdSequence(n) ==
  LET round == RoundOf(Height(chain[n]))
      firsts == {(r - 1) * RoundLength + 1 : r \in Max({1, round - 4})..round}
  IN  {chain[n], <<>>} \cup {SubSeq(chain[n], 1, h - 1) : h \in firsts}

\* The answer of a peer: which of the blocks its own chain holds.
BlocksCommon(m, ids) == {b \in ids : IsPrefix(b, chain[m])}

CommonBlock(n, m) == BlocksCommon(m, IdSequence(n)) # {}

\* loadBlocksData of a peer: the blocks after the given one, and its chain from
\* the genesis block on if it does not know that block, `limit' heights of it.
BlocksAfter(m, b, limit) ==
  LET first == IF IsPrefix(b, chain[m]) THEN Len(b) + 1 ELSE 0
      last  == Min({Len(chain[m]), first + limit - 2})
  IN  [i \in 1..last + 1 - first |-> SubSeq(chain[m], 1, first + i - 1)]

\* Transport.blocks: the answer to the last block of another node.
Answer(m, b) == BlocksAfter(m, b, AnswerLimit)

\* Mutant of LoadBlocks: the blocks are checked as those that are received.
LoadBlocksReceived(n, blocks) ==
  /\ blocks # <<>>
  /\ \A i \in DOMAIN blocks :
       /\ ProcessBlock(IF i = 1 THEN chain[n] ELSE blocks[i - 1], blocks[i])
       /\ blocks[i] \notin ToSet(recent[n])

LoadBlocks(n, blocks) ==
  /\ blocks # <<>>
  /\ \A i \in DOMAIN blocks :
       ProcessBlock(IF i = 1 THEN chain[n] ELSE blocks[i - 1], blocks[i])

\* One answer of a peer; as long as it changes the last block, sync asks on.
\* Blocks loaded from a peer are no receipt, and are not told to others.
Sync(n, m) ==
  LET blocks == Answer(m, chain[n])
  IN  /\ Free(n)
      /\ IsStale(n)
      /\ m \in GoodPeers(n)
      /\ chain[n] = <<>> \/ CommonBlock(n, m)
      /\ LoadBlocks(n, blocks)
      /\ recent' = [recent EXCEPT ![n] = FoldLeft(Remember, @, blocks)]
      /\ NewTip(n, Last(blocks))
      /\ UNCHANGED <<now, heard, forging, posts, drawn, upsets>>

-----------------------------------------------------------------------------
\* Requests time out after seconds: forging ends in the next slot at latest.
NextSlot ==
  /\ now < End
  /\ \A n \in Node : forging[n] \in {0, now}
  /\ now' = now + 1
  /\ UNCHANGED <<chain, recent, heard, upsets, forging, posts, drawn, offered>>

\* The chain is in the database; of the last ids the youngest comes first.
Restart(n) ==
  /\ upsets < MaxUpsets
  /\ upsets' = upsets + 1
  /\ recent' = [recent EXCEPT ![n] =
       [i \in 1..Min({SlotWindow, Len(chain[n])}) |-> SubSeq(chain[n], 1, Len(chain[n]) + 1 - i)]]
  /\ heard' = [heard EXCEPT ![n] = Never]
  /\ forging' = [forging EXCEPT ![n] = 0]
  /\ posts' = {p \in posts : p[1] # n}
  /\ offered' = [offered EXCEPT ![n] = {}]
  /\ UNCHANGED <<now, chain, drawn>>

Init ==
  /\ now = 1
  /\ chain = [n \in Node |-> <<>>]
  /\ recent = [n \in Node |-> <<>>]
  /\ heard = [n \in Node |-> Never]
  /\ forging = [n \in Node |-> 0]
  /\ posts = {}
  /\ drawn = [s \in 1..MaxSlot |-> {}]
  /\ upsets = 0
  /\ offered = [n \in Node |-> {}]

ForgeStep(n) == SkipSlot(n) \/ \E id \in 1..3 : Forge(n, id)

Receive(n) ==
  \E p \in posts :
    /\ p[1] = n
    /\ \/ ReceiveBlock(n, p[2]) \/ RefuseBlock(n, p[2])
       \/ ReceiveForkOne(n, p[2]) \/ ReceiveForkFive(n, p[2])
       \/ Discard(n, p[2])

Next ==
  \/ NextSlot
  \/ \E stray \in Strays : Stray(stray[1], stray[2])
  \/ \E n \in Node :
       \/ StartForge(n) \/ ForgeStep(n) \/ Receive(n) \/ Restart(n)
       \/ \E m \in Node \ {n} : Sync(n, m)

\* The clock goes on, the answers that forging waits for come or time out (with a
\* block or without, forging ends), and the sync timer comes to every peer, which
\* it picks at random.  A post may be under way for ever.
Fairness ==
  /\ WF_vars(NextSlot)
  /\ \A n \in Node : WF_vars(SkipSlot(n))
  /\ \A n, m \in Node : n # m => WF_vars(Sync(n, m))

Spec == Init /\ [][Next]_vars /\ Fairness

-----------------------------------------------------------------------------
Made == UNION {{SubSeq(chain[n], 1, i) : i \in 1..Len(chain[n])} : n \in Node}

TypeOK ==
  /\ now \in 1..End
  /\ \A n \in Node :
       /\ \A i \in DOMAIN chain[n] :
            /\ chain[n][i].slot \in 1..MaxSlot
            /\ chain[n][i].generator \in Delegate
            /\ chain[n][i].id \in 1..3
       /\ Len(recent[n]) <= SlotWindow
       /\ heard[n] \in {Never} \cup 1..now
       /\ forging[n] \in 0..MaxSlot
  /\ drawn \in [1..MaxSlot -> SUBSET (1..3)]
  /\ upsets \in 0..MaxUpsets

\* Why receiveForkFive may refuse the better of two blocks.
Excused(n, b) ==
  \/ b \in ToSet(recent[n])
  \/ Slot(b) < now - SlotWindow
  \/ ~RewardFits(n, b)

(***************************************************************************)
(* Two nodes whose last blocks follow the same block, and which have both  *)
(* been sent the block of the other, do not both keep their own: one of    *)
(* them gives way, unless its checks refuse the better block as deleted    *)
(* lately, as too old, or at a milestone of the reward.  A restart forgets *)
(* what was deleted lately: a rival that was refused before has to come    *)
(* again, which nobody promises.                                           *)
(***************************************************************************)
SiblingsSettle ==
  \A n, m \in Node :
    /\ chain[n] # <<>> /\ IsForkFive(chain[n], chain[m])
    /\ chain[m] \in offered[n] /\ chain[n] \in offered[m]
    => Excused(n, chain[m]) \/ Excused(m, chain[n])

(***************************************************************************)
(* A node gives blocks up for a longer chain: a peer has sent a block that *)
(* is one higher, not younger than the last one, and of the forger of its  *)
(* slot.  Otherwise it loses the last one at most, to a block in its place *)
(* that no delegate has signed: fork five deletes before it looks at the   *)
(* forger.  The rival of a delegate always takes the place.                *)
(***************************************************************************)
ShorterForLonger ==
  [][\A n \in Node : Len(chain'[n]) < Len(chain[n]) =>
       \E p \in posts \ posts' :
         LET own == chain[n]
             b == p[2]
         IN  /\ p[1] = n /\ Slot(b) <= Slot(own)
             /\ \/ Len(b) = Len(own) + 1 /\ ValidateBlockSlot(b)
                \/ /\ chain'[n] = Parent(own) /\ IsForkFive(own, b)
                   /\ Last(b).generator = Stranger]_vars

(***************************************************************************)
(* The supply that the API reports for the height of a node is what the    *)
(* rewards of the blocks of its chain have added to the total amount.      *)
(***************************************************************************)
SupplyMatches ==
  \A n \in Node :
    CalcSupply(Height(chain[n])) = TotalAmount + MapThenSumSet(CalcReward, 1..Height(chain[n]))

(***************************************************************************)
(* A node whose chain is the beginning of that of a peer does not stay     *)
(* behind: it gets the blocks of the peer, its own that it has deleted     *)
(* included, or has gone on differently.                                   *)
(***************************************************************************)
CatchesUp ==
  \A n, m \in Node :
    n # m => (IsStrictPrefix(chain[n], chain[m]) ~> ~IsStrictPrefix(chain[n], chain[m]))

(***************************************************************************)
(* The chains, the memory of blocks and the receipts are within their bounds, *)
(* and the supply follows the rewards.                                     *)
(***************************************************************************)
ChainsOK == TypeOK /\ SupplyMatches
=============================================================================
