--------------------------- MODULE ForkChoiceProofs ---------------------------
(***************************************************************************)
(* For any nodes, delegates, lists and rewards: a node gives blocks up     *)
(* only for a longer chain; of two rivals that both nodes know one gives   *)
(* way; and the supply is what the rewards have added.                     *)
(*                                                                         *)
(* The step to be afraid of is fork five, which deletes the last block     *)
(* before it processes the other one: if that fails the node is a block    *)
(* shorter for nothing.  A stranger's block fails, and costs the node this *)
(* one block; that of a delegate does not, since whoever sent it has       *)
(* processed it on the same predecessor.  The invariant is that a block    *)
(* under way is of a stranger, or fits on its predecessor and is of its    *)
(* forger.                                                                 *)
(*                                                                         *)
(* The second half is about what the chain so chosen does to the accounts: *)
(* for any accounts and transactions, the properties of AccountStates.     *)
(***************************************************************************)
EXTENDS ForkChoice, AccountStates, FiniteSetTheorems, WellFoundedInduction, TLAPS

Header == [slot : 1..MaxSlot, generator : Delegate, id : 1..3]
Block == Seq(Header)

\* What is left of processBlock when the predecessor is that of the block.
Sound(b) == b # <<>> /\ Slot(Parent(b)) < Slot(b) /\ ValidateBlockSlot(b)

Strange(own, slot) == Append(own, [slot |-> slot, generator |-> Stranger, id |-> 0])

\* What is under way: a sound block, or one that a stranger has signed.
Post == {b \in Block : Sound(b)} \cup {Strange(own, slot) : own \in Block, slot \in 1..MaxSlot}

IInv ==
  /\ now \in Nat
  /\ forging \in [Node -> 0..MaxSlot]
  /\ chain \in [Node -> Block]
  /\ posts \subseteq Node \X Post

\* The step of ShorterForLonger
Kept ==
  \A n \in Node : Len(chain'[n]) < Len(chain[n]) =>
    \E p \in posts \ posts' :
      /\ p[1] = n /\ Slot(p[2]) <= Slot(chain[n])
      /\ \/ Len(p[2]) = Len(chain[n]) + 1 /\ ValidateBlockSlot(p[2])
         \/ /\ chain'[n] = Parent(chain[n]) /\ IsForkFive(chain[n], p[2])
            /\ Last(p[2]).generator = Stranger

-----------------------------------------------------------------------------
(* Blocks *)

LEMMA FrontOf ==
  ASSUME NEW S, NEW s \in Seq(S), s # <<>>
  PROVE  /\ SubSeq(s, 1, Len(s) - 1) \in Seq(S)
         /\ Len(SubSeq(s, 1, Len(s) - 1)) = Len(s) - 1
         /\ Len(s) \in Nat \ {0}
<1>1. Len(s) \in Nat \ {0}
  OBVIOUS
<1> DEFINE n == Len(s) - 1
<1>2. n \in Nat /\ n <= Len(s)
  BY <1>1
<1> HIDE DEF n
<1>3. \A i \in 1..n : s[i] \in S
  BY <1>1, <1>2
<1>4. SubSeq(s, 1, n) \in Seq(S) /\ Len(SubSeq(s, 1, n)) = n
  BY <1>2, <1>3
<1> QED
  BY <1>1, <1>4 DEF n

LEMMA ParentOf ==
  ASSUME NEW b \in Block, b # <<>>
  PROVE  Parent(b) \in Block /\ Len(Parent(b)) = Len(b) - 1 /\ Len(b) \in Nat \ {0}
  BY FrontOf DEF Parent, Front, Block

LEMMA SlotNat ==
  ASSUME NEW b \in Block
  PROVE  Slot(b) \in Nat
<1>1. CASE b = <<>>
  BY <1>1 DEF Slot
<1>2. CASE b # <<>>
  <2>1. b[Len(b)] \in Header
    BY <1>2 DEF Block
  <2>2. b[Len(b)].slot \in Nat
    BY <2>1 DEF Header
  <2> QED
    BY <1>2, <2>2 DEF Slot, Last
<1> QED
  BY <1>1, <1>2

\* What a node processes is sound, and a block longer than its chain.
LEMMA ProcessedSound ==
  ASSUME NEW own \in Block, NEW b \in Block, ProcessBlock(own, b)
  PROVE  Sound(b) /\ Len(b) = Len(own) + 1
<1>1. b # <<>> /\ Parent(b) = own /\ Slot(b) > Slot(own) /\ ValidateBlockSlot(b)
  BY DEF ProcessBlock, VerifyPreviousBlock, VerifyBlockSlot
<1>2. Len(b) = Len(own) + 1
  BY <1>1, ParentOf DEF Block
<1> QED
  BY <1>1, <1>2, SlotNat DEF Sound

\* And a sound block is processed on its predecessor, when its slot has come.
LEMMA SoundProcessed ==
  ASSUME NEW own \in Block, own # <<>>, NEW b \in Block, Sound(b), IsForkFive(own, b),
         now \in Nat, Slot(b) <= now
  PROVE  ProcessBlock(Parent(own), b)
<1>1. /\ Parent(b) = Parent(own) /\ Len(b) = Len(own)
      /\ b # <<>> /\ Slot(Parent(b)) < Slot(b) /\ ValidateBlockSlot(b)
  BY DEF IsForkFive, Sound
<1>2. Parent(own) \in Block /\ Len(Parent(own)) = Len(own) - 1 /\ Len(own) \in Nat
  BY ParentOf
<1>3. Height(b) = Height(Parent(own)) + 1
  BY <1>1, <1>2 DEF Height
<1>4. Slot(Parent(own)) \in Nat /\ Slot(b) \in Nat
  BY <1>2, SlotNat
<1> QED
  BY <1>1, <1>3, <1>4 DEF ProcessBlock, VerifyPreviousBlock, VerifyBlockSlot

\* The lists name a delegate for every slot and height.
LEMMA LeaderIs ==
  ASSUME NEW slot \in Nat, NEW h \in Nat
  PROVE  Leader(slot, h) \in Delegate
<1>1. RoundLength \in Nat /\ RoundLength > 0 /\ Len(Lists) \in Nat /\ Len(Lists) > 0
  BY ForkChoiceAssumption
<1>2. RoundOf(h) \in Int
  BY <1>1 DEF RoundOf
<1>3. \A a \in Int, b \in Nat : b > 0 => a % b \in 0..b - 1
  OBVIOUS
<1> DEFINE i == (RoundOf(h) % Len(Lists)) + 1
<1>4. i \in DOMAIN Lists
  BY <1>1, <1>2, <1>3, ForkChoiceAssumption
<1>5. Lists[i] \in Seq(Delegate) /\ Len(Lists[i]) = RoundLength
  BY <1>4, ForkChoiceAssumption
<1>6. (slot % RoundLength) + 1 \in 1..RoundLength
  BY <1>1, <1>3
<1> QED
  BY <1>5, <1>6 DEF Leader

\* A stranger's block is not of the forger of its slot.
LEMMA StrangeBlock ==
  ASSUME NEW own \in Block, NEW slot \in 1..MaxSlot, NEW b, b = Strange(own, slot)
  PROVE  /\ b # <<>> /\ Slot(b) = slot /\ Len(b) \in Nat
         /\ Last(b).generator = Stranger
         /\ ~ValidateBlockSlot(b)
<1> DEFINE header == [slot |-> slot, generator |-> Stranger, id |-> 0]
<1>1. /\ header.slot = slot /\ header.generator = Stranger /\ header.id = 0
      /\ b = Append(own, header) /\ Len(own) \in Nat
  BY DEF Strange, Block
<1> HIDE DEF header
<1>2. b # <<>> /\ Len(b) = Len(own) + 1 /\ b[Len(b)] = header
  BY <1>1 DEF Block
<1>3. Last(b) = header /\ Slot(b) = slot
  BY <1>1, <1>2 DEF Last, Slot
<1>4. Leader(slot, Height(b)) \in Delegate
  <2>1. Height(b) \in Nat /\ slot \in Nat
    BY <1>1, <1>2, ForkChoiceAssumption DEF Height
  <2> QED
    BY <2>1, LeaderIs
<1>5. ~ValidateBlockSlot(b)
  BY <1>1, <1>3, <1>4, ForkChoiceAssumption DEF ValidateBlockSlot
<1> QED
  BY <1>1, <1>2, <1>3, <1>5

LEMMA PostIs ==
  ASSUME NEW b \in Post
  PROVE  /\ b # <<>> /\ Slot(b) \in Nat /\ Len(b) \in Nat
         /\ \/ b \in Block /\ Sound(b)
            \/ ~ValidateBlockSlot(b) /\ Last(b).generator = Stranger
<1>1. CASE b \in Block /\ Sound(b)
  BY <1>1, SlotNat DEF Sound, Block
<1>2. ASSUME NEW own \in Block, NEW slot \in 1..MaxSlot, b = Strange(own, slot)
      PROVE  /\ b # <<>> /\ Slot(b) \in Nat /\ Len(b) \in Nat
             /\ ~ValidateBlockSlot(b) /\ Last(b).generator = Stranger
  BY <1>2, StrangeBlock, ForkChoiceAssumption
<1> QED
  BY <1>1, <1>2 DEF Post

\* A block that is forged
LEMMA ForgedBlock ==
  ASSUME NEW own \in Block, NEW slot \in 1..MaxSlot, NEW id \in 1..3
  PROVE  Append(own, [slot |-> slot, generator |-> Leader(slot, Height(own) + 1), id |-> id])
           \in Block
<1>1. Height(own) + 1 \in Nat
  BY DEF Height, Block
<1>2. [slot |-> slot, generator |-> Leader(slot, Height(own) + 1), id |-> id] \in Header
  BY <1>1, LeaderIs DEF Header
<1> QED
  BY <1>2 DEF Block

LEMMA LeastOf ==
  ASSUME NEW i \in Int, NEW j \in Int
  PROVE  Min({i, j}) \in {i, j} /\ Min({i, j}) <= i /\ Min({i, j}) <= j
<1>1. \E x \in {i, j} : \A y \in {i, j} : x <= y
  OBVIOUS
<1> QED
  BY <1>1 DEF Min

\* The answer of a peer goes on from the chain of the node, or is of no use.
LEMMA AnswerLonger ==
  ASSUME NEW own \in Block, NEW other \in Node, chain \in [Node -> Block],
         NEW answer, answer = Answer(other, own),
         answer # <<>>,
         \A i \in DOMAIN answer : ProcessBlock(IF i = 1 THEN own ELSE answer[i - 1], answer[i])
  PROVE  Last(answer) \in Block /\ Len(Last(answer)) > Len(own)
<1> DEFINE theirs == chain[other]
           first == IF IsPrefix(own, theirs) THEN Len(own) + 1 ELSE 0
           last == Min({Len(theirs), first + AnswerLimit - 2})
<1>1. /\ theirs \in Block /\ Len(theirs) \in Nat /\ Len(own) \in Nat
      /\ first \in Nat /\ first + AnswerLimit - 2 \in Int
  BY ForkChoiceAssumption DEF Block
<1>2. last \in Int /\ last <= Len(theirs)
  <2>1. \A i, j \in Int : Min({i, j}) \in {i, j} /\ Min({i, j}) <= i
    BY LeastOf
  <2>2. Len(theirs) \in Int
    BY <1>1
  <2> QED
    BY <1>1, <2>1, <2>2
<1>3. answer = [i \in 1..last + 1 - first |-> SubSeq(theirs, 1, first + i - 1)]
  BY DEF Answer, BlocksAfter
<1> HIDE DEF last, first, theirs
<1>4. last + 1 - first >= 1
  BY <1>1, <1>2, <1>3
<1>5. Len(answer) = last + 1 - first
  BY <1>1, <1>2, <1>3, <1>4
<1>6. Last(answer) = SubSeq(theirs, 1, last)
  BY <1>1, <1>2, <1>3, <1>4, <1>5 DEF Last
<1>7. answer[1] = SubSeq(theirs, 1, first)
  BY <1>1, <1>2, <1>3, <1>4
<1>8. first = Len(own) + 1
  <2>1. answer[1] # <<>>
    <3>1. 1 \in DOMAIN answer
      BY <1>1, <1>2, <1>3, <1>4
    <3>2. ProcessBlock(own, answer[1])
      BY <3>1
    <3> QED
      BY <3>2 DEF ProcessBlock, VerifyPreviousBlock
  <2>2. first # 0
    BY <1>1, <1>7, <2>1 DEF Block
  <2> QED
    BY <2>2 DEF first
<1> QED
  BY <1>1, <1>2, <1>4, <1>6, <1>8 DEF Block

-----------------------------------------------------------------------------
(* The steps of a node: its new tip is typed, and longer, or it was right to *)
(* give blocks up; what it tells others is sound.                           *)

LEMMA NewTipKept ==
  ASSUME IInv, NEW n \in Node, NEW b \in Block, NewTip(n, b), Len(b) >= Len(chain[n])
  PROVE  chain' \in [Node -> Block] /\ Kept
<1>1. /\ chain' = [chain EXCEPT ![n] = b]
      /\ chain \in [Node -> Block]
  BY DEF NewTip, IInv
<1>2. \A k \in Node : Len(chain'[k]) >= Len(chain[k])
                      /\ Len(chain'[k]) \in Nat /\ Len(chain[k]) \in Nat
  BY <1>1 DEF Block
<1> QED
  BY <1>1, <1>2 DEF Kept

LEMMA BroadcastSound ==
  ASSUME IInv, NEW n \in Node, NEW b \in Block, Sound(b),
         NEW pending \in SUBSET posts, Broadcast(n, b, pending)
  PROVE  posts' \subseteq Node \X Post
  BY DEF Broadcast, IInv, Post

LEMMA ForgeKeeps ==
  ASSUME IInv, NEW n \in Node, ForgeStep(n)
  PROVE  IInv' /\ Kept
<1>1. CASE SkipSlot(n)
  BY <1>1, ForkChoiceAssumption, SMTT(20) DEF SkipSlot, IInv, Kept, Block
<1>2. ASSUME NEW id \in 1..3, Forge(n, id) PROVE IInv' /\ Kept
  <2> DEFINE header == [slot |-> forging[n], generator |-> Leader(forging[n], Height(chain[n]) + 1),
                        id |-> id]
             b == Append(chain[n], header)
  <2>1. /\ ProcessBlock(chain[n], b) /\ NewTip(n, b) /\ Broadcast(n, b, posts)
        /\ forging' = [forging EXCEPT ![n] = 0] /\ now' = now
    BY <1>2 DEF Forge
  <2>2. chain[n] \in Block /\ b \in Block
    <3>1. forging[n] \in 1..MaxSlot
      BY <1>2 DEF IInv, Forge, Free
    <3> QED
      BY <3>1, ForgedBlock DEF IInv
  <2> HIDE DEF b
  <2>3. Sound(b) /\ Len(b) = Len(chain[n]) + 1
    BY <2>1, <2>2, ProcessedSound
  <2>4. chain' \in [Node -> Block] /\ Kept
    BY <2>1, <2>2, <2>3, NewTipKept DEF Block
  <2>5. 0 \in 0..MaxSlot
    BY ForkChoiceAssumption
  <2> QED
    BY <2>1, <2>2, <2>3, <2>4, <2>5, BroadcastSound DEF IInv
<1> QED
  BY <1>1, <1>2 DEF ForgeStep

\* Fork five replaces the last block, but with a stranger's it leaves it deleted.
LEMMA ForkFiveReplaces ==
  ASSUME IInv, NEW n \in Node, NEW b \in Post, ReceiveForkFive(n, b)
  PROVE  \/ /\ b \in Block /\ Sound(b)
            /\ NewTip(n, b) /\ Broadcast(n, b, Handled(n, b))
         \/ /\ Last(b).generator = Stranger
            /\ NewTip(n, Parent(chain[n])) /\ posts' = Handled(n, b)
<1>1. /\ chain[n] \in Block /\ chain[n] # <<>> /\ IsForkFive(chain[n], b)
      /\ VerifyReceipt(n, b)
  BY DEF ReceiveForkFive, IInv
<1>2. CASE b \in Block /\ Sound(b)
  <2>1. ProcessBlock(Parent(chain[n]), b)
    BY <1>1, <1>2, SoundProcessed DEF VerifyReceipt, IInv
  <2> QED
    BY <1>2, <2>1 DEF ReceiveForkFive
<1>3. CASE ~ValidateBlockSlot(b) /\ Last(b).generator = Stranger
  <2>1. ~ProcessBlock(Parent(chain[n]), b)
    BY <1>3 DEF ProcessBlock
  <2> QED
    BY <1>3, <2>1 DEF ReceiveForkFive
<1> QED
  BY <1>2, <1>3, PostIs

LEMMA ForkFiveKeeps ==
  ASSUME IInv, NEW n \in Node, NEW b \in Post, <<n, b>> \in posts, ReceiveForkFive(n, b)
  PROVE  IInv' /\ Kept
<1>1. /\ now' = now /\ forging' = forging /\ Handled(n, b) \in SUBSET posts
      /\ chain[n] \in Block /\ chain[n] # <<>> /\ IsForkFive(chain[n], b)
      /\ Beats(b, chain[n]) /\ Len(b) = Len(chain[n])
  BY DEF ReceiveForkFive, IInv, Handled, IsForkFive
<1>2. CASE /\ b \in Block /\ Sound(b)
           /\ NewTip(n, b) /\ Broadcast(n, b, Handled(n, b))
  <2>1. chain' \in [Node -> Block] /\ Kept
    BY <1>1, <1>2, NewTipKept DEF Block
  <2> QED
    BY <1>1, <1>2, <2>1, BroadcastSound DEF IInv
<1>3. CASE /\ Last(b).generator = Stranger
           /\ NewTip(n, Parent(chain[n])) /\ posts' = Handled(n, b)
  <2>1. /\ chain' = [chain EXCEPT ![n] = Parent(chain[n])] /\ posts' = posts \ {<<n, b>>}
        /\ Parent(chain[n]) \in Block
    BY <1>1, <1>3, ParentOf DEF NewTip, Handled
  <2>2. Slot(b) <= Slot(chain[n])
    BY <1>1, SlotNat, PostIs DEF Beats
  <2>3. Kept
    <3>1. \A k \in Node \ {n} : chain'[k] = chain[k] /\ Len(chain[k]) \in Nat
      BY <2>1 DEF IInv, Block
    <3>2. <<n, b>> \in posts \ posts' /\ chain'[n] = Parent(chain[n])
      BY <2>1 DEF IInv
    <3> QED
      BY <1>1, <1>3, <2>2, <3>1, <3>2 DEF Kept
  <2> QED
    BY <1>1, <2>1, <2>3 DEF IInv
<1> QED
  BY <1>2, <1>3, ForkFiveReplaces

LEMMA ReceiveKeeps ==
  ASSUME IInv, NEW n \in Node, Receive(n)
  PROVE  IInv' /\ Kept
<1>1. PICK b \in Post :
        /\ <<n, b>> \in posts
        /\ \/ ReceiveBlock(n, b) \/ RefuseBlock(n, b)
           \/ ReceiveForkOne(n, b) \/ ReceiveForkFive(n, b)
           \/ Discard(n, b)
  BY DEF Receive, IInv
<1>2. /\ chain[n] \in Block /\ Handled(n, b) \in SUBSET posts
      /\ Len(b) \in Nat /\ Len(chain[n]) \in Nat
  BY PostIs DEF IInv, Handled, Block
<1>3. CASE ReceiveBlock(n, b)
  <2>1. /\ ProcessBlock(chain[n], b) /\ NewTip(n, b) /\ Broadcast(n, b, Handled(n, b))
        /\ now' = now /\ forging' = forging
    BY <1>3 DEF ReceiveBlock
  <2>2. b \in Block /\ Sound(b)
    BY <2>1, PostIs DEF ProcessBlock
  <2>3. Len(b) = Len(chain[n]) + 1
    BY <1>2, <2>1, <2>2, ProcessedSound
  <2>4. chain' \in [Node -> Block] /\ Kept
    BY <1>2, <2>1, <2>2, <2>3, NewTipKept
  <2> QED
    BY <1>2, <2>1, <2>2, <2>4, BroadcastSound DEF IInv
<1>4. CASE ReceiveForkFive(n, b)
  BY <1>1, <1>4, ForkFiveKeeps
<1>5. CASE ReceiveForkOne(n, b)
  <2> DEFINE tip == IF Len(chain[n]) = 1 THEN <<>> ELSE Parent(Parent(chain[n]))
  <2>1. /\ chain[n] # <<>> /\ IsForkOne(chain[n], b) /\ Beats(b, chain[n])
        /\ ValidateBlockSlot(b)
        /\ chain' = [chain EXCEPT ![n] = tip]
        /\ posts' = posts \ {<<n, b>>} /\ now' = now /\ forging' = forging
    BY <1>5 DEF ReceiveForkOne, NewTip, Handled
  <2>2. tip \in Block
    <3>1. CASE Len(chain[n]) = 1
      BY <3>1 DEF Block
    <3>2. CASE Len(chain[n]) # 1
      <4>1. /\ Parent(chain[n]) \in Block
            /\ Len(Parent(chain[n])) = Len(chain[n]) - 1 /\ Len(chain[n]) \in Nat \ {0}
        BY <1>2, <2>1, ParentOf
      <4>2. Len(Parent(chain[n])) # 0
        BY <3>2, <4>1
      <4>3. Parent(chain[n]) # <<>>
        BY <4>2
      <4> QED
        BY <3>2, <4>1, <4>3, ParentOf
    <3> QED
      BY <3>1, <3>2
  <2> HIDE DEF tip
  <2>3. Slot(b) <= Slot(chain[n]) /\ Len(b) = Len(chain[n]) + 1
    BY <1>2, <2>1, SlotNat, PostIs DEF Beats, IsForkOne
  <2>4. Kept
    <3>1. \A k \in Node \ {n} : chain'[k] = chain[k] /\ Len(chain[k]) \in Nat
      BY <2>1, <2>2 DEF IInv, Block
    <3>2. <<n, b>> \in posts \ posts'
      BY <1>1, <2>1
    <3> QED
      BY <2>1, <2>3, <3>1, <3>2 DEF Kept
  <2> QED
    BY <2>1, <2>2, <2>4 DEF IInv
<1>6. CASE Discard(n, b)
  BY <1>6 DEF Discard, Handled, IInv, Kept, Block
<1>7. CASE RefuseBlock(n, b)
  BY <1>7 DEF RefuseBlock, Handled, IInv, Kept, Block
<1> QED
  BY <1>1, <1>3, <1>4, <1>5, <1>6, <1>7

\* What a stranger sends follows a block of the node.
LEMMA StrayParent ==
  ASSUME IInv, NEW n \in Node, NEW slot \in 1..MaxSlot, Stray(n, slot)
  PROVE  \E own \in Block : posts' = posts \cup {<<n, Strange(own, slot)>>}
<1>1. chain[n] \in Block /\ (chain[n] # <<>> => Parent(chain[n]) \in Block)
  BY ParentOf DEF IInv
<1> QED
  BY <1>1 DEF Stray, Strange

LEMMA StrayKeeps ==
  ASSUME IInv, NEW n \in Node, NEW slot \in 1..MaxSlot, Stray(n, slot)
  PROVE  IInv' /\ Kept
<1>1. PICK own \in Block : posts' = posts \cup {<<n, Strange(own, slot)>>}
  BY StrayParent
<1>2. posts' \subseteq Node \X Post
  BY <1>1 DEF IInv, Post
<1>3. UNCHANGED <<now, chain, forging>>
  BY DEF Stray
<1>4. Kept
  BY <1>3 DEF IInv, Kept, Block
<1> QED
  BY <1>2, <1>3, <1>4 DEF IInv

LEMMA SyncKeeps ==
  ASSUME IInv, NEW n \in Node, NEW m \in Node, Sync(n, m)
  PROVE  IInv' /\ Kept
<1> DEFINE answer == Answer(m, chain[n])
<1>1. /\ LoadBlocks(n, answer) /\ NewTip(n, Last(answer))
      /\ now' = now /\ forging' = forging /\ posts' = posts
  BY DEF Sync
<1>2. /\ answer # <<>>
      /\ \A i \in DOMAIN answer :
           ProcessBlock(IF i = 1 THEN chain[n] ELSE answer[i - 1], answer[i])
  BY <1>1 DEF LoadBlocks
<1>3. Last(answer) \in Block /\ Len(Last(answer)) > Len(chain[n]) /\ chain[n] \in Block
  BY <1>2, AnswerLonger DEF IInv, answer
<1>4. chain' \in [Node -> Block] /\ Kept
  BY <1>1, <1>3, NewTipKept DEF Block
<1> QED
  BY <1>1, <1>4 DEF IInv

-----------------------------------------------------------------------------
LEMMA InitIInv == Init => IInv
  BY ForkChoiceAssumption DEF Init, IInv, Block

LEMMA NextKeeps == IInv /\ [Next]_vars => IInv' /\ Kept
<1> SUFFICES ASSUME IInv, [Next]_vars PROVE IInv' /\ Kept
  OBVIOUS
<1>1. CASE NextSlot
  BY <1>1, SMTT(20) DEF NextSlot, IInv, Kept, Block
<1>2. ASSUME NEW n \in Node, StartForge(n) PROVE IInv' /\ Kept
  BY <1>2, ForkChoiceAssumption, SMTT(20) DEF StartForge, IInv, Kept, Block
<1>3. ASSUME NEW n \in Node, ForgeStep(n) PROVE IInv' /\ Kept
  BY <1>3, ForgeKeeps
<1>4. ASSUME NEW n \in Node, Receive(n) PROVE IInv' /\ Kept
  BY <1>4, ReceiveKeeps
<1>5. ASSUME NEW n \in Node, Restart(n) PROVE IInv' /\ Kept
  BY <1>5, ForkChoiceAssumption, SMTT(20) DEF Restart, IInv, Kept, Block
<1>6. ASSUME NEW n \in Node, NEW m \in Node, Sync(n, m) PROVE IInv' /\ Kept
  BY <1>6, SyncKeeps
<1>7. ASSUME NEW n \in Node, NEW slot \in 1..MaxSlot, Stray(n, slot) PROVE IInv' /\ Kept
  BY <1>7, StrayKeeps
<1>8. CASE UNCHANGED vars
  BY <1>8 DEF vars, IInv, Kept, Block
<1> QED
  BY <1>1, <1>2, <1>3, <1>4, <1>5, <1>6, <1>7, <1>8, ForkChoiceAssumption DEF Next

(***************************************************************************)
(* In every behaviour a node whose chain gets shorter has been sent a      *)
(* block one higher that is not younger than its last one and of the       *)
(* forger of its slot (receiveForkOne of blocks/process.js), or has lost   *)
(* its last block to one that a stranger has signed: receiveForkFive, which *)
(* deletes before it refuses, refuses no block of a delegate.              *)
(***************************************************************************)
THEOREM GivenUpForLonger == Spec => ShorterForLonger
<1>1. IInv /\ [Next]_vars => [Kept]_vars
  BY NextKeeps
<1>2. Spec => [][Kept]_vars
  BY <1>1, InitIInv, NextKeeps, PTL DEF Spec
<1> QED
  BY <1>2 DEF Kept, ShorterForLonger
-----------------------------------------------------------------------------
(***************************************************************************)
(* Rivals of the last block.  A node that stands against a rival stands    *)
(* because its own block is the better one, or because a check refuses the *)
(* rival; what the check has looked at stays until the node has another    *)
(* last block or starts again, but for the clock, which only makes rivals  *)
(* older.                                                                  *)
(***************************************************************************)
Stands(n) ==
  \A b \in offered[n] :
    /\ b \in Post /\ chain[n] # <<>> /\ IsForkFive(chain[n], b)
    /\ Beats(b, chain[n]) => Excused(n, b)

\* What is under way is of a slot that has come.
Timely == \A p \in posts : Slot(p[2]) <= now

Standing ==
  /\ recent = [n \in Node |-> recent[n]]
  /\ offered = [n \in Node |-> offered[n]]
  /\ Timely
  /\ \A n \in Node : Stands(n)

LEMMA StandsStill ==
  ASSUME IInv, NEW n \in Node, Stands(n), chain'[n] = chain[n], recent'[n] = recent[n],
         offered'[n] \subseteq offered[n], now' \in Nat, now' >= now
  PROVE  Stands(n)'
<1> SUFFICES ASSUME NEW b \in offered'[n]
             PROVE  /\ b \in Post /\ chain'[n] # <<>> /\ IsForkFive(chain'[n], b)
                    /\ Beats(b, chain'[n]) => Excused(n, b)'
  BY DEF Stands
<1>1. /\ b \in Post /\ chain[n] # <<>> /\ IsForkFive(chain[n], b)
      /\ Beats(b, chain[n]) => Excused(n, b)
  BY DEF Stands
<1>2. now \in Nat /\ Slot(b) \in Nat /\ SlotWindow \in Nat
  BY <1>1, PostIs, ForkChoiceAssumption DEF IInv
<1>3. Excused(n, b) => Excused(n, b)'
  BY <1>2 DEF Excused, RewardFits
<1> QED
  BY <1>1, <1>3

\* A new last block has no rivals yet.
LEMMA NewTipStands ==
  ASSUME IInv, Standing, NEW n \in Node, NEW b, NewTip(n, b), now' = now,
         NEW r, recent' = [recent EXCEPT ![n] = r] \/ recent' = recent, Timely'
  PROVE  Standing'
<1>1. /\ recent' = [k \in Node |-> recent'[k]] /\ offered' = [k \in Node |-> offered'[k]]
      /\ offered'[n] = {}
      /\ \A k \in Node \ {n} : /\ recent'[k] = recent[k] /\ offered'[k] = offered[k]
                               /\ chain'[k] = chain[k]
  BY DEF Standing, NewTip, IInv
<1>2. Stands(n)'
  BY <1>1 DEF Stands
<1>3. ASSUME NEW k \in Node \ {n} PROVE Stands(k)'
  <2>1. now' \in Nat /\ now' >= now
    BY DEF IInv
  <2> QED
    BY <1>1, <2>1, StandsStill DEF Standing
<1> QED
  BY <1>1, <1>2, <1>3 DEF Standing

\* Nothing happens to the nodes.
LEMMA NodesStand ==
  ASSUME IInv, Standing, UNCHANGED <<chain, recent, offered>>, now' \in Nat, now' >= now, Timely'
  PROVE  Standing'
<1>1. ASSUME NEW k \in Node PROVE Stands(k)'
  BY StandsStill DEF Standing
<1> QED
  BY <1>1 DEF Standing

\* What a node has processed it may tell to others.
LEMMA BroadcastTimely ==
  ASSUME IInv, Timely, now' = now, NEW n \in Node, NEW own, NEW b, ProcessBlock(own, b),
         NEW pending \in SUBSET posts, Broadcast(n, b, pending)
  PROVE  Timely'
  BY DEF Timely, Broadcast, ProcessBlock, VerifyBlockSlot

\* Of two blocks on one predecessor each beats the other, or one does.
LEMMA OneBeats ==
  ASSUME NEW b \in Block, b # <<>>, NEW c \in Block, c # <<>>
  PROVE  Beats(b, c) \/ Beats(c, b)
<1>1. Last(b) \in Header /\ Last(c) \in Header
  BY DEF Block, Last
<1>2. Last(b).id \in 1..3 /\ Last(c).id \in 1..3
  BY <1>1 DEF Header
<1> QED
  BY <1>2, SlotNat DEF Beats

\* A block that stands against another one
LEMMA DiscardStands ==
  ASSUME IInv, Standing, NEW n \in Node, NEW b \in Post, Discard(n, b)
  PROVE  Standing'
<1>1. /\ UNCHANGED <<now, chain, recent>> /\ posts' = posts \ {<<n, b>>} /\ <<n, b>> \in posts
      /\ offered' = [offered EXCEPT ![n] =
           @ \cup {x \in {b} : chain[n] # <<>> /\ IsForkFive(chain[n], x)}]
      /\ chain[n] # <<>> /\ IsForkFive(chain[n], b) =>
           ~(Beats(b, chain[n]) /\ VerifyReceipt(n, b))
  BY DEF Discard, Handled
<1>2. now \in Nat /\ Timely /\ Timely'
  BY <1>1 DEF IInv, Standing, Timely
<1>3. ASSUME NEW k \in Node \ {n} PROVE Stands(k)'
  BY <1>1, <1>2, StandsStill DEF Standing
<1>4. Stands(n)'
  <2>1. offered'[n] = offered[n] \cup {x \in {b} : chain[n] # <<>> /\ IsForkFive(chain[n], x)}
    BY <1>1 DEF Standing
  <2>2. ASSUME NEW c \in offered[n]
        PROVE  /\ c \in Post /\ chain[n] # <<>> /\ IsForkFive(chain[n], c)
               /\ Beats(c, chain[n]) => Excused(n, c)
    BY DEF Standing, Stands
  <2>3. ASSUME chain[n] # <<>>, IsForkFive(chain[n], b), Beats(b, chain[n]) PROVE Excused(n, b)
    <3>1. ~VerifyReceipt(n, b) /\ Slot(b) <= now
      BY <1>1, <1>2, <2>3 DEF Timely
    <3>2. Slot(b) \in Nat /\ SlotWindow \in Nat
      BY PostIs, ForkChoiceAssumption
    <3> QED
      BY <1>2, <3>1, <3>2 DEF VerifyReceipt, Excused
  <2>4. ASSUME NEW c, Excused(n, c) PROVE Excused(n, c)'
    BY <1>1, <2>4 DEF Excused, RewardFits
  <2> QED
    BY <1>1, <2>1, <2>2, <2>3, <2>4 DEF Stands
<1>5. recent' = [k \in Node |-> recent'[k]] /\ offered' = [k \in Node |-> offered'[k]]
  BY <1>1 DEF Standing
<1> QED
  BY <1>2, <1>3, <1>4, <1>5 DEF Standing

LEMMA ReceiveStands ==
  ASSUME IInv, Standing, NEW n \in Node, Receive(n)
  PROVE  Standing'
<1>1. PICK b \in Post :
        /\ <<n, b>> \in posts
        /\ \/ ReceiveBlock(n, b) \/ RefuseBlock(n, b)
           \/ ReceiveForkOne(n, b) \/ ReceiveForkFive(n, b)
           \/ Discard(n, b)
  BY DEF Receive, IInv
<1>2. Handled(n, b) \in SUBSET posts /\ Timely
  BY DEF Handled, Standing
<1>3. CASE ReceiveBlock(n, b)
  <2>1. /\ ProcessBlock(chain[n], b) /\ NewTip(n, b) /\ Broadcast(n, b, Handled(n, b))
        /\ now' = now /\ recent' = [recent EXCEPT ![n] = Remember(recent[n], b)]
    BY <1>3 DEF ReceiveBlock
  <2>2. Timely'
    BY <1>2, <2>1, BroadcastTimely
  <2> QED
    BY <2>1, <2>2, NewTipStands
<1>4. CASE ReceiveForkOne(n, b)
  <2> DEFINE tip == IF Len(chain[n]) = 1 THEN <<>> ELSE Parent(Parent(chain[n]))
  <2>1. /\ NewTip(n, tip) /\ posts' = Handled(n, b) /\ now' = now /\ recent' = recent
    BY <1>4 DEF ReceiveForkOne
  <2>2. Timely'
    BY <1>2, <2>1 DEF Timely
  <2> HIDE DEF tip
  <2> QED
    BY <2>1, <2>2, NewTipStands
<1>5. CASE ReceiveForkFive(n, b)
  <2>1. CASE ProcessBlock(Parent(chain[n]), b)
    <3>1. /\ NewTip(n, b) /\ Broadcast(n, b, Handled(n, b))
          /\ now' = now /\ recent' = [recent EXCEPT ![n] = Remember(recent[n], b)]
      BY <1>5, <2>1 DEF ReceiveForkFive
    <3>2. Timely'
      BY <1>2, <2>1, <3>1, BroadcastTimely
    <3> QED
      BY <3>1, <3>2, NewTipStands
  <2>2. CASE ~ProcessBlock(Parent(chain[n]), b)
    <3>1. /\ NewTip(n, Parent(chain[n])) /\ posts' = Handled(n, b)
          /\ now' = now /\ recent' = recent
      BY <1>5, <2>2 DEF ReceiveForkFive
    <3>2. Timely'
      BY <1>2, <3>1 DEF Timely
    <3> QED
      BY <3>1, <3>2, NewTipStands
  <2> QED
    BY <2>1, <2>2
<1>6. CASE Discard(n, b)
  BY <1>6, DiscardStands
<1>7. CASE RefuseBlock(n, b)
  <2>1. UNCHANGED <<now, chain, recent, offered>> /\ posts' = Handled(n, b)
    BY <1>7 DEF RefuseBlock
  <2>2. Timely'
    BY <1>2, <2>1 DEF Timely
  <2> QED
    BY <2>1, <2>2, NodesStand DEF IInv
<1> QED
  BY <1>1, <1>3, <1>4, <1>5, <1>6, <1>7

LEMMA ForgeStands ==
  ASSUME IInv, Standing, NEW n \in Node, ForgeStep(n)
  PROVE  Standing'
<1>1. CASE SkipSlot(n)
  <2>1. UNCHANGED <<now, chain, recent, offered, posts>>
    BY <1>1 DEF SkipSlot
  <2> QED
    BY <2>1, NodesStand DEF Standing, Timely, IInv
<1>2. ASSUME NEW id \in 1..3, Forge(n, id) PROVE Standing'
  <2> DEFINE header == [slot |-> forging[n], generator |-> Leader(forging[n], Height(chain[n]) + 1),
                        id |-> id]
             b == Append(chain[n], header)
  <2>1. /\ ProcessBlock(chain[n], b) /\ NewTip(n, b) /\ Broadcast(n, b, posts) /\ now' = now
        /\ recent' = [recent EXCEPT ![n] = Remember(recent[n], b)]
    BY <1>2 DEF Forge
  <2> HIDE DEF b
  <2>2. Timely'
    BY <2>1, BroadcastTimely DEF Standing
  <2> QED
    BY <2>1, <2>2, NewTipStands
<1> QED
  BY <1>1, <1>2 DEF ForgeStep

LEMMA RestartStands ==
  ASSUME IInv, Standing, NEW n \in Node, Restart(n)
  PROVE  Standing'
<1> DEFINE r == [i \in 1..Min({SlotWindow, Len(chain[n])}) |->
                   SubSeq(chain[n], 1, Len(chain[n]) + 1 - i)]
<1>1. /\ UNCHANGED <<now, chain>> /\ posts' \subseteq posts
      /\ recent' = [recent EXCEPT ![n] = r] /\ offered' = [offered EXCEPT ![n] = {}]
  BY DEF Restart
<1> HIDE DEF r
<1>2. /\ NewTip(n, chain[n]) /\ now' = now /\ Timely'
  BY <1>1 DEF NewTip, IInv, Standing, Timely
<1> QED
  BY <1>1, <1>2, NewTipStands

LEMMA InitStands == Init => Standing
  BY DEF Init, Standing, Timely, Stands

LEMMA NextStands == IInv /\ Standing /\ [Next]_vars => Standing'
<1> SUFFICES ASSUME IInv, Standing, [Next]_vars PROVE Standing'
  OBVIOUS
<1>1. CASE NextSlot
  <2>1. UNCHANGED <<chain, recent, offered, posts>> /\ now' = now + 1 /\ now \in Nat
    BY <1>1 DEF NextSlot, IInv
  <2>2. Timely'
    BY <2>1, PostIs DEF Standing, Timely, IInv
  <2> QED
    BY <2>1, <2>2, NodesStand
<1>2. ASSUME NEW n \in Node, StartForge(n) PROVE Standing'
  <2>1. UNCHANGED <<now, chain, recent, offered, posts>>
    BY <1>2 DEF StartForge
  <2> QED
    BY <2>1, NodesStand DEF Standing, Timely, IInv
<1>3. ASSUME NEW n \in Node, ForgeStep(n) PROVE Standing'
  BY <1>3, ForgeStands
<1>4. ASSUME NEW n \in Node, Receive(n) PROVE Standing'
  BY <1>4, ReceiveStands
<1>5. ASSUME NEW n \in Node, Restart(n) PROVE Standing'
  BY <1>5, RestartStands
<1>6. ASSUME NEW n \in Node, NEW m \in Node, Sync(n, m) PROVE Standing'
  <2> DEFINE answer == Answer(m, chain[n])
  <2>1. /\ NewTip(n, Last(answer)) /\ UNCHANGED <<now, posts>>
        /\ recent' = [recent EXCEPT ![n] = FoldLeft(Remember, recent[n], answer)]
    BY <1>6 DEF Sync
  <2>2. Timely'
    BY <2>1 DEF Standing, Timely
  <2> HIDE DEF answer
  <2> QED
    BY <2>1, <2>2, NewTipStands
<1>7. ASSUME NEW n \in Node, NEW slot \in 1..MaxSlot, Stray(n, slot) PROVE Standing'
  <2>1. PICK own \in Block : posts' = posts \cup {<<n, Strange(own, slot)>>}
    BY <1>7, StrayParent
  <2>2. UNCHANGED <<now, chain, recent, offered>> /\ slot <= now
    BY <1>7 DEF Stray
  <2>3. Slot(Strange(own, slot)) = slot
    BY StrangeBlock
  <2>4. Timely'
    BY <2>1, <2>2, <2>3 DEF Standing, Timely
  <2> QED
    BY <2>2, <2>4, NodesStand DEF IInv
<1>8. CASE UNCHANGED vars
  <2>1. UNCHANGED <<now, chain, recent, offered, posts>>
    BY <1>8 DEF vars
  <2> QED
    BY <2>1, NodesStand DEF Standing, Timely, IInv
<1> QED
  BY <1>1, <1>2, <1>3, <1>4, <1>5, <1>6, <1>7, <1>8, ForkChoiceAssumption DEF Next

(***************************************************************************)
(* In every behaviour, of any nodes, two last blocks on one predecessor    *)
(* that both nodes have been sent do not both stand: receiveForkFive of    *)
(* one of them takes the other, but for the three refusals of              *)
(* verifyReceipt.                                                          *)
(***************************************************************************)
THEOREM OneGivesWay == Spec => []SiblingsSettle
<1>1. IInv /\ Standing => SiblingsSettle
  <2> SUFFICES ASSUME IInv, Standing, NEW n \in Node, NEW m \in Node,
                      chain[n] # <<>>, IsForkFive(chain[n], chain[m]),
                      chain[m] \in offered[n], chain[n] \in offered[m]
               PROVE  Excused(n, chain[m]) \/ Excused(m, chain[n])
    BY DEF SiblingsSettle
  <2>1. chain[n] \in Block /\ chain[m] \in Block /\ chain[m] # <<>>
    BY DEF IInv, Standing, Stands
  <2> QED
    BY <2>1, OneBeats DEF Standing, Stands
<1> QED
  BY <1>1, InitIInv, InitStands, NextKeeps, NextStands, PTL DEF Spec
-----------------------------------------------------------------------------
(* Recursion over the subsets of a finite set                              *)

\* Of some subsets of a finite set one contains no other.
LEMMA SmallestSet ==
  ASSUME NEW S, IsFiniteSet(S), NEW T \in SUBSET (SUBSET S), T # {}
  PROVE  \E s \in T : \A r \in T : r \subseteq s => r = s
<1> DEFINE R == StrictSubsetOrdering(S)
<1>1. IsWellFoundedOn(R, FiniteSubsetsOf(S))
  BY FS_StrictSubsetOrderingWellFounded
<1>2. T \subseteq FiniteSubsetsOf(S)
  BY FS_Subset DEF FiniteSubsetsOf
<1> HIDE DEF R
<1>3. PICK s \in T : \A r \in T : <<r, s>> \notin R
  BY <1>1, <1>2, WFMin
<1>4. ASSUME NEW r \in T, r \subseteq s, r # s PROVE FALSE
  <2>1. <<r, s>> \in (SUBSET S) \X (SUBSET S)
    BY <1>4
  <2>2. <<r, s>> \in R
    BY <1>4, <2>1 DEF R, StrictSubsetOrdering
  <2> QED
    BY <1>3, <2>2
<1> QED
  BY <1>4

(* Recursion over the subsets of a finite set: one element, c[s], is taken *)
(* out of s, and step joins it to the value of the rest.                   *)
Recurs(g, S, c, base, step) ==
  \A s \in SUBSET S : g[s] = IF s = {} THEN base ELSE step[<<c[s], g[s \ {c[s]}]>>]

\* Two such tables agree where both have a value.
LEMMA RecursionUnique ==
  ASSUME NEW S, IsFiniteSet(S), NEW c, \A s \in SUBSET S : s # {} => c[s] \in s,
         NEW base, NEW step, NEW U \in SUBSET S, NEW W \in SUBSET S, NEW g, NEW h,
         Recurs(g, U, c, base, step), Recurs(h, W, c, base, step)
  PROVE  \A s \in SUBSET (U \cap W) : g[s] = h[s]
<1> DEFINE T == {s \in SUBSET (U \cap W) : g[s] # h[s]}
<1> SUFFICES ASSUME T # {} PROVE FALSE
  OBVIOUS
<1>1. T \in SUBSET (SUBSET S)
  OBVIOUS
<1> HIDE DEF T
<1>2. PICK s \in T : \A r \in T : r \subseteq s => r = s
  BY <1>1, SmallestSet
<1>3. s \in SUBSET U /\ s \in SUBSET W /\ g[s] # h[s]
  BY DEF T
<1>4. s # {}
  BY <1>3 DEF Recurs
<1>5. c[s] \in s
  BY <1>3, <1>4
<1>6. s \ {c[s]} \notin T
  BY <1>2, <1>5
<1>7. g[s \ {c[s]}] = h[s \ {c[s]}]
  BY <1>6, <1>3 DEF T
<1>8. g[s] = step[<<c[s], g[s \ {c[s]}]>>] /\ h[s] = step[<<c[s], h[s \ {c[s]}]>>]
  BY <1>3, <1>4 DEF Recurs
<1> QED
  BY <1>3, <1>7, <1>8

\* There is such a table: the one that takes each smaller set from its own.
LEMMA RecursionExists ==
  ASSUME NEW S, IsFiniteSet(S), NEW c, \A s \in SUBSET S : s # {} => c[s] \in s,
         NEW V, NEW base \in V, NEW step, \A x \in S, v \in V : step[<<x, v>>] \in V
  PROVE  \E g \in [SUBSET S -> V] : Recurs(g, S, c, base, step)
<1> DEFINE Has(U) == \E g \in [SUBSET U -> V] : Recurs(g, U, c, base, step)
           T == {U \in SUBSET S : ~Has(U)}
<1> SUFFICES ASSUME T # {} PROVE FALSE
  OBVIOUS
<1>1. T \in SUBSET (SUBSET S)
  OBVIOUS
<1> HIDE DEF T
<1>2. PICK U \in T : \A r \in T : r \subseteq U => r = U
  BY <1>1, SmallestSet
<1>3. U \in SUBSET S /\ ~Has(U) /\ \A r \in SUBSET U : r # U => Has(r)
  BY <1>2 DEF T
<1> DEFINE of == [r \in SUBSET U |->
                    CHOOSE g \in [SUBSET r -> V] : Recurs(g, r, c, base, step)]
<1>4. \A r \in SUBSET U : r # U =>
        of[r] \in [SUBSET r -> V] /\ Recurs(of[r], r, c, base, step)
  BY <1>3
<1> HIDE DEF of, Has
<1>a. ASSUME NEW r \in SUBSET U, r # U PROVE of[r][r] \in V
  <2>1. of[r] \in [SUBSET r -> V] /\ r \in SUBSET r
    BY <1>a, <1>4
  <2> QED
    BY <2>1
<1>5. \A r \in SUBSET U, s \in SUBSET U :
         r # U /\ s \subseteq r => of[s][s] = of[r][s]
  <2> SUFFICES ASSUME NEW r \in SUBSET U, NEW s \in SUBSET U, r # U, s \subseteq r
               PROVE  of[s][s] = of[r][s]
    OBVIOUS
  <2>1. s # U /\ r \in SUBSET S /\ s \in SUBSET S
    BY <1>3
  <2>2. Recurs(of[r], r, c, base, step) /\ Recurs(of[s], s, c, base, step)
    BY <1>4, <2>1
  <2>3. \A t \in SUBSET (s \cap r) : of[s][t] = of[r][t]
    BY <2>1, <2>2, RecursionUnique
  <2> QED
    BY <2>3
<1> DEFINE value == [s \in SUBSET U |->
                       IF s # U THEN of[s][s]
                       ELSE IF s = {} THEN base
                       ELSE step[<<c[s], of[s \ {c[s]}][s \ {c[s]}]>>]]
<1>6. \A s \in SUBSET U : s # {} => c[s] \in s /\ s \ {c[s]} # U /\ s \ {c[s]} \in SUBSET U
  BY <1>3
<1>7. ASSUME NEW s \in SUBSET U PROVE value[s] \in V
  <2>1. CASE s # U
    BY <2>1, <1>a
  <2>2. CASE s = U /\ s = {}
    BY <2>2
  <2>3. CASE s = U /\ s # {}
    <3>1. of[s \ {c[s]}][s \ {c[s]}] \in V /\ c[s] \in S
      BY <2>3, <1>a, <1>6, <1>3
    <3> QED
      BY <3>1, <2>3
  <2> QED
    BY <2>1, <2>2, <2>3
<1>8. ASSUME NEW s \in SUBSET U
      PROVE  value[s] = IF s = {} THEN base ELSE step[<<c[s], value[s \ {c[s]}]>>]
  <2>1. CASE s # U /\ s = {}
    BY <2>1, <1>4 DEF Recurs
  <2>2. CASE s # U /\ s # {}
    <3>1. value[s] = of[s][s] /\ value[s \ {c[s]}] = of[s \ {c[s]}][s \ {c[s]}]
      BY <2>2, <1>6
    <3>2. of[s][s] = step[<<c[s], of[s][s \ {c[s]}]>>]
      BY <2>2, <1>4 DEF Recurs
    <3>3. of[s \ {c[s]}][s \ {c[s]}] = of[s][s \ {c[s]}]
      BY <2>2, <1>5, <1>6
    <3> QED
      BY <2>2, <3>1, <3>2, <3>3
  <2>3. CASE s = U /\ s = {}
    BY <2>3
  <2>4. CASE s = U /\ s # {}
    <3>1. value[s \ {c[s]}] = of[s \ {c[s]}][s \ {c[s]}]
      BY <2>4, <1>6
    <3> QED
      BY <2>4, <3>1
  <2> QED
    BY <2>1, <2>2, <2>3, <2>4
<1> HIDE DEF value
<1>9. value \in [SUBSET U -> V]
  BY <1>7 DEF value
<1>10. Recurs(value, U, c, base, step)
  BY <1>8 DEF Recurs
<1> QED
  BY <1>3, <1>9, <1>10 DEF Has

-----------------------------------------------------------------------------
(* Sums over finite sets, as MapThenSumSet takes them: of f over S         *)

AnyOf(s) == CHOOSE x \in s : TRUE

SumTable(g, f, S) ==
  g = [s \in SUBSET S |-> IF s = {} THEN 0 ELSE f[AnyOf(s)] + g[s \ {AnyOf(s)}]]

SumOf(f, S) == (CHOOSE g : SumTable(g, f, S))[S]

\* A table of sums is what MapThenFoldSet chooses; two of them agree.
LEMMA SumTableUnique ==
  ASSUME NEW S, IsFiniteSet(S), NEW f, NEW U \in SUBSET S, NEW W \in SUBSET S,
         NEW g, NEW h, SumTable(g, f, U), SumTable(h, f, W)
  PROVE  \A s \in SUBSET (U \cap W) : g[s] = h[s]
<1> DEFINE T == {s \in SUBSET (U \cap W) : g[s] # h[s]}
<1> SUFFICES ASSUME T # {} PROVE FALSE
  OBVIOUS
<1>1. T \in SUBSET (SUBSET S)
  OBVIOUS
<1> HIDE DEF T
<1>2. PICK s \in T : \A r \in T : r \subseteq s => r = s
  BY <1>1, SmallestSet
<1>3. s \in SUBSET U /\ s \in SUBSET W /\ g[s] # h[s]
  BY DEF T
<1>4. s # {}
  BY <1>3 DEF SumTable
<1>5. AnyOf(s) \in s
  BY <1>4 DEF AnyOf
<1>6. s \ {AnyOf(s)} \notin T
  BY <1>2, <1>5
<1>7. g[s \ {AnyOf(s)}] = h[s \ {AnyOf(s)}]
  BY <1>6, <1>3 DEF T
<1>8. /\ g[s] = f[AnyOf(s)] + g[s \ {AnyOf(s)}]
      /\ h[s] = f[AnyOf(s)] + h[s \ {AnyOf(s)}]
  BY <1>3, <1>4 DEF SumTable
<1> QED
  BY <1>3, <1>7, <1>8

\* And there is one.
LEMMA SumTableExists ==
  ASSUME NEW S, IsFiniteSet(S), NEW f, \A x \in S : f[x] \in Int
  PROVE  \E g \in [SUBSET S -> Int] : SumTable(g, f, S)
<1> DEFINE c == [s \in SUBSET S |-> AnyOf(s)]
           step == [p \in S \X Int |-> f[p[1]] + p[2]]
<1>1. \A s \in SUBSET S : s # {} => c[s] \in s
  BY DEF AnyOf
<1>2. \A x \in S, v \in Int : step[<<x, v>>] = f[x] + v
  OBVIOUS
<1>3. \A s \in SUBSET S : c[s] = AnyOf(s)
  OBVIOUS
<1> HIDE DEF c, step
<1>4. ASSUME NEW x \in S, NEW v \in Int PROVE step[<<x, v>>] \in Int
  <2>1. step[<<x, v>>] = f[x] + v
    BY <1>2
  <2>2. f[x] + v \in Int
    OBVIOUS
  <2> QED
    BY <2>1, <2>2
<1>5. PICK g \in [SUBSET S -> Int] : Recurs(g, S, c, 0, step)
  <2>1. 0 \in Int
    OBVIOUS
  <2> QED
    BY <1>1, <1>4, <2>1, RecursionExists, Zenon
<1>6. ASSUME NEW s \in SUBSET S, s # {} PROVE g[s] = f[AnyOf(s)] + g[s \ {AnyOf(s)}]
  <2>1. c[s] \in S /\ s \ {c[s]} \in SUBSET S
    BY <1>1, <1>6
  <2>2. g[s \ {c[s]}] \in Int
    BY <2>1
  <2>3. step[<<c[s], g[s \ {c[s]}]>>] = f[c[s]] + g[s \ {c[s]}]
    BY <2>1, <2>2, <1>2
  <2> QED
    BY <1>5, <1>6, <2>3, <1>3 DEF Recurs
<1>7. g[{}] = 0
  BY <1>5 DEF Recurs
<1> QED
  BY <1>6, <1>7 DEF SumTable

\* What is known of a sum without its table.
LEMMA SumFirst ==
  ASSUME NEW S, IsFiniteSet(S), NEW f, \A x \in S : f[x] \in Int
  PROVE  /\ SumOf(f, S) \in Int
         /\ S = {} => SumOf(f, S) = 0
         /\ S # {} => SumOf(f, S) = f[AnyOf(S)] + SumOf(f, S \ {AnyOf(S)})
<1> DEFINE Table(U) == CHOOSE g : SumTable(g, f, U)
<1>1. ASSUME NEW U \in SUBSET S
      PROVE  SumTable(Table(U), f, U)
  <2>1. IsFiniteSet(U) /\ \A x \in U : f[x] \in Int
    BY FS_Subset
  <2>2. \E g : SumTable(g, f, U)
    BY <2>1, SumTableExists
  <2> QED
    BY <2>2
<1>2. SumOf(f, S) = Table(S)[S]
  BY DEF SumOf
<1>3. SumOf(f, S \ {AnyOf(S)}) = Table(S \ {AnyOf(S)})[S \ {AnyOf(S)}]
  BY DEF SumOf
<1>4. Table(S)[S \ {AnyOf(S)}] = Table(S \ {AnyOf(S)})[S \ {AnyOf(S)}]
  <2>1. S \ {AnyOf(S)} \in SUBSET S /\ S \in SUBSET S
    OBVIOUS
  <2>2. SumTable(Table(S), f, S) /\ SumTable(Table(S \ {AnyOf(S)}), f, S \ {AnyOf(S)})
    BY <1>1, <2>1
  <2> HIDE DEF Table
  <2>3. \A s \in SUBSET (S \cap (S \ {AnyOf(S)})) :
          Table(S)[s] = Table(S \ {AnyOf(S)})[s]
    BY <2>1, <2>2, SumTableUnique
  <2> QED
    BY <2>3
<1>5. PICK h \in [SUBSET S -> Int] : SumTable(h, f, S)
  BY SumTableExists
<1>6. SumTable(Table(S), f, S)
  BY <1>1
<1> HIDE DEF Table
<1>7. Table(S)[S] = h[S]
  <2>1. S \in SUBSET S /\ S \in SUBSET (S \cap S)
    OBVIOUS
  <2>2. \A s \in SUBSET (S \cap S) : Table(S)[s] = h[s]
    BY <1>5, <1>6, <2>1, SumTableUnique
  <2> QED
    BY <2>1, <2>2
<1>8. h[S] \in Int
  <2>1. S \in SUBSET S
    OBVIOUS
  <2> QED
    BY <2>1
<1>9. Table(S)[S] = IF S = {} THEN 0 ELSE f[AnyOf(S)] + Table(S)[S \ {AnyOf(S)}]
  BY <1>6 DEF SumTable
<1> QED
  BY <1>2, <1>3, <1>4, <1>7, <1>8, <1>9

\* Any member may be taken out first.
LEMMA SumRemove ==
  ASSUME NEW S, IsFiniteSet(S), NEW f, \A x \in S : f[x] \in Int
  PROVE  \A x \in S : SumOf(f, S) = f[x] + SumOf(f, S \ {x})
<1> DEFINE T == {U \in SUBSET S : \E x \in U : SumOf(f, U) # f[x] + SumOf(f, U \ {x})}
<1> SUFFICES ASSUME T # {} PROVE FALSE
  OBVIOUS
<1>1. T \in SUBSET (SUBSET S)
  OBVIOUS
<1>2. \A U \in (SUBSET S) \ T : \A x \in U : SumOf(f, U) = f[x] + SumOf(f, U \ {x})
  OBVIOUS
<1>3. \A U \in T : \E x \in U : SumOf(f, U) # f[x] + SumOf(f, U \ {x})
  OBVIOUS
<1> HIDE DEF T
<1>4. PICK U \in T : \A r \in T : r \subseteq U => r = U
  BY <1>1, SmallestSet
<1>5. PICK x \in U : SumOf(f, U) # f[x] + SumOf(f, U \ {x})
  BY <1>3
<1>6. U \in SUBSET S
  BY <1>1
<1>7. \A W \in SUBSET U : IsFiniteSet(W) /\ (\A y \in W : f[y] \in Int)
  BY <1>6, FS_Subset
<1>8. \A W \in SUBSET U : SumOf(f, W) \in Int
  BY <1>7, SumFirst
<1>9. PICK c : c = AnyOf(U)
  OBVIOUS
<1>10. c \in U /\ SumOf(f, U) = f[c] + SumOf(f, U \ {c})
  BY <1>5, <1>7, <1>9, SumFirst DEF AnyOf
<1>11. c # x
  BY <1>5, <1>10
<1>12. U \ {c} \notin T /\ U \ {x} \notin T
  BY <1>4, <1>5, <1>10
<1>13. /\ U \ {c} \in SUBSET S /\ U \ {x} \in SUBSET S
       /\ x \in U \ {c} /\ c \in U \ {x}
  BY <1>6, <1>5, <1>10, <1>11
<1>14. /\ SumOf(f, U \ {c}) = f[x] + SumOf(f, (U \ {c}) \ {x})
       /\ SumOf(f, U \ {x}) = f[c] + SumOf(f, (U \ {x}) \ {c})
  BY <1>2, <1>12, <1>13
<1>15. (U \ {c}) \ {x} = (U \ {x}) \ {c} /\ (U \ {c}) \ {x} \in SUBSET U
  OBVIOUS
<1>16. PICK r \in Int : r = SumOf(f, (U \ {c}) \ {x})
  BY <1>8, <1>15
<1>17. PICK fc \in Int, fx \in Int : fc = f[c] /\ fx = f[x]
  BY <1>6, <1>10
<1>18. SumOf(f, U) = fc + (fx + r)
  BY <1>10, <1>14, <1>16, <1>17
<1>19. f[x] + SumOf(f, U \ {x}) = fx + (fc + r)
  BY <1>14, <1>15, <1>16, <1>17
<1> QED
  BY <1>5, <1>18, <1>19
\* The last of some positions, which FoldLeft takes first.
LEMMA MaxExists ==
  ASSUME NEW n \in Nat, NEW S \in SUBSET (1..n), S # {}
  PROVE  Max(S) \in S /\ \A y \in S : Max(S) >= y
<1> DEFINE AtLeast(y) == {x \in S : x >= y}
           T == {AtLeast(y) : y \in S}
<1>1. IsFiniteSet(S)
  <2>1. PICK N : N = 1..n
    OBVIOUS
  <2>2. IsFiniteSet(N)
    BY <2>1, FS_Interval
  <2>3. S \in SUBSET N
    BY <2>1
  <2> QED
    BY <2>2, <2>3, FS_Subset
<1>2. T \in SUBSET (SUBSET S) /\ T # {}
  OBVIOUS
<1>3. \A r \in T : \E y \in S : r = AtLeast(y)
  OBVIOUS
<1>4. \A y \in S : AtLeast(y) \in T
  OBVIOUS
<1> HIDE DEF T
<1>5. PICK s \in T : \A r \in T : r \subseteq s => r = s
  <2>1. PICK N : N = S
    OBVIOUS
  <2>2. IsFiniteSet(N) /\ T \in SUBSET (SUBSET N) /\ T # {}
    BY <1>1, <1>2, <2>1
  <2> QED
    BY <2>2, SmallestSet
<1>6. PICK y \in S : s = AtLeast(y)
  BY <1>3
<1>7. ASSUME NEW z \in S, ~(y >= z) PROVE FALSE
  <2>1. AtLeast(z) \in T
    BY <1>4
  <2>2. y \in s /\ y \notin AtLeast(z)
    BY <1>6, <1>7
  <2>3. AtLeast(z) \subseteq s
    <3>1. \A x \in S : x \in Int
      OBVIOUS
    <3>2. ASSUME NEW x \in S, x >= z PROVE x >= y
      BY <3>1, <3>2, <1>7
    <3> QED
      BY <3>2, <1>6
  <2> QED
    BY <2>1, <2>2, <2>3, <1>5
<1>8. y \in S /\ \A z \in S : y >= z
  BY <1>7
<1> QED
  BY <1>8 DEF Max

-----------------------------------------------------------------------------
(* What holds of 0, and of each number up to n with the one before, is true of n. *)
LEMMA UpTo ==
  ASSUME NEW n \in Nat, NEW S, 0 \in S, \A k \in 0..n - 1 : k \in S => k + 1 \in S
  PROVE  n \in S
<1> SUFFICES ASSUME n \notin S PROVE FALSE
  OBVIOUS
<1> DEFINE T == {0..k : k \in {i \in 0..n : i \notin S}}
<1>1. PICK N : N = 0..n
  OBVIOUS
<1>2. T \in SUBSET (SUBSET N) /\ T # {}
  BY <1>1
<1>3. \A k \in 0..n : k \notin S => 0..k \in T
  OBVIOUS
<1>4. \A s \in T : \E k \in 0..n : s = 0..k /\ k \notin S
  OBVIOUS
<1>5. IsFiniteSet(N)
  BY <1>1, FS_Interval
<1> HIDE DEF T
<1>6. PICK s \in T : \A r \in T : r \subseteq s => r = s
  BY <1>2, <1>5, SmallestSet
<1>7. PICK k \in 0..n : s = 0..k /\ k \notin S
  BY <1>4
<1>8. k - 1 \in 0..n - 1 /\ k - 1 \notin S /\ k - 1 \in 0..n
  BY <1>7
<1>9. 0..k - 1 \in T
  BY <1>3, <1>8
<1>10. 0..k - 1 \subseteq s /\ k \in s /\ k \notin 0..k - 1
  BY <1>7
<1> QED
  BY <1>6, <1>9, <1>10

\* Sums over the first numbers
LEMMA SumUpTo ==
  ASSUME NEW n \in Nat, NEW f, \A i \in 1..n + 1 : f[i] \in Int
  PROVE  /\ SumOf(f, 1..n) \in Int
         /\ SumOf(f, 1..n + 1) = SumOf(f, 1..n) + f[n + 1]
         /\ SumOf(f, 1..0) = 0
<1>1. PICK N : N = 1..n + 1
  OBVIOUS
<1>2. PICK M : M = 1..n
  OBVIOUS
<1>3. IsFiniteSet(N) /\ IsFiniteSet(M)
  BY <1>1, <1>2, FS_Interval
<1>4. N \ {n + 1} = M /\ n + 1 \in N
  BY <1>1, <1>2
<1>5. SumOf(f, N) = f[n + 1] + SumOf(f, M)
  BY <1>1, <1>3, <1>4, SumRemove
<1>6. SumOf(f, M) \in Int
  <2>1. \A i \in M : f[i] \in Int
    BY <1>2
  <2> QED
    BY <1>3, <2>1, SumFirst
<1>7. SumOf(f, {}) = 0
  BY FS_EmptySet, SumFirst
<1>8. 1..0 = {} /\ f[n + 1] \in Int
  OBVIOUS
<1> QED
  BY <1>1, <1>2, <1>5, <1>6, <1>7, <1>8

-----------------------------------------------------------------------------
(***************************************************************************)
(* The supply.  Between two milestones it grows by the reward of the one;  *)
(* where a milestone begins the heights of the one before are over, and    *)
(* the heights of all that are over are those before it.                   *)
(***************************************************************************)
Begins(i) == Rewards[i].height
Pays(i) == Rewards[i].reward
Heights == [i \in 1..Len(Rewards) - 1 |-> Begins(i + 1) - Begins(i)]
Paid == [i \in 1..Len(Rewards) - 1 |-> Heights[i] * Pays(i)]
RewardAt == [h \in Nat |-> CalcReward(h)]

LEMMA RewardsAre ==
  /\ Len(Rewards) \in Nat \ {0} /\ DOMAIN Rewards = 1..Len(Rewards)
  /\ Begins(1) = 1
  /\ \A i \in DOMAIN Rewards : Begins(i) \in Nat /\ Pays(i) \in Nat
  /\ \A i, j \in DOMAIN Rewards : i < j => Begins(i) < Begins(j)
<1>1. Rewards \in Seq([height : Nat, reward : Nat]) /\ Rewards # <<>>
  BY ForkChoiceAssumption
<1>2. Len(Rewards) \in Nat \ {0} /\ DOMAIN Rewards = 1..Len(Rewards)
  BY <1>1
<1>3. \A i \in DOMAIN Rewards : Rewards[i] \in [height : Nat, reward : Nat]
  <2>1. ASSUME NEW S, NEW s \in Seq(S) PROVE \A i \in DOMAIN s : s[i] \in S
    OBVIOUS
  <2> QED
    BY <1>1, <2>1
<1>4. \A i \in DOMAIN Rewards : Begins(i) \in Nat /\ Pays(i) \in Nat
  BY <1>3 DEF Begins, Pays
<1> QED
  BY <1>2, <1>4, ForkChoiceAssumption DEF Begins

\* The milestone of a height is the last one that has begun.
LEMMA MilestoneIs ==
  ASSUME NEW h \in Nat \ {0}
  PROVE  /\ CalcMilestone(h) \in DOMAIN Rewards
         /\ Begins(CalcMilestone(h)) <= h
         /\ \A i \in DOMAIN Rewards : i > CalcMilestone(h) => Begins(i) > h
<1> DEFINE reached == {i \in DOMAIN Rewards : h >= Rewards[i].height}
<1>1. 1 \in reached /\ reached \in SUBSET (1..Len(Rewards)) /\ Len(Rewards) \in Nat
  BY RewardsAre DEF Begins
<1>2. CalcMilestone(h) = IF reached = {} THEN 1 ELSE CHOOSE i \in reached : \A j \in reached : j <= i
  BY DEF CalcMilestone
<1>3. \A i \in reached : i \in DOMAIN Rewards /\ Begins(i) <= h
  BY RewardsAre DEF Begins
<1>4. \A i \in DOMAIN Rewards : i \in reached \/ Begins(i) > h
  BY RewardsAre DEF Begins
<1> HIDE DEF reached
<1>5. \E i \in reached : \A j \in reached : j <= i
  <2>1. Max(reached) \in reached /\ \A j \in reached : Max(reached) >= j
    BY <1>1, MaxExists
  <2> QED
    BY <1>1, <2>1
<1>6. CalcMilestone(h) \in reached /\ \A j \in reached : j <= CalcMilestone(h)
  BY <1>1, <1>2, <1>5
<1>7. ASSUME NEW i \in DOMAIN Rewards, i > CalcMilestone(h) PROVE i \notin reached
  <2>1. i \in 1..Len(Rewards) /\ CalcMilestone(h) \in 1..Len(Rewards)
    BY <1>1, <1>6, RewardsAre
  <2> QED
    BY <1>6, <1>7, <2>1
<1> QED
  BY <1>3, <1>4, <1>6, <1>7

\* A height further it is the same one, or the next one begins.
LEMMA MilestoneNext ==
  ASSUME NEW h \in Nat \ {0}, NEW m, m = CalcMilestone(h)
  PROVE  \/ CalcMilestone(h + 1) = m
         \/ /\ m + 1 \in DOMAIN Rewards /\ Begins(m + 1) = h + 1
            /\ CalcMilestone(h + 1) = m + 1
<1>1. /\ m \in 1..Len(Rewards) /\ Len(Rewards) \in Nat /\ Begins(m) <= h
      /\ \A i \in 1..Len(Rewards) : i > m => Begins(i) > h
  BY MilestoneIs, RewardsAre
<1>2. PICK k : k = CalcMilestone(h + 1)
  OBVIOUS
<1>3. /\ k \in 1..Len(Rewards) /\ Begins(k) <= h + 1
      /\ \A i \in 1..Len(Rewards) : i > k => Begins(i) > h + 1
  <2>1. h + 1 \in Nat \ {0}
    OBVIOUS
  <2> QED
    BY <1>2, <2>1, MilestoneIs, RewardsAre
<1>4. \A i \in 1..Len(Rewards) : Begins(i) \in Nat
  BY RewardsAre
<1>5. k >= m
  BY <1>1, <1>3, <1>4
<1>6. ASSUME k # m PROVE k = m + 1 /\ Begins(k) = h + 1
  <2>1. m + 1 \in 1..Len(Rewards) /\ m + 1 <= k
    BY <1>1, <1>3, <1>5, <1>6
  <2>2. Begins(m + 1) > h /\ Begins(k) > h
    BY <1>1, <1>3, <2>1
  <2>3. m + 1 < k => Begins(m + 1) < Begins(k)
    BY <1>3, <2>1, RewardsAre
  <2> QED
    BY <1>1, <1>3, <1>4, <2>1, <2>2, <2>3
<1> QED
  BY <1>2, <1>3, <1>6, RewardsAre

LEMMA HeightsAre ==
  \A i \in 1..Len(Rewards) - 1 :
    /\ Heights[i] = Begins(i + 1) - Begins(i) /\ Heights[i] \in Int
    /\ Paid[i] = Heights[i] * Pays(i) /\ Paid[i] \in Int /\ Pays(i) \in Nat
<1> SUFFICES ASSUME NEW i \in 1..Len(Rewards) - 1
             PROVE  /\ Heights[i] = Begins(i + 1) - Begins(i) /\ Heights[i] \in Int
                    /\ Paid[i] = Heights[i] * Pays(i) /\ Paid[i] \in Int /\ Pays(i) \in Nat
  OBVIOUS
<1>1. i \in DOMAIN Rewards /\ i + 1 \in DOMAIN Rewards
  BY RewardsAre
<1>2. Begins(i) \in Int /\ Begins(i + 1) \in Int /\ Pays(i) \in Nat
  BY <1>1, RewardsAre
<1>3. Heights[i] = Begins(i + 1) - Begins(i) /\ Paid[i] = Heights[i] * Pays(i)
  BY DEF Heights, Paid
<1>4. Heights[i] \in Int
  BY <1>2, <1>3
<1>5. \A x \in Int, y \in Nat : x * y \in Int
  OBVIOUS
<1> QED
  BY <1>2, <1>3, <1>4, <1>5

\* All heights before a milestone are of the ones before.
LEMMA HeightsBefore ==
  ASSUME NEW m \in DOMAIN Rewards
  PROVE  SumOf(Heights, 1..m - 1) = Begins(m) - 1 /\ SumOf(Paid, 1..m - 1) \in Int
<1> DEFINE S == {k \in Nat : SumOf(Heights, 1..k) = Begins(k + 1) - 1
                             /\ SumOf(Paid, 1..k) \in Int}
<1>1. m - 1 \in Nat /\ m \in 1..Len(Rewards) /\ Len(Rewards) \in Nat
  BY RewardsAre
<1>2. 0 \in S
  <2>1. SumOf(Heights, {}) = 0 /\ SumOf(Paid, {}) = 0
    BY FS_EmptySet, SumFirst
  <2>2. 1..0 = {} /\ 0 + 1 = 1
    OBVIOUS
  <2> QED
    BY <2>1, <2>2, RewardsAre
<1>3. ASSUME NEW k \in 0..(m - 1) - 1, k \in S PROVE k + 1 \in S
  <2>1. k \in Nat /\ \A i \in 1..k + 1 : i \in 1..Len(Rewards) - 1
    BY <1>1
  <2>2. \A i \in 1..k + 1 : Heights[i] \in Int /\ Paid[i] \in Int
    BY <2>1, HeightsAre
  <2>3. SumOf(Heights, 1..k + 1) = SumOf(Heights, 1..k) + Heights[k + 1]
    BY <2>1, <2>2, SumUpTo
  <2>4. SumOf(Paid, 1..k + 1) = SumOf(Paid, 1..k) + Paid[k + 1]
    BY <2>1, <2>2, SumUpTo
  <2>5. k + 1 \in 1..k + 1
    BY <2>1
  <2>6. Heights[k + 1] = Begins((k + 1) + 1) - Begins(k + 1)
    BY <2>1, <2>5, HeightsAre
  <2>7. Begins(k + 1) \in Int /\ Begins((k + 1) + 1) \in Int
    <3>1. k + 1 \in DOMAIN Rewards /\ (k + 1) + 1 \in DOMAIN Rewards
      BY <1>1, RewardsAre
    <3> QED
      BY <3>1, RewardsAre
  <2>8. SumOf(Heights, 1..k) = Begins(k + 1) - 1 /\ SumOf(Paid, 1..k) \in Int
    BY <1>3
  <2>9. SumOf(Heights, 1..k + 1) = Begins((k + 1) + 1) - 1
    BY <2>3, <2>6, <2>7, <2>8
  <2>10. SumOf(Paid, 1..k + 1) \in Int
    BY <2>2, <2>4, <2>5, <2>8
  <2> QED
    BY <2>1, <2>9, <2>10
<1>4. m - 1 \in S
  <2> HIDE DEF S
  <2> QED
    BY <1>1, <1>2, <1>3, UpTo
<1>5. (m - 1) + 1 = m
  BY <1>1
<1> QED
  BY <1>4, <1>5

\* What CalcSupply adds up.
LEMMA SupplyIs ==
  ASSUME NEW h \in Nat \ {0}, NEW m, m = CalcMilestone(h)
  PROVE  CalcSupply(h) = TotalAmount + SumOf(Paid, 1..m - 1) + (h - (Begins(m) - 1)) * Pays(m)
<1>1. m \in 1..Len(Rewards) /\ Len(Rewards) \in Nat /\ m \in DOMAIN Rewards
  BY MilestoneIs, RewardsAre
<1> DEFINE U == 1..m - 1
           HeightTable(g) == g = [s \in SUBSET U |->
             IF s = {} THEN 0
             ELSE (Rewards[AnyOf(s) + 1].height - Rewards[AnyOf(s)].height) + g[s \ {AnyOf(s)}]]
           PaidTable(g) == g = [s \in SUBSET U |->
             IF s = {} THEN 0
             ELSE (Rewards[AnyOf(s) + 1].height - Rewards[AnyOf(s)].height) * Rewards[AnyOf(s)].reward
                    + g[s \ {AnyOf(s)}]]
<1>2. CalcSupply(h) = TotalAmount + (CHOOSE g : PaidTable(g))[U]
                        + (h - (CHOOSE g : HeightTable(g))[U]) * Rewards[m].reward
  BY DEF CalcSupply, MapThenSumSet, MapThenFoldSet, AnyOf
<1>3. \A s \in SUBSET U : s # {} =>
        /\ Heights[AnyOf(s)] = Rewards[AnyOf(s) + 1].height - Rewards[AnyOf(s)].height
        /\ Paid[AnyOf(s)] = (Rewards[AnyOf(s) + 1].height - Rewards[AnyOf(s)].height)
                              * Rewards[AnyOf(s)].reward
  <2>1. \A s \in SUBSET U : s # {} => AnyOf(s) \in 1..Len(Rewards) - 1
    <3>1. \A i \in U : i \in 1..Len(Rewards) - 1
      BY <1>1
    <3> HIDE DEF U
    <3> QED
      BY <3>1 DEF AnyOf
  <2> QED
    BY <2>1, HeightsAre DEF Begins, Pays
<1> HIDE DEF U
<1>4. \A g : HeightTable(g) <=> SumTable(g, Heights, U)
  BY <1>3 DEF SumTable
<1>5. \A g : PaidTable(g) <=> SumTable(g, Paid, U)
  BY <1>3 DEF SumTable
<1> HIDE DEF HeightTable, PaidTable
<1>6. /\ (CHOOSE g : HeightTable(g)) = (CHOOSE g : SumTable(g, Heights, U))
      /\ (CHOOSE g : PaidTable(g)) = (CHOOSE g : SumTable(g, Paid, U))
  BY <1>4, <1>5
<1>7. CalcSupply(h) = TotalAmount + SumOf(Paid, U) + (h - SumOf(Heights, U)) * Rewards[m].reward
  BY <1>2, <1>6 DEF SumOf
<1> QED
  BY <1>1, <1>7, HeightsBefore DEF U, Pays

LEMMA RewardsUpTo ==
  ASSUME NEW h \in Nat
  PROVE  MapThenSumSet(CalcReward, 1..h) = SumOf(RewardAt, 1..h)
<1> DEFINE U == 1..h
           Table(g) == g = [s \in SUBSET U |->
                              IF s = {} THEN 0 ELSE CalcReward(AnyOf(s)) + g[s \ {AnyOf(s)}]]
<1>1. MapThenSumSet(CalcReward, U) = (CHOOSE g : Table(g))[U]
  BY DEF MapThenSumSet, MapThenFoldSet, AnyOf
<1>2. \A g : Table(g) <=> SumTable(g, RewardAt, U)
  <2>1. \A k \in U : k \in Nat
    OBVIOUS
  <2> HIDE DEF U
  <2>2. ASSUME NEW s \in SUBSET U, s # {} PROVE CalcReward(AnyOf(s)) = RewardAt[AnyOf(s)]
    <3>1. AnyOf(s) \in Nat
      BY <2>1, <2>2 DEF AnyOf
    <3> QED
      BY <3>1 DEF RewardAt
  <2> QED
    BY <2>2 DEF SumTable
<1> HIDE DEF Table, U
<1>3. (CHOOSE g : Table(g)) = (CHOOSE g : SumTable(g, RewardAt, U))
  BY <1>2
<1> QED
  BY <1>1, <1>3 DEF SumOf, U

\* A height further the supply is more by the reward of that height.
LEMMA SupplyGrows ==
  ASSUME NEW h \in Nat \ {0}
  PROVE  CalcSupply(h + 1) = CalcSupply(h) + CalcReward(h + 1)
<1>1. PICK m : m = CalcMilestone(h)
  OBVIOUS
<1>2. m \in 1..Len(Rewards) /\ Len(Rewards) \in Nat /\ m \in DOMAIN Rewards
  BY <1>1, MilestoneIs, RewardsAre
<1>3. PICK before \in Int : before = SumOf(Paid, 1..m - 1)
  BY <1>2, HeightsBefore
<1>4. PICK begin \in Nat, pay \in Nat : begin = Begins(m) /\ pay = Pays(m)
  BY <1>2, RewardsAre
<1>5. CalcSupply(h) = TotalAmount + before + (h - (begin - 1)) * pay
  BY <1>1, <1>3, <1>4, SupplyIs
<1>6. TotalAmount \in Nat /\ h + 1 \in Nat \ {0}
  BY ForkChoiceAssumption
<1>7. CASE CalcMilestone(h + 1) = m
  <2>1. CalcSupply(h + 1) = TotalAmount + before + ((h + 1) - (begin - 1)) * pay
    BY <1>3, <1>4, <1>6, <1>7, SupplyIs
  <2>2. ((h + 1) - (begin - 1)) * pay = (h - (begin - 1)) * pay + pay
    OBVIOUS
  <2>3. CalcReward(h + 1) = pay
    BY <1>4, <1>7 DEF CalcReward, Pays
  <2>4. PICK x \in Int : x = (h - (begin - 1)) * pay
    OBVIOUS
  <2> QED
    BY <1>5, <1>6, <2>1, <2>2, <2>3, <2>4
<1>8. CASE /\ m + 1 \in DOMAIN Rewards /\ Begins(m + 1) = h + 1
           /\ CalcMilestone(h + 1) = m + 1
  <2>1. PICK new \in Nat : new = Pays(m + 1)
    BY <1>8, RewardsAre
  <2>2. CalcSupply(h + 1) = TotalAmount + SumOf(Paid, 1..(m + 1) - 1)
                              + ((h + 1) - ((h + 1) - 1)) * new
    BY <1>6, <1>8, <2>1, SupplyIs
  <2>3. ((h + 1) - ((h + 1) - 1)) * new = new
    OBVIOUS
  <2>4. SumOf(Paid, 1..(m + 1) - 1) = before + Paid[m]
    <3>1. m - 1 \in Nat /\ (m - 1) + 1 = m /\ (m + 1) - 1 = m /\ m \in 1..Len(Rewards) - 1
      BY <1>2, <1>8, RewardsAre
    <3>2. \A i \in 1..(m - 1) + 1 : Paid[i] \in Int
      BY <1>2, <3>1, HeightsAre
    <3>3. SumOf(Paid, 1..(m - 1) + 1) = SumOf(Paid, 1..m - 1) + Paid[(m - 1) + 1]
      BY <3>1, <3>2, SumUpTo
    <3> QED
      BY <1>3, <3>1, <3>3
  <2>5. Paid[m] = ((h + 1) - begin) * pay
    <3>1. m \in 1..Len(Rewards) - 1
      BY <1>2, <1>8, RewardsAre
    <3> QED
      BY <1>4, <1>8, <3>1, HeightsAre
  <2>6. (h + 1) - begin = h - (begin - 1)
    OBVIOUS
  <2>7. CalcReward(h + 1) = new
    BY <1>8, <2>1 DEF CalcReward, Pays
  <2>8. PICK x \in Int : x = (h - (begin - 1)) * pay
    OBVIOUS
  <2> QED
    BY <1>5, <1>6, <2>2, <2>3, <2>4, <2>5, <2>6, <2>7, <2>8
<1> QED
  BY <1>1, <1>7, <1>8, MilestoneNext

\* The supply of every height is what the rewards have added.
LEMMA SupplyIsRewards ==
  ASSUME NEW h \in Nat \ {0}
  PROVE  CalcSupply(h) = TotalAmount + MapThenSumSet(CalcReward, 1..h)
<1> DEFINE S == {k \in Nat : CalcSupply(k + 1) = TotalAmount + SumOf(RewardAt, 1..k + 1)}
<1>1. \A k \in Nat \ {0} : RewardAt[k] = CalcReward(k) /\ CalcReward(k) \in Nat
  BY MilestoneIs, RewardsAre DEF RewardAt, CalcReward, Pays
<1>2. 0 \in S
  <2>1. CalcMilestone(1) = 1
    <3>1. /\ CalcMilestone(1) \in 1..Len(Rewards) /\ Begins(CalcMilestone(1)) <= 1
          /\ Len(Rewards) \in Nat
      BY MilestoneIs, RewardsAre
    <3>2. CalcMilestone(1) > 1 => Begins(CalcMilestone(1)) > Begins(1)
      BY <3>1, RewardsAre
    <3> QED
      BY <3>1, <3>2, RewardsAre
  <2>2. Pays(1) \in Nat /\ Begins(1) = 1 /\ TotalAmount \in Nat
    BY RewardsAre, ForkChoiceAssumption
  <2>3. CalcSupply(1) = TotalAmount + SumOf(Paid, 1..1 - 1) + (1 - (Begins(1) - 1)) * Pays(1)
    BY <2>1, SupplyIs
  <2>4. SumOf(Paid, 1..1 - 1) = 0
    <3>1. SumOf(Paid, {}) = 0 /\ 1..1 - 1 = {}
      BY FS_EmptySet, SumFirst
    <3> QED
      BY <3>1
  <2>5. SumOf(RewardAt, 1..0 + 1) = Pays(1)
    <3>1. \A i \in 1..0 + 1 : RewardAt[i] \in Int
      BY <1>1
    <3>2. SumOf(RewardAt, 1..0 + 1) = SumOf(RewardAt, 1..0) + RewardAt[0 + 1]
          /\ SumOf(RewardAt, 1..0) = 0
      BY <3>1, SumUpTo
    <3>3. RewardAt[0 + 1] = Pays(1)
      BY <2>1, <1>1 DEF CalcReward, Pays
    <3> QED
      BY <2>2, <3>2, <3>3
  <2> QED
    BY <2>2, <2>3, <2>4, <2>5
<1>3. ASSUME NEW k \in Nat, k \in S PROVE k + 1 \in S
  <2>1. k + 1 \in Nat \ {0} /\ (k + 1) + 1 \in Nat \ {0}
    OBVIOUS
  <2>2. CalcSupply((k + 1) + 1) = CalcSupply(k + 1) + CalcReward((k + 1) + 1)
    BY <2>1, SupplyGrows
  <2>3. \A i \in 1..(k + 1) + 1 : RewardAt[i] \in Int
    BY <1>1
  <2>4. /\ SumOf(RewardAt, 1..(k + 1) + 1)
             = SumOf(RewardAt, 1..k + 1) + RewardAt[(k + 1) + 1]
        /\ SumOf(RewardAt, 1..k + 1) \in Int
    BY <2>1, <2>3, SumUpTo
  <2>5. RewardAt[(k + 1) + 1] = CalcReward((k + 1) + 1) /\ CalcReward((k + 1) + 1) \in Nat
    BY <1>1, <2>1
  <2>6. CalcSupply(k + 1) = TotalAmount + SumOf(RewardAt, 1..k + 1) /\ TotalAmount \in Nat
    BY <1>3, ForkChoiceAssumption
  <2>7. CalcSupply((k + 1) + 1) = TotalAmount + SumOf(RewardAt, 1..(k + 1) + 1)
    BY <2>2, <2>4, <2>5, <2>6
  <2> QED
    BY <2>1, <2>7
<1>4. h - 1 \in S
  <2>1. h - 1 \in Nat /\ \A k \in 0..(h - 1) - 1 : k \in Nat
    OBVIOUS
  <2> HIDE DEF S
  <2> QED
    BY <1>2, <1>3, <2>1, UpTo
<1>5. (h - 1) + 1 = h
  OBVIOUS
<1> QED
  BY <1>4, <1>5, RewardsUpTo

-----------------------------------------------------------------------------
(***************************************************************************)
(* The bounds of the other variables: what a node remembers of blocks      *)
(* never exceeds the window, whether blocks come one by one, in an answer, *)
(* or from the database at the start.                                      *)
(***************************************************************************)
Memory == {ids \in Seq(Block) : Len(ids) <= SlotWindow}

Bounded ==
  /\ now \in 1..End
  /\ recent \in [Node -> Memory]
  /\ heard = [n \in Node |-> heard[n]]
  /\ \A n \in Node : heard[n] \in {Never} \cup 1..now
  /\ drawn \in [1..MaxSlot -> SUBSET (1..3)]
  /\ upsets \in 0..MaxUpsets

LEMMA RememberKeeps ==
  ASSUME NEW ids \in Memory, NEW b \in Block
  PROVE  Remember(ids, b) \in Memory
<1>1. SlotWindow \in Nat
  BY ForkChoiceAssumption
<1>2. PICK all \in Seq(Block) : all = Append(ids, b) /\ Len(all) = Len(ids) + 1
  <2>1. ids \in Seq(Block)
    BY DEF Memory
  <2>2. Append(ids, b) \in Seq(Block) /\ Len(Append(ids, b)) = Len(ids) + 1
    BY <2>1
  <2> QED
    BY <2>2
<1>3. Len(ids) \in Nat /\ Len(ids) <= SlotWindow
  BY DEF Memory
<1>4. Tail(all) \in Seq(Block) /\ Len(Tail(all)) = Len(ids)
  BY <1>2, <1>3
<1> QED
  BY <1>1, <1>2, <1>3, <1>4 DEF Remember, Memory

\* Nor does it exceed the window when an answer is remembered block by block.
LEMMA RememberAll ==
  ASSUME NEW ids \in Memory, NEW n \in Nat, NEW answer, DOMAIN answer = 1..n,
         \A i \in 1..n : answer[i] \in Block
  PROVE  FoldLeft(Remember, ids, answer) \in Memory
<1> DEFINE D == 1..n
           Table(g) == g = [s \in SUBSET D |->
             IF s = {} THEN ids ELSE Remember(g[s \ {Max(s)}], answer[Max(s)])]
<1>1. FoldLeft(Remember, ids, answer) = (CHOOSE g : Table(g))[D]
  BY DEF FoldLeft, MapThenFoldSet
<1> DEFINE c == [s \in SUBSET D |-> Max(s)]
           step == [p \in D \X Memory |-> Remember(p[2], answer[p[1]])]
<1>2. \A s \in SUBSET D : s # {} => c[s] \in s /\ c[s] = Max(s)
  BY MaxExists
<1>3. \A i \in D, v \in Memory : step[<<i, v>>] = Remember(v, answer[i])
  OBVIOUS
<1>4. IsFiniteSet(D)
  BY FS_Interval
<1>5. \A i \in D : answer[i] \in Block
  OBVIOUS
<1> HIDE DEF D, c, step
<1>6. \A i \in D, v \in Memory : step[<<i, v>>] \in Memory
  BY <1>3, <1>5, RememberKeeps
<1>7. PICK g \in [SUBSET D -> Memory] : Recurs(g, D, c, ids, step)
  BY <1>2, <1>4, <1>6, RecursionExists
<1>8. ASSUME NEW s \in SUBSET D, s # {} PROVE g[s] = Remember(g[s \ {Max(s)}], answer[Max(s)])
  <2>1. c[s] \in D /\ s \ {c[s]} \in SUBSET D /\ c[s] = Max(s)
    BY <1>2, <1>8
  <2>2. g[s \ {c[s]}] \in Memory
    BY <2>1
  <2> QED
    BY <1>3, <1>7, <1>8, <2>1, <2>2 DEF Recurs
<1>9. g[{}] = ids
  BY <1>7 DEF Recurs
<1>10. Table(g)
  BY <1>8, <1>9
<1>11. PICK h : h = (CHOOSE x : Table(x))
  OBVIOUS
<1>12. Table(h)
  BY <1>10, <1>11
<1>13. /\ h[{}] = ids
       /\ \A s \in SUBSET D : s # {} => h[s] = Remember(h[s \ {Max(s)}], answer[Max(s)])
  BY <1>12
<1> HIDE DEF Table
<1>14. \A s \in SUBSET D : h[s] = g[s]
  <2> DEFINE T == {s \in SUBSET D : h[s] # g[s]}
  <2> SUFFICES ASSUME T # {} PROVE FALSE
    OBVIOUS
  <2>1. T \in SUBSET (SUBSET D)
    OBVIOUS
  <2> HIDE DEF T
  <2>2. PICK s \in T : \A r \in T : r \subseteq s => r = s
    BY <1>4, <2>1, SmallestSet
  <2>3. s \in SUBSET D /\ h[s] # g[s] /\ s # {}
    BY <2>2, <1>9, <1>13 DEF T
  <2>4. Max(s) \in s
    BY <2>3, <1>2
  <2>5. s \ {Max(s)} \notin T /\ s \ {Max(s)} \in SUBSET D
    BY <2>2, <2>3, <2>4
  <2>6. h[s \ {Max(s)}] = g[s \ {Max(s)}]
    BY <2>5 DEF T
  <2> QED
    BY <1>8, <1>13, <2>3, <2>6
<1>15. D \in SUBSET D
  OBVIOUS
<1> QED
  BY <1>1, <1>11, <1>14, <1>15

\* What a peer answers are blocks.
LEMMA AnswerBlocks ==
  ASSUME NEW own \in Block, NEW other \in Node, chain \in [Node -> Block]
  PROVE  \E n \in Nat : /\ DOMAIN Answer(other, own) = 1..n
                       /\ \A i \in 1..n : Answer(other, own)[i] \in Block
<1> DEFINE theirs == chain[other]
           first == IF IsPrefix(own, theirs) THEN Len(own) + 1 ELSE 0
           last == Min({Len(theirs), first + AnswerLimit - 2})
           size == last + 1 - first
<1>1. /\ theirs \in Block /\ Len(theirs) \in Nat /\ Len(own) \in Nat
      /\ first \in Nat /\ first + AnswerLimit - 2 \in Int
  BY ForkChoiceAssumption DEF Block
<1>2. last \in Int /\ last <= Len(theirs)
  <2>1. \A i, j \in Int : Min({i, j}) \in {i, j} /\ Min({i, j}) <= i
    BY LeastOf
  <2>2. Len(theirs) \in Int
    BY <1>1
  <2> QED
    BY <1>1, <2>1, <2>2
<1>3. Answer(other, own) = [i \in 1..size |-> SubSeq(theirs, 1, first + i - 1)]
  BY DEF Answer, BlocksAfter
<1> HIDE DEF last, first, theirs
<1>4. size \in Int /\ \A i \in 1..size : first + i - 1 \in Int /\ first + i - 1 <= Len(theirs)
                                       /\ first + i - 1 >= 0
  BY <1>1, <1>2
<1>5. ASSUME NEW i \in 1..size PROVE SubSeq(theirs, 1, first + i - 1) \in Block
  <2>1. PICK k \in Nat : k = first + i - 1 /\ k <= Len(theirs)
    BY <1>4
  <2>2. \A j \in 1..k : theirs[j] \in Header
    BY <1>1, <2>1 DEF Block
  <2>3. SubSeq(theirs, 1, k) \in Seq(Header)
    BY <2>1, <2>2
  <2> QED
    BY <2>1, <2>3 DEF Block
<1> HIDE DEF size
<1>6. CASE size >= 0
  <2>1. size \in Nat
    BY <1>4, <1>6
  <2> QED
    BY <1>3, <1>5, <2>1
<1>7. CASE ~(size >= 0)
  <2>1. 1..size = 1..0
    BY <1>4, <1>7
  <2>2. 0 \in Nat /\ \A i \in 1..0 : FALSE
    OBVIOUS
  <2> QED
    BY <1>3, <2>1, <2>2
<1> QED
  BY <1>6, <1>7

\* What a node remembers when it has started.
LEMMA StartMemory ==
  ASSUME NEW b \in Block
  PROVE  [i \in 1..Min({SlotWindow, Len(b)}) |-> SubSeq(b, 1, Len(b) + 1 - i)] \in Memory
<1>1. PICK n : n = Min({SlotWindow, Len(b)})
  OBVIOUS
<1>2. n \in Nat /\ n <= SlotWindow /\ n <= Len(b) /\ Len(b) \in Nat
  <2>1. SlotWindow \in Nat /\ Len(b) \in Nat /\ SlotWindow \in Int /\ Len(b) \in Int
    BY ForkChoiceAssumption DEF Block
  <2>2. n \in {SlotWindow, Len(b)} /\ n <= SlotWindow /\ n <= Len(b)
    BY <1>1, <2>1, LeastOf
  <2> QED
    BY <2>1, <2>2
<1>3. ASSUME NEW i \in 1..n PROVE SubSeq(b, 1, Len(b) + 1 - i) \in Block
  <2>1. PICK k \in Nat : k = Len(b) + 1 - i /\ k <= Len(b)
    BY <1>2
  <2>2. \A j \in 1..k : b[j] \in Header
    BY <1>2, <2>1 DEF Block
  <2>3. SubSeq(b, 1, k) \in Seq(Header)
    BY <2>1, <2>2
  <2> QED
    BY <2>1, <2>3 DEF Block
<1> DEFINE s == [i \in 1..n |-> SubSeq(b, 1, Len(b) + 1 - i)]
<1>4. s \in [1..n -> Block]
  BY <1>3
<1> HIDE DEF s
<1>5. s \in Seq(Block) /\ Len(s) = n
  BY <1>2, <1>4
<1> QED
  BY <1>1, <1>2, <1>5 DEF Memory, s

-----------------------------------------------------------------------------
LEMMA InitBounded == Init => Bounded
<1> SUFFICES ASSUME Init PROVE Bounded
  OBVIOUS
<1>1. <<>> \in Memory
  BY ForkChoiceAssumption DEF Memory, Block
<1>2. 1 \in 1..End /\ 0 \in 0..MaxUpsets
  BY ForkChoiceAssumption DEF End
<1> QED
  BY <1>1, <1>2 DEF Init, Bounded

\* The clock stands and the node has heard now, or what it had heard stays.
LEMMA BoundedKept ==
  ASSUME Bounded, NEW n \in Node, now' = now,
         recent' = recent \/ (\E ids \in Memory : recent' = [recent EXCEPT ![n] = ids]),
         \/ heard' = heard
         \/ heard' = [heard EXCEPT ![n] = now]
         \/ heard' = [heard EXCEPT ![n] = Never],
         drawn' \in [1..MaxSlot -> SUBSET (1..3)], upsets' \in 0..MaxUpsets
  PROVE  Bounded'
<1>1. now' \in 1..End /\ now \in 1..now
  BY ForkChoiceAssumption DEF Bounded, End
<1>2. recent' \in [Node -> Memory]
  BY DEF Bounded
<1>3. heard' = [k \in Node |-> heard'[k]]
  BY DEF Bounded
<1>4. \A k \in Node : heard'[k] \in {Never} \cup 1..now'
  BY <1>1 DEF Bounded
<1>5. Never' = Never /\ End' = End /\ Memory' = Memory
  BY DEF Never, End, Memory
<1> QED
  BY <1>1, <1>2, <1>3, <1>4, <1>5 DEF Bounded

LEMMA NextBounded == IInv /\ Bounded /\ [Next]_vars => Bounded'
<1> SUFFICES ASSUME IInv, Bounded, [Next]_vars PROVE Bounded'
  OBVIOUS
<1>1. drawn \in [1..MaxSlot -> SUBSET (1..3)] /\ upsets \in 0..MaxUpsets
  BY DEF Bounded
<1>2. \A n \in Node, b \in Block : recent[n] \in Memory /\ Remember(recent[n], b) \in Memory
  BY RememberKeeps DEF Bounded
<1>3. CASE NextSlot
  <2>1. /\ UNCHANGED <<recent, heard, drawn, upsets>>
        /\ now' = now + 1 /\ now \in 1..End /\ now < End
    BY <1>3 DEF NextSlot, Bounded
  <2>2. End \in Int
    BY ForkChoiceAssumption DEF End
  <2>3. now' \in 1..End /\ \A x \in 1..now : x \in 1..now'
    BY <2>1, <2>2
  <2> QED
    BY <2>1, <2>3 DEF Bounded, End, Never, Memory
<1>4. ASSUME NEW n \in Node, StartForge(n) PROVE Bounded'
  <2>1. UNCHANGED <<now, recent, heard, drawn, upsets>>
    BY <1>4 DEF StartForge
  <2> QED
    BY <1>1, <2>1, BoundedKept
<1>5. ASSUME NEW n \in Node, ForgeStep(n) PROVE Bounded'
  <2>1. CASE SkipSlot(n)
    <3>1. UNCHANGED <<now, recent, heard, drawn, upsets>>
      BY <2>1 DEF SkipSlot
    <3> QED
      BY <1>1, <3>1, BoundedKept
  <2>2. ASSUME NEW id \in 1..3, Forge(n, id) PROVE Bounded'
    <3> DEFINE header == [slot |-> forging[n],
                          generator |-> Leader(forging[n], Height(chain[n]) + 1), id |-> id]
               b == Append(chain[n], header)
    <3>1. forging[n] \in 1..MaxSlot
      BY <2>2 DEF IInv, Forge, Free
    <3>2. b \in Block
      BY <3>1, ForgedBlock DEF IInv
    <3>3. /\ now' = now /\ upsets' = upsets /\ heard' = [heard EXCEPT ![n] = now]
          /\ recent' = [recent EXCEPT ![n] = Remember(recent[n], b)]
          /\ drawn' = [drawn EXCEPT ![forging[n]] = drawn[forging[n]] \cup {id}]
      BY <2>2 DEF Forge
    <3> HIDE DEF b
    <3>4. drawn' \in [1..MaxSlot -> SUBSET (1..3)]
      BY <1>1, <3>1, <3>3
    <3>5. Remember(recent[n], b) \in Memory
      BY <1>2, <3>2
    <3> QED
      BY <1>1, <3>3, <3>4, <3>5, BoundedKept
  <2> QED
    BY <1>5, <2>1, <2>2 DEF ForgeStep
<1>6. ASSUME NEW n \in Node, Receive(n) PROVE Bounded'
  <2>1. PICK b \in Post :
          \/ ReceiveBlock(n, b) \/ RefuseBlock(n, b)
          \/ ReceiveForkOne(n, b) \/ ReceiveForkFive(n, b)
          \/ Discard(n, b)
    BY <1>6 DEF Receive, IInv
  <2>2. /\ now' = now /\ UNCHANGED <<drawn, upsets>>
        /\ heard' = heard \/ heard' = [heard EXCEPT ![n] = now]
    BY <2>1 DEF ReceiveBlock, RefuseBlock, ReceiveForkOne, ReceiveForkFive, Discard
  <2>3. \/ recent' = recent
        \/ ValidateBlockSlot(b) /\ recent' = [recent EXCEPT ![n] = Remember(recent[n], b)]
    BY <2>1 DEF ReceiveBlock, RefuseBlock, ReceiveForkOne, ReceiveForkFive, Discard, ProcessBlock
  <2>4. ValidateBlockSlot(b) => Remember(recent[n], b) \in Memory
    BY <1>2, PostIs
  <2> QED
    BY <1>1, <2>2, <2>3, <2>4, BoundedKept
<1>7. ASSUME NEW n \in Node, Restart(n) PROVE Bounded'
  <2> DEFINE ids == [i \in 1..Min({SlotWindow, Len(chain[n])}) |->
                       SubSeq(chain[n], 1, Len(chain[n]) + 1 - i)]
  <2>1. /\ now' = now /\ drawn' = drawn /\ upsets < MaxUpsets /\ upsets' = upsets + 1
        /\ heard' = [heard EXCEPT ![n] = Never] /\ recent' = [recent EXCEPT ![n] = ids]
    BY <1>7 DEF Restart
  <2>2. ids \in Memory
    BY StartMemory DEF IInv
  <2> HIDE DEF ids
  <2>3. upsets' \in 0..MaxUpsets
    BY <1>1, <2>1, ForkChoiceAssumption
  <2> QED
    BY <1>1, <2>1, <2>2, <2>3, BoundedKept
<1>8. ASSUME NEW n \in Node, NEW m \in Node, Sync(n, m) PROVE Bounded'
  <2> DEFINE answer == Answer(m, chain[n])
  <2>1. /\ UNCHANGED <<now, heard, drawn, upsets>>
        /\ recent' = [recent EXCEPT ![n] = FoldLeft(Remember, recent[n], answer)]
    BY <1>8 DEF Sync
  <2>2. PICK k \in Nat : DOMAIN answer = 1..k /\ \A i \in 1..k : answer[i] \in Block
    BY AnswerBlocks DEF IInv
  <2> HIDE DEF answer
  <2>3. FoldLeft(Remember, recent[n], answer) \in Memory
    BY <1>2, <2>2, RememberAll DEF Bounded
  <2> QED
    BY <1>1, <2>1, <2>3, BoundedKept
<1>9. ASSUME NEW n \in Node, NEW slot \in 1..MaxSlot, Stray(n, slot) PROVE Bounded'
  <2>1. UNCHANGED <<now, recent, heard, drawn>> /\ upsets < MaxUpsets /\ upsets' = upsets + 1
    BY <1>9 DEF Stray
  <2>2. upsets' \in 0..MaxUpsets
    BY <1>1, <2>1, ForkChoiceAssumption
  <2> QED
    BY <1>1, <2>1, <2>2, BoundedKept
<1>10. CASE UNCHANGED vars
  BY <1>10 DEF vars, Bounded, Never, End, Memory
<1> QED
  BY <1>3, <1>4, <1>5, <1>6, <1>7, <1>8, <1>9, <1>10, ForkChoiceAssumption DEF Next

(***************************************************************************)
(* In every behaviour, for any milestones of the reward, the supply that   *)
(* calcSupply of logic/blockReward.js computes for the height of a node is *)
(* what calcReward has paid for the heights up to it; and blocks, receipts *)
(* and the ids that blocks/verify.js remembers are within their bounds.    *)
(***************************************************************************)
THEOREM SupplyFollowsRewards == Spec => []ChainsOK
<1>1. IInv /\ Bounded => ChainsOK
  <2> SUFFICES ASSUME IInv, Bounded PROVE ChainsOK
    OBVIOUS
  <2>1. SupplyMatches
    <3>1. ASSUME NEW n \in Node
          PROVE  CalcSupply(Height(chain[n]))
                   = TotalAmount + MapThenSumSet(CalcReward, 1..Height(chain[n]))
      <4>1. Height(chain[n]) \in Nat \ {0}
        BY DEF IInv, Block, Height
      <4> QED
        BY <4>1, SupplyIsRewards
    <3> QED
      BY <3>1 DEF SupplyMatches
  <2>2. TypeOK
    <3>1. ASSUME NEW n \in Node, NEW i \in DOMAIN chain[n] PROVE chain[n][i] \in Header
      BY DEF IInv, Block
    <3>2. \A n \in Node : /\ Len(recent[n]) <= SlotWindow /\ heard[n] \in {Never} \cup 1..now
                          /\ forging[n] \in 0..MaxSlot
      BY DEF IInv, Bounded, Memory
    <3> QED
      BY <3>1, <3>2 DEF TypeOK, Bounded, Header
  <2> QED
    BY <2>1, <2>2 DEF ChainsOK
<1> QED
  BY <1>1, InitIInv, InitBounded, NextKeeps, NextBounded, PTL DEF Spec

-----------------------------------------------------------------------------
(* Folds over sequences, as FoldLeft takes them: from the last position down *)

FoldTable(g, n, base, step) ==
  \A S \in SUBSET (1..n) : g[S] = IF S = {} THEN base ELSE step[<<Max(S), g[S \ {Max(S)}]>>]

\* A table of a fold exists.
LEMMA FoldExists ==
  ASSUME NEW n \in Nat, NEW V, NEW base \in V, NEW step,
         \A i \in 1..n, v \in V : step[<<i, v>>] \in V
  PROVE  \E g \in [SUBSET (1..n) -> V] : FoldTable(g, n, base, step)
<1> DEFINE D == 1..n
           c == [S \in SUBSET D |-> Max(S)]
<1>1. \A S \in SUBSET D : c[S] = Max(S)
  OBVIOUS
<1>2. \A S \in SUBSET D : S # {} => c[S] \in S
  BY <1>1, MaxExists
<1>3. IsFiniteSet(D) /\ \A x \in D, v \in V : step[<<x, v>>] \in V
  BY FS_Interval
<1> HIDE DEF D, c
<1>4. PICK g \in [SUBSET D -> V] : Recurs(g, D, c, base, step)
  BY <1>2, <1>3, RecursionExists
<1>5. \A S \in SUBSET D : g[S] = IF S = {} THEN base ELSE step[<<Max(S), g[S \ {Max(S)}]>>]
  BY <1>1, <1>4 DEF Recurs
<1> QED
  BY <1>5 DEF D, FoldTable

\* It goes from the beginning up to a position to the one that is shorter by one.
LEMMA Intervals ==
  ASSUME NEW n \in Nat, NEW k \in 1..n
  PROVE  /\ Max(1..k) = k /\ (1..k) \ {k} = 1..(k - 1)
         /\ 1..k \in SUBSET (1..n) /\ 1..k # {} /\ k - 1 \in 0..n
<1>1. 1..k \in SUBSET (1..k) /\ 1..k # {} /\ k \in Nat /\ k \in 1..k
  OBVIOUS
<1>2. Max(1..k) \in 1..k /\ \A y \in 1..k : Max(1..k) >= y
  BY <1>1, MaxExists
<1>3. Max(1..k) = k
  BY <1>1, <1>2
<1>4. \A i \in 1..k : i = k \/ i \in 1..(k - 1)
  OBVIOUS
<1>5. \A i \in 1..(k - 1) : i # k /\ i \in 1..k
  OBVIOUS
<1>6. 1..k \subseteq 1..n /\ k - 1 \in 0..n
  OBVIOUS
<1> QED
  BY <1>1, <1>3, <1>4, <1>5, <1>6

-----------------------------------------------------------------------------
(* The states, and what the loops over transactions do to them             *)

Columns == [second : BOOLEAN, uSecond : BOOLEAN, secondKey : Key \cup {None},
            delegate : BOOLEAN, uDelegate : BOOLEAN, name : Key \cup {None}, uName : Key \cup {None},
            keys : SUBSET Key, uKeys : SUBSET Key]
Link == UNION {Remembered(t) : t \in Tx}
States == [account : [Account -> Columns], pending : SUBSET Link]
Calls == {"applyUnconfirmed", "undoUnconfirmed", "apply", "undo"}

\* The key and the name of an account go with its flags.
Fitted(r) == (r.second <=> r.secondKey # None) /\ (r.delegate <=> r.name # None)
Fit(s) == \A a \in Account : Fitted(s.account[a])

\* What an account registers among some transactions
By(kind, a, T) == \E t \in T : t.kind = kind /\ t.sender = a
KeysBy(a, T) == {t.key : t \in {u \in T : u.kind = "multisignature" /\ u.sender = a}}
Links(T) == UNION {Remembered(t) : t \in T}

\* What each loop makes of the columns r of an account: q, if among its
\* transactions are a second signature, a delegate and the keys of the account.
RowApplyUnconfirmed(r, q, sig, del, keys) ==
  /\ q.second = r.second /\ q.secondKey = r.secondKey /\ q.keys = r.keys
  /\ q.uSecond <=> sig \/ r.uSecond
  /\ q.uDelegate <=> del \/ r.uDelegate
  /\ IF del THEN ~q.delegate /\ q.name = None ELSE q.delegate = r.delegate /\ q.name = r.name
  /\ q.uKeys = r.uKeys \cup keys

RowUndoUnconfirmed(r, q, sig, del, keys) ==
  /\ q.second = r.second /\ q.secondKey = r.secondKey /\ q.keys = r.keys
  /\ q.uSecond <=> r.uSecond /\ ~sig
  /\ q.uDelegate <=> r.uDelegate /\ ~del
  /\ IF del THEN ~q.delegate /\ q.name = None ELSE q.delegate = r.delegate /\ q.name = r.name
  /\ q.uKeys = r.uKeys \ keys

RowApply(r, q, sig, del, keys) ==
  /\ q.second <=> sig \/ r.second
  /\ ~sig => q.secondKey = r.secondKey
  /\ q.uSecond <=> r.uSecond /\ ~sig
  /\ q.delegate <=> del \/ r.delegate
  /\ ~del => q.name = r.name
  /\ q.uDelegate <=> r.uDelegate /\ ~del
  /\ q.keys = r.keys \cup keys /\ q.uKeys = r.uKeys

RowUndo(r, q, sig, del, keys) ==
  /\ q.second <=> r.second /\ ~sig
  /\ q.secondKey = IF sig THEN None ELSE r.secondKey
  /\ q.uSecond <=> r.uSecond /\ ~sig
  /\ q.delegate <=> r.delegate /\ ~del
  /\ q.name = IF del THEN None ELSE r.name
  /\ q.uDelegate <=> r.uDelegate /\ ~del
  /\ q.keys = r.keys \ keys /\ q.uKeys = r.uKeys \ keys

Row(do, r, q, sig, del, keys) ==
  /\ do = "applyUnconfirmed" => RowApplyUnconfirmed(r, q, sig, del, keys)
  /\ do = "undoUnconfirmed" => RowUndoUnconfirmed(r, q, sig, del, keys)
  /\ do = "apply" => RowApply(r, q, sig, del, keys)
  /\ do = "undo" => RowUndo(r, q, sig, del, keys)

Tables(do, p, q, T) ==
  /\ do = "applyUnconfirmed" => q = p \cup Links(T)
  /\ do = "apply" => q = p \ Links({t \in T : t.kind # "dapp"})
  /\ do \in {"undoUnconfirmed", "undo"} => q = p \ Links(T)

Effect(do, s, e, T) ==
  /\ \A a \in Account : Row(do, s.account[a], e.account[a],
                            By("signature", a, T), By("delegate", a, T), KeysBy(a, T))
  /\ Tables(do, s.pending, e.pending, T)

LEMMA TxFields ==
  ASSUME NEW t \in Tx
  PROVE  /\ t.kind \in Kinds /\ t.sender \in Account /\ t.key \in Key /\ t.double \in BOOLEAN
         /\ t.key # None /\ Remembered(t) \subseteq Link
BY StatesAssumption DEF Link

\* One transaction, and the columns of its sender
LEMMA FieldsOfCall ==
  ASSUME NEW r \in Columns, NEW t \in Tx, NEW do \in Calls, NEW q,
         /\ do = "applyUnconfirmed" => q = FieldsApplyUnconfirmed(r, t)
         /\ do = "undoUnconfirmed" => q = FieldsUndoUnconfirmed(r, t)
         /\ do = "apply" => q = FieldsApply(r, t)
         /\ do = "undo" => q = FieldsUndoUnconfirmed(FieldsUndo(r, t), t),
         NEW keys, keys = IF t.kind = "multisignature" THEN {t.key} ELSE {}
  PROVE  /\ q \in Columns
         /\ Fitted(r) => Fitted(q)
         /\ Row(do, r, q, t.kind = "signature", t.kind = "delegate", keys)
<1>1. t.key \in Key /\ t.key # None
  BY TxFields
<1>6. t.kind # "multisignature" => /\ r.keys \cup keys = r.keys /\ r.uKeys \cup keys = r.uKeys
                                   /\ r.keys \ keys = r.keys /\ r.uKeys \ keys = r.uKeys
  OBVIOUS
<1>7. /\ do = "applyUnconfirmed" => q = FieldsApplyUnconfirmed(r, t)
      /\ do = "undoUnconfirmed" => q = FieldsUndoUnconfirmed(r, t)
      /\ do = "apply" => q = FieldsApply(r, t)
      /\ do = "undo" => q = FieldsUndoUnconfirmed(FieldsUndo(r, t), t)
  OBVIOUS
<1>2. CASE do = "applyUnconfirmed"
  <2>1. CASE t.kind = "signature"
    BY ONLY r \in Columns, <1>1, <1>6, <1>7, <1>2, <2>1 DEF Columns, Fitted, FieldsApplyUnconfirmed, SignatureApplyUnconfirmed, Row, RowApplyUnconfirmed
  <2>2. CASE t.kind = "delegate"
    <3>1. q = [r EXCEPT !.uDelegate = TRUE, !.delegate = FALSE, !.name = None,
                       !.uName = IF r.uName # None THEN r.uName ELSE t.key]
      BY ONLY r \in Columns, <1>1, <1>7, <1>2, <2>2
         DEF FieldsApplyUnconfirmed, DelegateApplyUnconfirmed, Protected, Columns
    <3>2. q \in Columns
      BY ONLY r \in Columns, <1>1, <3>1 DEF Columns
    <3>3. Fitted(r) => Fitted(q)
      BY ONLY r \in Columns, <3>1 DEF Columns, Fitted
    <3>4. Row(do, r, q, FALSE, TRUE, keys)
      BY ONLY r \in Columns, <3>1, <1>2, <1>6, <2>2 DEF Columns, Row, RowApplyUnconfirmed
    <3> QED
      BY ONLY <3>2, <3>3, <3>4, <2>2 DEF Row, RowApplyUnconfirmed
  <2>3. CASE t.kind = "multisignature"
    <3>1. q = [r EXCEPT !.uKeys = r.uKeys \cup keys]
      BY <1>2, <2>3 DEF FieldsApplyUnconfirmed, MultisignatureApplyUnconfirmed, Columns
    <3>2. keys \in SUBSET Key
      BY <1>1, <2>3
    <3>3. /\ r.keys \cup keys \in SUBSET Key /\ r.uKeys \cup keys \in SUBSET Key
          /\ r.keys \ keys \in SUBSET Key /\ r.uKeys \ keys \in SUBSET Key
      BY <3>2 DEF Columns
    <3>4. q \in Columns
      BY ONLY <3>1, <3>3, r \in Columns DEF Columns
    <3>5. /\ q.second = r.second /\ q.secondKey = r.secondKey /\ q.uSecond = r.uSecond
          /\ q.delegate = r.delegate /\ q.uDelegate = r.uDelegate /\ q.name = r.name
          /\ q.keys = r.keys
      BY ONLY <3>1, <3>3, r \in Columns DEF Columns
    <3>6. q.uKeys = r.uKeys \cup keys
      BY ONLY <3>1, <3>3, r \in Columns DEF Columns
    <3>7. Fitted(r) => Fitted(q)
      BY ONLY <3>5 DEF Fitted
    <3>8. t.kind # "signature" /\ t.kind # "delegate"
      BY <2>3
    <3> QED
      BY ONLY <1>2, <3>8, <3>4, <3>5, <3>6, <3>7, r \in Columns DEF Row, RowApplyUnconfirmed, Columns
  <2>4. CASE t.kind \notin {"signature", "delegate", "multisignature"}
    BY ONLY r \in Columns, <1>1, <1>6, <1>7, <1>2, <2>4 DEF Columns, Fitted, FieldsApplyUnconfirmed, Row, RowApplyUnconfirmed
  <2> QED
    BY <2>1, <2>2, <2>3, <2>4
<1>3. CASE do = "undoUnconfirmed"
  <2>1. CASE t.kind = "signature"
    BY ONLY r \in Columns, <1>1, <1>6, <1>7, <1>3, <2>1 DEF Columns, Fitted, FieldsUndoUnconfirmed, SignatureUndoUnconfirmed, Row, RowUndoUnconfirmed
  <2>2. CASE t.kind = "delegate"
    <3>1. q = [r EXCEPT !.uDelegate = FALSE, !.delegate = FALSE, !.uName = None, !.name = None]
      BY ONLY <1>7, <1>3, <2>2 DEF FieldsUndoUnconfirmed, DelegateUndoUnconfirmed
    <3>2. q \in Columns
      BY ONLY r \in Columns, <3>1 DEF Columns
    <3>3. Fitted(r) => Fitted(q)
      BY ONLY r \in Columns, <3>1 DEF Columns, Fitted
    <3>4. Row(do, r, q, FALSE, TRUE, keys)
      BY ONLY r \in Columns, <3>1, <1>3, <1>6, <2>2 DEF Columns, Row, RowUndoUnconfirmed
    <3> QED
      BY ONLY <3>2, <3>3, <3>4, <2>2 DEF Row, RowUndoUnconfirmed
  <2>3. CASE t.kind = "multisignature"
    <3>1. q = [r EXCEPT !.uKeys = r.uKeys \ keys]
      BY <1>3, <2>3 DEF FieldsUndoUnconfirmed, MultisignatureUndoUnconfirmed, Columns
    <3>2. keys \in SUBSET Key
      BY <1>1, <2>3
    <3>3. /\ r.keys \cup keys \in SUBSET Key /\ r.uKeys \cup keys \in SUBSET Key
          /\ r.keys \ keys \in SUBSET Key /\ r.uKeys \ keys \in SUBSET Key
      BY <3>2 DEF Columns
    <3>4. q \in Columns
      BY ONLY <3>1, <3>3, r \in Columns DEF Columns
    <3>5. /\ q.second = r.second /\ q.secondKey = r.secondKey /\ q.uSecond = r.uSecond
          /\ q.delegate = r.delegate /\ q.uDelegate = r.uDelegate /\ q.name = r.name
          /\ q.keys = r.keys
      BY ONLY <3>1, <3>3, r \in Columns DEF Columns
    <3>6. q.uKeys = r.uKeys \ keys
      BY ONLY <3>1, <3>3, r \in Columns DEF Columns
    <3>7. Fitted(r) => Fitted(q)
      BY ONLY <3>5 DEF Fitted
    <3>8. t.kind # "signature" /\ t.kind # "delegate"
      BY <2>3
    <3> QED
      BY ONLY <1>3, <3>8, <3>4, <3>5, <3>6, <3>7, r \in Columns DEF Row, RowUndoUnconfirmed, Columns
  <2>4. CASE t.kind \notin {"signature", "delegate", "multisignature"}
    BY ONLY r \in Columns, <1>1, <1>6, <1>7, <1>3, <2>4 DEF Columns, Fitted, FieldsUndoUnconfirmed, Row, RowUndoUnconfirmed
  <2> QED
    BY <2>1, <2>2, <2>3, <2>4
<1>4. CASE do = "apply"
  <2>1. CASE t.kind = "signature"
    <3>1. q = [r EXCEPT !.second = TRUE, !.uSecond = FALSE,
                       !.secondKey = IF r.secondKey # None THEN r.secondKey ELSE t.key]
      BY ONLY r \in Columns, <1>1, <1>7, <1>4, <2>1 DEF FieldsApply, SignatureApply, Protected, Columns
    <3>2. q \in Columns
      BY ONLY r \in Columns, <1>1, <3>1 DEF Columns
    <3>3. Fitted(r) => Fitted(q)
      BY ONLY r \in Columns, <1>1, <3>1 DEF Columns, Fitted
    <3>4. Row(do, r, q, TRUE, FALSE, keys)
      BY ONLY r \in Columns, <3>1, <1>4, <1>6, <2>1 DEF Columns, Row, RowApply
    <3> QED
      BY ONLY <3>2, <3>3, <3>4, <2>1 DEF Row, RowApply
  <2>2. CASE t.kind = "delegate"
    <3>1. q = [r EXCEPT !.delegate = TRUE, !.uDelegate = FALSE, !.uName = None,
                       !.name = IF r.name # None THEN r.name ELSE t.key]
      BY ONLY r \in Columns, <1>1, <1>7, <1>4, <2>2 DEF FieldsApply, DelegateApply, Protected, Columns
    <3>2. q \in Columns
      BY ONLY r \in Columns, <1>1, <3>1 DEF Columns
    <3>3. Fitted(r) => Fitted(q)
      BY ONLY r \in Columns, <1>1, <3>1 DEF Columns, Fitted
    <3>4. Row(do, r, q, FALSE, TRUE, keys)
      BY ONLY r \in Columns, <3>1, <1>4, <1>6, <2>2 DEF Columns, Row, RowApply
    <3> QED
      BY ONLY <3>2, <3>3, <3>4, <2>2 DEF Row, RowApply
  <2>3. CASE t.kind = "multisignature"
    <3>1. q = [r EXCEPT !.keys = r.keys \cup keys]
      BY <1>4, <2>3 DEF FieldsApply, MultisignatureApply, Columns
    <3>2. keys \in SUBSET Key
      BY <1>1, <2>3
    <3>3. /\ r.keys \cup keys \in SUBSET Key /\ r.uKeys \cup keys \in SUBSET Key
          /\ r.keys \ keys \in SUBSET Key /\ r.uKeys \ keys \in SUBSET Key
      BY <3>2 DEF Columns
    <3>4. q \in Columns
      BY ONLY <3>1, <3>3, r \in Columns DEF Columns
    <3>5. /\ q.second = r.second /\ q.secondKey = r.secondKey /\ q.uSecond = r.uSecond
          /\ q.delegate = r.delegate /\ q.uDelegate = r.uDelegate /\ q.name = r.name
          /\ q.uKeys = r.uKeys
      BY ONLY <3>1, <3>3, r \in Columns DEF Columns
    <3>6. q.keys = r.keys \cup keys
      BY ONLY <3>1, <3>3, r \in Columns DEF Columns
    <3>7. Fitted(r) => Fitted(q)
      BY ONLY <3>5 DEF Fitted
    <3>8. t.kind # "signature" /\ t.kind # "delegate"
      BY <2>3
    <3> QED
      BY ONLY <1>4, <3>8, <3>4, <3>5, <3>6, <3>7, r \in Columns DEF Row, RowApply, Columns
  <2>4. CASE t.kind \notin {"signature", "delegate", "multisignature"}
    BY ONLY r \in Columns, <1>1, <1>6, <1>7, <1>4, <2>4 DEF Columns, Fitted, FieldsApply, Row, RowApply
  <2> QED
    BY <2>1, <2>2, <2>3, <2>4
<1>5. CASE do = "undo"
  <2>1. CASE t.kind = "signature"
    <3>1. q = [r EXCEPT !.second = FALSE, !.uSecond = FALSE, !.secondKey = None]
      BY ONLY r \in Columns, <1>7, <1>5, <2>1
         DEF FieldsUndo, FieldsUndoUnconfirmed, SignatureUndo, SignatureUndoUnconfirmed, Columns
    <3>2. q \in Columns
      BY ONLY r \in Columns, <3>1 DEF Columns
    <3>3. Fitted(r) => Fitted(q)
      BY ONLY r \in Columns, <3>1 DEF Columns, Fitted
    <3>4. Row(do, r, q, TRUE, FALSE, keys)
      BY ONLY r \in Columns, <3>1, <1>5, <1>6, <2>1 DEF Columns, Row, RowUndo
    <3> QED
      BY ONLY <3>2, <3>3, <3>4, <2>1 DEF Row, RowUndo
  <2>2. CASE t.kind = "delegate"
    <3>1. q = [r EXCEPT !.delegate = FALSE, !.uDelegate = FALSE, !.name = None, !.uName = None]
      BY ONLY r \in Columns, <1>1, <1>7, <1>5, <2>2 DEF FieldsUndo, DelegateUndo, FieldsUndoUnconfirmed, DelegateUndoUnconfirmed, Columns
    <3>2. q \in Columns
      BY ONLY r \in Columns, <1>1, <3>1 DEF Columns
    <3>3. Fitted(r) => Fitted(q)
      BY ONLY r \in Columns, <1>1, <3>1 DEF Columns, Fitted
    <3>4. Row(do, r, q, FALSE, TRUE, keys)
      BY ONLY r \in Columns, <3>1, <1>5, <1>6, <2>2 DEF Columns, Row, RowUndo
    <3> QED
      BY ONLY <3>2, <3>3, <3>4, <2>2 DEF Row, RowUndo
  <2>3. CASE t.kind = "multisignature"
    <3>1. q = [r EXCEPT !.keys = r.keys \ keys, !.uKeys = r.uKeys \ keys]
      BY <1>5, <2>3 DEF FieldsUndo, FieldsUndoUnconfirmed, MultisignatureUndo, MultisignatureUndoUnconfirmed, Columns
    <3>2. keys \in SUBSET Key
      BY <1>1, <2>3
    <3>3. /\ r.keys \cup keys \in SUBSET Key /\ r.uKeys \cup keys \in SUBSET Key
          /\ r.keys \ keys \in SUBSET Key /\ r.uKeys \ keys \in SUBSET Key
      BY <3>2 DEF Columns
    <3>4. q \in Columns
      BY ONLY <3>1, <3>3, r \in Columns DEF Columns
    <3>5. /\ q.second = r.second /\ q.secondKey = r.secondKey /\ q.uSecond = r.uSecond
          /\ q.delegate = r.delegate /\ q.uDelegate = r.uDelegate /\ q.name = r.name
      BY ONLY <3>1, <3>3, r \in Columns DEF Columns
    <3>6. q.keys = r.keys \ keys /\ q.uKeys = r.uKeys \ keys
      BY ONLY <3>1, <3>3, r \in Columns DEF Columns
    <3>7. Fitted(r) => Fitted(q)
      BY ONLY <3>5 DEF Fitted
    <3>8. t.kind # "signature" /\ t.kind # "delegate"
      BY <2>3
    <3> QED
      BY ONLY <1>5, <3>8, <3>4, <3>5, <3>6, <3>7, r \in Columns DEF Row, RowUndo, Columns
  <2>4. CASE t.kind \notin {"signature", "delegate", "multisignature"}
    <3>1. FieldsUndo(r, t) = r
      BY <2>4 DEF FieldsUndo
    <3>2. FieldsUndoUnconfirmed(r, t) = r
      BY <2>4 DEF FieldsUndoUnconfirmed
    <3>3. q = r
      BY <1>5, <3>1, <3>2
    <3> QED
      BY ONLY r \in Columns, <1>5, <1>6, <2>4, <3>3 DEF Columns, Fitted, Row, RowUndo
  <2> QED
    BY <2>1, <2>2, <2>3, <2>4
<1> QED
  BY <1>2, <1>3, <1>4, <1>5 DEF Calls

LEMMA FieldsUndone == ASSUME NEW r \in Columns, NEW t \in Tx PROVE FieldsUndo(r, t) \in Columns
BY TxFields DEF Columns, FieldsUndo, SignatureUndo, DelegateUndo, MultisignatureUndo, Protected

\* Who has nothing to do with it stays as it was.
LEMMA RowStays ==
  ASSUME NEW r \in Columns, NEW do \in Calls
  PROVE  Row(do, r, r, FALSE, FALSE, {})
BY DEF Columns, Row, RowApplyUnconfirmed, RowUndoUnconfirmed, RowApply, RowUndo

LEMMA RowsFollow ==
  ASSUME NEW r \in Columns, NEW p \in Columns, NEW q \in Columns, NEW do \in Calls,
         NEW s1 \in BOOLEAN, NEW d1 \in BOOLEAN, NEW k1, Row(do, r, p, s1, d1, k1),
         NEW s2 \in BOOLEAN, NEW d2 \in BOOLEAN, NEW k2, Row(do, p, q, s2, d2, k2),
         NEW s3 \in BOOLEAN, NEW d3 \in BOOLEAN, NEW k3,
         s3 <=> s1 \/ s2, d3 <=> d1 \/ d2, k3 = k1 \cup k2
  PROVE  Row(do, r, q, s3, d3, k3)
<1>1. CASE do = "applyUnconfirmed"
  BY <1>1 DEF Columns, Row, RowApplyUnconfirmed
<1>2. CASE do = "undoUnconfirmed"
  BY <1>2 DEF Columns, Row, RowUndoUnconfirmed
<1>3. CASE do = "apply"
  BY <1>3 DEF Columns, Row, RowApply
<1>4. CASE do = "undo"
  BY <1>4 DEF Columns, Row, RowUndo
<1> QED
  BY <1>1, <1>2, <1>3, <1>4 DEF Calls

\* What is registered by one transaction, or by those of two sets
LEMMA ByOne ==
  ASSUME NEW t \in Tx, NEW a \in Account
  PROVE  /\ \A kind : By(kind, a, {t}) <=> t.kind = kind /\ t.sender = a
         /\ KeysBy(a, {t}) = IF t.kind = "multisignature" /\ t.sender = a THEN {t.key} ELSE {}
         /\ Links({t}) = Remembered(t)
         /\ Links({u \in {t} : u.kind # "dapp"}) = IF t.kind = "dapp" THEN {} ELSE Remembered(t)
BY DEF By, KeysBy, Links

LEMMA ByBoth ==
  ASSUME NEW T, NEW U, NEW a
  PROVE  /\ \A kind : By(kind, a, T \cup U) <=> By(kind, a, T) \/ By(kind, a, U)
         /\ KeysBy(a, T \cup U) = KeysBy(a, T) \cup KeysBy(a, U)
         /\ Links(T \cup U) = Links(T) \cup Links(U)
         /\ Links({u \in T \cup U : u.kind # "dapp"})
              = Links({u \in T : u.kind # "dapp"}) \cup Links({u \in U : u.kind # "dapp"})
BY DEF By, KeysBy, Links

LEMMA ByNone ==
  ASSUME NEW a
  PROVE  /\ \A kind : ~By(kind, a, {})
         /\ KeysBy(a, {}) = {} /\ Links({}) = {} /\ Links({u \in {} : u.kind # "dapp"}) = {}
BY DEF By, KeysBy, Links

\* One call
LEMMA CallOne ==
  ASSUME NEW do \in Calls, NEW s \in States, NEW t \in Tx, NEW e, e = Call(do, s, t)
  PROVE  e \in States /\ (Fit(s) => Fit(e)) /\ Effect(do, s, e, {t})
<1>1. PICK r, x, keys : /\ x = t.sender /\ r = s.account[x]
                        /\ keys = IF t.kind = "multisignature" THEN {t.key} ELSE {}
  OBVIOUS
<1>2. x \in Account /\ s.account \in [Account -> Columns] /\ r \in Columns /\ Remembered(t) \subseteq Link
      /\ s.pending \in SUBSET Link
  BY <1>1, TxFields DEF States
<1>3. PICK q, p :
        /\ do = "applyUnconfirmed" => q = FieldsApplyUnconfirmed(r, t) /\ p = s.pending \cup Remembered(t)
        /\ do = "undoUnconfirmed" => q = FieldsUndoUnconfirmed(r, t) /\ p = s.pending \ Remembered(t)
        /\ do = "apply" => /\ q = FieldsApply(r, t)
                           /\ p = IF t.kind = "dapp" THEN s.pending ELSE s.pending \ Remembered(t)
        /\ do = "undo" => /\ q = FieldsUndoUnconfirmed(FieldsUndo(r, t), t)
                          /\ p = s.pending \ Remembered(t)
        /\ e = [account |-> [s.account EXCEPT ![x] = q], pending |-> p]
  <2>1. CASE do = "applyUnconfirmed"
    BY <1>1, <2>1 DEF Call, ApplyUnconfirmed
  <2>2. CASE do = "undoUnconfirmed"
    BY <1>1, <2>2 DEF Call, UndoUnconfirmed
  <2>3. CASE do = "apply"
    BY <1>1, <2>3 DEF Call, Apply
  <2>4. CASE do = "undo"
    <3>1. PICK u : u = Undo(s, t)
      OBVIOUS
    <3>2. u.account = [s.account EXCEPT ![x] = FieldsUndo(r, t)]
          /\ u.pending = IF t.kind = "dapp" THEN s.pending ELSE s.pending \cup Remembered(t)
      BY <1>1, <3>1 DEF Undo
    <3>3. u.account[x] = FieldsUndo(r, t)
          /\ [u.account EXCEPT ![x] = FieldsUndoUnconfirmed(FieldsUndo(r, t), t)]
               = [s.account EXCEPT ![x] = FieldsUndoUnconfirmed(FieldsUndo(r, t), t)]
      BY <1>2, <3>2
    <3>4. u.pending \ Remembered(t) = s.pending \ Remembered(t)
      BY <3>2
    <3>5. e = [account |-> [u.account EXCEPT ![x] = FieldsUndoUnconfirmed(u.account[x], t)],
               pending |-> u.pending \ Remembered(t)]
      BY <1>1, <2>4, <3>1 DEF Call, UndoUnconfirmed
    <3> QED
      BY <2>4, <3>3, <3>4, <3>5
  <2> QED
    BY <2>1, <2>2, <2>3, <2>4 DEF Calls
<1>4. /\ q \in Columns
      /\ Fitted(r) => Fitted(q)
      /\ Row(do, r, q, t.kind = "signature", t.kind = "delegate", keys)
  <2>1. /\ do = "applyUnconfirmed" => q = FieldsApplyUnconfirmed(r, t)
        /\ do = "undoUnconfirmed" => q = FieldsUndoUnconfirmed(r, t)
        /\ do = "apply" => q = FieldsApply(r, t)
        /\ do = "undo" => q = FieldsUndoUnconfirmed(FieldsUndo(r, t), t)
    BY <1>3
  <2>2. r \in Columns /\ t \in Tx /\ do \in Calls /\ keys = IF t.kind = "multisignature" THEN {t.key} ELSE {}
    BY <1>1, <1>2
  <2> QED
    BY ONLY <2>1, <2>2, FieldsOfCall
<1>5. p \in SUBSET Link
  BY <1>2, <1>3 DEF Calls
<1>6. e \in States /\ e.account[x] = q /\ e.pending = p /\ \A a \in Account \ {x} : e.account[a] = s.account[a]
  BY <1>2, <1>3, <1>4, <1>5 DEF States
<1>7. Fit(s) => Fit(e)
  BY <1>1, <1>4, <1>6 DEF Fit
<1>8. ASSUME NEW a \in Account
      PROVE  Row(do, s.account[a], e.account[a], By("signature", a, {t}), By("delegate", a, {t}), KeysBy(a, {t}))
  <2>1. CASE a = x
    <3>1. /\ By("signature", a, {t}) <=> t.kind = "signature"
          /\ By("delegate", a, {t}) <=> t.kind = "delegate"
          /\ KeysBy(a, {t}) = keys
      BY <1>1, <2>1, ByOne
    <3> QED
      BY <1>1, <1>4, <1>6, <2>1, <3>1 DEF Row, RowApplyUnconfirmed, RowUndoUnconfirmed, RowApply, RowUndo
  <2>2. CASE a # x
    <3>1. ~By("signature", a, {t}) /\ ~By("delegate", a, {t}) /\ KeysBy(a, {t}) = {}
      BY <1>1, <2>2, ByOne
    <3>2. PICK c \in Columns : c = s.account[a]
      BY <1>2
    <3>3. Row(do, c, c, FALSE, FALSE, {})
      BY RowStays
    <3> QED
      BY <1>6, <2>2, <3>1, <3>2, <3>3 DEF Row, RowApplyUnconfirmed, RowUndoUnconfirmed, RowApply, RowUndo
  <2> QED
    BY <2>1, <2>2
<1>9. Tables(do, s.pending, p, {t})
  BY <1>3, ByOne, TxFields DEF Tables, Calls
<1> QED
  BY <1>6, <1>7, <1>8, <1>9 DEF Effect

\* The stages of a fold over a list of n items
Stages(h, n, V, base, step) ==
  /\ \A i \in 1..n, v \in V : step[<<i, v>>] \in V
  /\ base \in V /\ h[{}] = base
  /\ \A i \in 1..n : h[1..i - 1] \in V => h[1..i] = step[<<i, h[1..i - 1]>>]

LEMMA FoldStages ==
  ASSUME NEW n \in Nat, NEW V, NEW base, NEW step, NEW h, Stages(h, n, V, base, step)
  PROVE  \E f \in [0..n -> V] : /\ f[0] = base /\ f[n] = h[1..n]
                                /\ \A i \in 1..n : f[i] = step[<<i, f[i - 1]>>]
<1> USE DEF Stages
<1> DEFINE G == {k \in 0..n : h[1..k] \in V}
           f == [i \in 0..n |-> h[1..i]]
<1>1. PICK none : none = 1..0
  OBVIOUS
<1>2. none = {}
  BY <1>1
<1>3. 0 \in G
  BY <1>1, <1>2
<1>4. ASSUME NEW k \in 0..n - 1, k \in G PROVE k + 1 \in G
  <2>1. k + 1 \in 1..n /\ (k + 1) - 1 = k /\ k + 1 \in 0..n
    OBVIOUS
  <2>2. h[1..k] \in V
    BY <1>4
  <2>3. h[1..k + 1] = step[<<k + 1, h[1..k]>>]
    BY <2>1, <2>2
  <2> QED
    BY <2>1, <2>2, <2>3
<1>5. \A k \in 0..n : k \in G
  <2> SUFFICES ASSUME NEW k \in 0..n PROVE k \in G
    OBVIOUS
  <2>1. k \in Nat /\ \A j \in 0..k - 1 : j \in 0..n - 1
    OBVIOUS
  <2> DEFINE H == {j \in 0..k : j \in G}
  <2>2. 0 \in H
    BY <1>3
  <2>3. \A j \in 0..k - 1 : j \in H => j + 1 \in H
    <3> SUFFICES ASSUME NEW j \in 0..k - 1, j \in H PROVE j + 1 \in H
      OBVIOUS
    <3>1. j \in G /\ j \in 0..n - 1 /\ j + 1 \in 0..k
      BY <2>1
    <3> HIDE DEF G
    <3> QED
      BY <1>4, <3>1
  <2> HIDE DEF H
  <2>4. k \in H
    BY <2>1, <2>2, <2>3, UpTo
  <2> QED
    BY <2>4 DEF H
<1>6. \A i \in 1..n : i \in 0..n /\ i - 1 \in 0..n
  OBVIOUS
<1>7. f \in [0..n -> V] /\ \A i \in 0..n : f[i] = h[1..i] /\ h[1..i] \in V
  BY <1>5
<1>8. f[0] = base
  BY <1>1, <1>2, <1>7
<1> HIDE DEF f, G
<1>9. \A i \in 1..n : f[i] = step[<<i, f[i - 1]>>]
  BY <1>6, <1>7
<1> QED
  BY <1>7, <1>8, <1>9

\* The stages of a loop over transactions
Loop(f, do, s, list) ==
  /\ f \in [0..Len(list) -> States]
  /\ f[0] = s /\ f[Len(list)] = Each(do, s, list)
  /\ \A i \in 1..Len(list) : f[i] = Call(do, f[i - 1], list[i])

LEMMA EachLoops ==
  ASSUME NEW do \in Calls, NEW s \in States, NEW list \in Seq(Tx)
  PROVE  \E f : Loop(f, do, s, list)
<1>1. PICK n \in Nat : n = Len(list)
  OBVIOUS
<1>2. DOMAIN list = 1..n /\ \A i \in 1..n : list[i] \in Tx
  BY <1>1
<1> DEFINE Table0(g) == g = [S \in SUBSET (1..n) |->
                              IF S = {} THEN s ELSE Call(do, g[S \ {Max(S)}], list[Max(S)])]
           step == [p \in (1..n) \X States |-> Call(do, p[2], list[p[1]])]
<1>3. Each(do, s, list) = (CHOOSE g : Table0(g))[1..n]
  BY <1>2 DEF Each, FoldLeft, MapThenFoldSet
<1>4. \A i \in 1..n, v \in States : step[<<i, v>>] = Call(do, v, list[i])
  OBVIOUS
<1> HIDE DEF step
<1>5. \A i \in 1..n, v \in States : step[<<i, v>>] \in States
  <2> SUFFICES ASSUME NEW i \in 1..n, NEW v \in States PROVE step[<<i, v>>] \in States
    OBVIOUS
  <2> QED
    BY <1>2, <1>4, CallOne
<1>6. PICK g \in [SUBSET (1..n) -> States] : FoldTable(g, n, s, step)
  BY <1>5, FoldExists
<1>7. ASSUME NEW S \in SUBSET (1..n), S # {}
      PROVE  step[<<Max(S), g[S \ {Max(S)}]>>] = Call(do, g[S \ {Max(S)}], list[Max(S)])
  <2>1. Max(S) \in 1..n /\ S \ {Max(S)} \in SUBSET (1..n)
    BY <1>7, MaxExists
  <2> QED
    BY <1>4, <2>1
<1>8. Table0(g)
  BY <1>6, <1>7 DEF FoldTable
<1> DEFINE h == CHOOSE f : Table0(f)
<1>9. Table0(h)
  BY <1>8
<1>10. \A S \in SUBSET (1..n) :
         h[S] = IF S = {} THEN s ELSE Call(do, h[S \ {Max(S)}], list[Max(S)])
  BY <1>9
<1>11. Each(do, s, list) = h[1..n]
  BY <1>3
<1> HIDE DEF h, Table0
<1>12. h[{}] = s
  BY <1>10
<1>13. \A i \in 1..n : h[1..i - 1] \in States => h[1..i] = step[<<i, h[1..i - 1]>>]
  <2> SUFFICES ASSUME NEW i \in 1..n, h[1..i - 1] \in States
               PROVE  h[1..i] = step[<<i, h[1..i - 1]>>]
    OBVIOUS
  <2>1. /\ Max(1..i) = i /\ (1..i) \ {i} = 1..i - 1
        /\ 1..i \in SUBSET (1..n) /\ 1..i # {}
    BY Intervals
  <2>2. h[1..i] = Call(do, h[1..i - 1], list[i])
    BY <1>10, <2>1
  <2> QED
    BY <1>4, <2>2
<1>14. PICK f \in [0..n -> States] : /\ f[0] = s /\ f[n] = h[1..n]
                                     /\ \A i \in 1..n : f[i] = step[<<i, f[i - 1]>>]
  <2>1. Stages(h, n, States, s, step)
    BY <1>5, <1>12, <1>13 DEF Stages
  <2> QED
    BY ONLY n \in Nat, <2>1, FoldStages
<1>15. \A i \in 1..n : f[i] = Call(do, f[i - 1], list[i])
  <2>1. \A i \in 1..n : i - 1 \in 0..n
    OBVIOUS
  <2> QED
    BY <1>4, <1>14, <2>1
<1>16. Loop(f, do, s, list)
  BY <1>1, <1>11, <1>14, <1>15 DEF Loop
<1> QED
  BY <1>16

LEMMA EffectNone ==
  ASSUME NEW do \in Calls, NEW s \in States
  PROVE  Effect(do, s, s, {})
<1>1. \A a \in Account : s.account[a] \in Columns
  BY DEF States
<1>2. ASSUME NEW a \in Account
      PROVE  Row(do, s.account[a], s.account[a], By("signature", a, {}), By("delegate", a, {}), KeysBy(a, {}))
  <2>1. Row(do, s.account[a], s.account[a], FALSE, FALSE, {})
    BY <1>1, RowStays
  <2>2. By("signature", a, {}) = FALSE /\ By("delegate", a, {}) = FALSE /\ KeysBy(a, {}) = {}
    BY ByNone DEF By
  <2> QED
    BY <2>1, <2>2
<1>3. Tables(do, s.pending, s.pending, {})
  BY ByNone DEF Tables
<1> QED
  BY <1>2, <1>3 DEF Effect

LEMMA EffectsFollow ==
  ASSUME NEW do \in Calls, NEW r \in States, NEW p \in States, NEW q \in States, NEW T, NEW U,
         Effect(do, r, p, T), Effect(do, p, q, U)
  PROVE  Effect(do, r, q, T \cup U)
<1>1. ASSUME NEW a \in Account
      PROVE  Row(do, r.account[a], q.account[a], By("signature", a, T \cup U),
                 By("delegate", a, T \cup U), KeysBy(a, T \cup U))
  <2>1. r.account[a] \in Columns /\ p.account[a] \in Columns /\ q.account[a] \in Columns
    BY DEF States
  <2>2. \A kind : /\ By(kind, a, T) \in BOOLEAN /\ By(kind, a, U) \in BOOLEAN
                  /\ By(kind, a, T \cup U) \in BOOLEAN
                  /\ By(kind, a, T \cup U) <=> By(kind, a, T) \/ By(kind, a, U)
    BY ByBoth DEF By
  <2>3. KeysBy(a, T \cup U) = KeysBy(a, T) \cup KeysBy(a, U)
    BY ByBoth DEF KeysBy
  <2>4. /\ Row(do, r.account[a], p.account[a], By("signature", a, T), By("delegate", a, T), KeysBy(a, T))
        /\ Row(do, p.account[a], q.account[a], By("signature", a, U), By("delegate", a, U), KeysBy(a, U))
    BY DEF Effect
  <2>5. PICK s1, s2, s3, d1, d2, d3 :
          /\ s1 = By("signature", a, T) /\ s2 = By("signature", a, U) /\ s3 = By("signature", a, T \cup U)
          /\ d1 = By("delegate", a, T) /\ d2 = By("delegate", a, U) /\ d3 = By("delegate", a, T \cup U)
    OBVIOUS
  <2>6. /\ s1 \in BOOLEAN /\ s2 \in BOOLEAN /\ s3 \in BOOLEAN /\ (s3 <=> s1 \/ s2)
        /\ d1 \in BOOLEAN /\ d2 \in BOOLEAN /\ d3 \in BOOLEAN /\ (d3 <=> d1 \/ d2)
    BY <2>2, <2>5
  <2>7. /\ Row(do, r.account[a], p.account[a], s1, d1, KeysBy(a, T))
        /\ Row(do, p.account[a], q.account[a], s2, d2, KeysBy(a, U))
    BY <2>4, <2>5
  <2>8. Row(do, r.account[a], q.account[a], s3, d3, KeysBy(a, T \cup U))
    <3>1. PICK x, y, z, k1, k2, k3 : /\ x = r.account[a] /\ y = p.account[a] /\ z = q.account[a]
                                     /\ k1 = KeysBy(a, T) /\ k2 = KeysBy(a, U) /\ k3 = KeysBy(a, T \cup U)
      OBVIOUS
    <3>2. x \in Columns /\ y \in Columns /\ z \in Columns /\ k3 = k1 \cup k2
          /\ Row(do, x, y, s1, d1, k1) /\ Row(do, y, z, s2, d2, k2)
      BY <2>1, <2>3, <2>7, <3>1
    <3>3. Row(do, x, z, s3, d3, k3)
      BY ONLY do \in Calls, <2>6, <3>2, RowsFollow
    <3> QED
      BY <3>1, <3>3
  <2> QED
    BY <2>5, <2>8
<1>2. Tables(do, r.pending, q.pending, T \cup U)
  <2>1. Tables(do, r.pending, p.pending, T) /\ Tables(do, p.pending, q.pending, U)
    BY DEF Effect
  <2>2. /\ Links(T \cup U) = Links(T) \cup Links(U)
        /\ Links({u \in T \cup U : u.kind # "dapp"})
              = Links({u \in T : u.kind # "dapp"}) \cup Links({u \in U : u.kind # "dapp"})
    BY ByBoth
  <2>3. PICK A, B, C, D : A = r.pending /\ B = p.pending /\ C = q.pending /\ D = Links(T \cup U)
    OBVIOUS
  <2>4. CASE do = "applyUnconfirmed"
    BY <2>1, <2>2, <2>4 DEF Tables
  <2>5. CASE do = "apply"
    BY <2>1, <2>2, <2>5 DEF Tables
  <2>6. CASE do \in {"undoUnconfirmed", "undo"}
    BY <2>1, <2>2, <2>6 DEF Tables
  <2> QED
    BY <2>4, <2>5, <2>6 DEF Calls
<1> QED
  BY <1>1, <1>2 DEF Effect

\* The items of a list up to one
LEMMA FirstItems ==
  ASSUME NEW list, NEW n \in Nat, DOMAIN list = 1..n
  PROVE  /\ {list[j] : j \in 1..0} = {} /\ {list[j] : j \in 1..n} = ToSet(list)
         /\ \A i \in 1..n : {list[j] : j \in 1..i} = {list[j] : j \in 1..i - 1} \cup {list[i]}
<1>1. PICK none : none = 1..0
  OBVIOUS
<1>2. none = {}
  BY <1>1
<1>3. {list[j] : j \in none} = {}
  BY <1>2
<1>4. ASSUME NEW i \in 1..n
      PROVE  {list[j] : j \in 1..i} = {list[j] : j \in 1..i - 1} \cup {list[i]}
  <2>1. \A j \in 1..i : j \in 1..i - 1 \/ j = i
    OBVIOUS
  <2>2. i \in 1..i /\ \A j \in 1..i - 1 : j \in 1..i
    OBVIOUS
  <2> QED
    BY <2>1, <2>2
<1> QED
  BY <1>1, <1>3, <1>4 DEF ToSet

\* A loop has the effect of its transactions, whatever their order.
LEMMA EachEffect ==
  ASSUME NEW do \in Calls, NEW s \in States, NEW list \in Seq(Tx), NEW e, e = Each(do, s, list)
  PROVE  e \in States /\ (Fit(s) => Fit(e)) /\ Effect(do, s, e, ToSet(list))
<1>1. PICK n \in Nat : n = Len(list)
  OBVIOUS
<1>2. DOMAIN list = 1..n /\ \A i \in 1..n : list[i] \in Tx
  BY <1>1
<1>3. PICK f : Loop(f, do, s, list)
  BY EachLoops
<1>4. /\ f \in [0..n -> States] /\ f[0] = s /\ f[n] = e
      /\ \A i \in 1..n : f[i] = Call(do, f[i - 1], list[i])
  BY <1>1, <1>3 DEF Loop
<1> DEFINE First(i) == {list[j] : j \in 1..i}
           G == {i \in 0..n : f[i] \in States /\ (Fit(s) => Fit(f[i])) /\ Effect(do, s, f[i], First(i))}
<1>5. First(0) = {} /\ First(n) = ToSet(list) /\ \A i \in 1..n : First(i) = First(i - 1) \cup {list[i]}
  BY <1>2, FirstItems
<1> HIDE DEF First
<1>6. 0 \in G
  <2>1. Effect(do, s, s, {})
    BY EffectNone
  <2>2. 0 \in 0..n /\ f[0] \in States /\ (Fit(s) => Fit(f[0]))
    BY <1>4
  <2>3. Effect(do, s, f[0], First(0))
    BY <1>4, <1>5, <2>1
  <2> QED
    BY <2>2, <2>3
<1>7. ASSUME NEW k \in 0..n - 1, k \in G PROVE k + 1 \in G
  <2>1. k + 1 \in 1..n /\ (k + 1) - 1 = k /\ k + 1 \in 0..n
    OBVIOUS
  <2>2. PICK p, q, t : p = f[k] /\ q = f[k + 1] /\ t = list[k + 1]
    OBVIOUS
  <2>3. p \in States /\ t \in Tx /\ q = Call(do, p, t) /\ (Fit(s) => Fit(p)) /\ Effect(do, s, p, First(k))
    BY <1>2, <1>4, <1>7, <2>1, <2>2
  <2>4. q \in States /\ (Fit(p) => Fit(q)) /\ Effect(do, p, q, {t})
    BY ONLY do \in Calls, <2>3, CallOne
  <2>5. Effect(do, s, q, First(k) \cup {t})
    BY ONLY do \in Calls, s \in States, <2>3, <2>4, EffectsFollow
  <2>6. First(k + 1) = First(k) \cup {t}
    BY <1>5, <2>1, <2>2
  <2> QED
    BY <2>1, <2>2, <2>3, <2>4, <2>5, <2>6
<1>8. n \in G
  <2> HIDE DEF G
  <2> QED
    BY <1>6, <1>7, UpTo
<1> QED
  BY <1>4, <1>5, <1>8

-----------------------------------------------------------------------------
(* The confirmed columns                                                   *)

Same(s, e) == \A a \in Account : Confirmed(s.account[a]) = Confirmed(e.account[a])

LEMMA SameCall ==
  ASSUME NEW s \in States, NEW e \in States, NEW t \in Tx, Same(s, e)
  PROVE  Same(Call("apply", s, t), Call("apply", e, t))
<1>1. PICK x, u, v : x = t.sender /\ u = Call("apply", s, t) /\ v = Call("apply", e, t)
  OBVIOUS
<1>2. PICK r, q : r = s.account[x] /\ q = e.account[x]
  OBVIOUS
<1>3. x \in Account /\ r \in Columns /\ q \in Columns
  BY <1>1, <1>2, TxFields DEF States
<1>4. /\ u.account = [s.account EXCEPT ![x] = FieldsApply(r, t)]
      /\ v.account = [e.account EXCEPT ![x] = FieldsApply(q, t)]
  BY <1>1, <1>2 DEF Call, Apply
<1>5. Confirmed(FieldsApply(r, t)) = Confirmed(FieldsApply(q, t))
  <2>1. /\ r.second = q.second /\ r.secondKey = q.secondKey /\ r.delegate = q.delegate
        /\ r.name = q.name /\ r.keys = q.keys
    BY <1>2, <1>3 DEF Same, Confirmed
  <2>2. CASE t.kind = "signature"
    BY <1>3, <2>1, <2>2 DEF FieldsApply, SignatureApply, Confirmed, Columns
  <2>3. CASE t.kind = "delegate"
    BY <1>3, <2>1, <2>3 DEF FieldsApply, DelegateApply, Confirmed, Columns
  <2>4. CASE t.kind = "multisignature"
    BY <1>3, <2>1, <2>4 DEF FieldsApply, MultisignatureApply, Confirmed, Columns
  <2>5. CASE t.kind \notin {"signature", "delegate", "multisignature"}
    BY <1>3, <2>1, <2>5 DEF FieldsApply, Confirmed
  <2> QED
    BY <2>2, <2>3, <2>4, <2>5
<1>6. s.account \in [Account -> Columns] /\ e.account \in [Account -> Columns]
  BY DEF States
<1>7. \A a \in Account : Confirmed(u.account[a]) = Confirmed(v.account[a])
  <2> SUFFICES ASSUME NEW a \in Account PROVE Confirmed(u.account[a]) = Confirmed(v.account[a])
    OBVIOUS
  <2>1. CASE a = x
    BY <1>4, <1>5, <1>6, <2>1
  <2>2. CASE a # x
    BY <1>4, <1>6, <2>2 DEF Same
  <2> QED
    BY <2>1, <2>2
<1> QED
  BY <1>1, <1>7 DEF Same

\* The confirmed columns decide what a block makes of the confirmed columns.
LEMMA SameEach ==
  ASSUME NEW s \in States, NEW e \in States, NEW list \in Seq(Tx), Same(s, e)
  PROVE  Same(Each("apply", s, list), Each("apply", e, list))
<1>1. PICK n \in Nat : n = Len(list)
  OBVIOUS
<1>2. DOMAIN list = 1..n /\ \A i \in 1..n : list[i] \in Tx
  BY <1>1
<1>3. "apply" \in Calls
  BY DEF Calls
<1>4. PICK f : Loop(f, "apply", s, list)
  BY <1>3, EachLoops
<1>5. PICK g : Loop(g, "apply", e, list)
  BY <1>3, EachLoops
<1>6. /\ f \in [0..n -> States] /\ f[0] = s /\ f[n] = Each("apply", s, list)
      /\ g \in [0..n -> States] /\ g[0] = e /\ g[n] = Each("apply", e, list)
      /\ \A i \in 1..n : f[i] = Call("apply", f[i - 1], list[i]) /\ g[i] = Call("apply", g[i - 1], list[i])
  BY <1>1, <1>4, <1>5 DEF Loop
<1> DEFINE G == {i \in 0..n : Same(f[i], g[i])}
<1>7. 0 \in G
  BY <1>6
<1>8. ASSUME NEW k \in 0..n - 1, k \in G PROVE k + 1 \in G
  <2>1. k + 1 \in 1..n /\ (k + 1) - 1 = k /\ k + 1 \in 0..n /\ k \in 0..n
    OBVIOUS
  <2>2. PICK p, q, t : p = f[k] /\ q = g[k] /\ t = list[k + 1]
    OBVIOUS
  <2>3. p \in States /\ q \in States /\ t \in Tx /\ Same(p, q)
    BY <1>2, <1>6, <1>8, <2>1, <2>2
  <2>4. Same(Call("apply", p, t), Call("apply", q, t))
    BY ONLY <2>3, SameCall
  <2>5. f[k + 1] = Call("apply", p, t) /\ g[k + 1] = Call("apply", q, t)
    BY <1>6, <2>1, <2>2
  <2> QED
    BY <2>1, <2>4, <2>5
<1>9. n \in G
  <2> HIDE DEF G
  <2> QED
    BY <1>7, <1>8, UpTo
<1> QED
  BY <1>6, <1>9

-----------------------------------------------------------------------------
(* applyUnconfirmedList                                                    *)

Accs == [states : States, queue : Seq(Tx)]

JoinLoop(f, saved, s, list) ==
  /\ f \in [0..Len(list) -> Accs]
  /\ f[0] = [states |-> s, queue |-> <<>>] /\ f[Len(list)] = ApplyList(s, saved, list)
  /\ \A i \in 1..Len(list) : f[i] = ApplyNext(saved, f[i - 1], list[i])

LEMMA JoinAcc ==
  ASSUME NEW saved, NEW acc \in Accs, NEW t \in Tx
  PROVE  ApplyNext(saved, acc, t) \in Accs
<1>1. ApplyUnconfirmed(acc.states, t) = Call("applyUnconfirmed", acc.states, t)
      /\ "applyUnconfirmed" \in Calls /\ acc.states \in States /\ acc.queue \in Seq(Tx)
  BY DEF Call, Calls, Accs
<1>2. ApplyUnconfirmed(acc.states, t) \in States
  BY <1>1, CallOne
<1>3. Append(acc.queue, t) \in Seq(Tx)
  BY <1>1
<1> QED
  BY <1>2, <1>3 DEF ApplyNext, Accs

LEMMA JoinLoops ==
  ASSUME NEW saved, NEW s \in States, NEW list \in Seq(Tx)
  PROVE  \E f : JoinLoop(f, saved, s, list)
<1>1. PICK n \in Nat : n = Len(list)
  OBVIOUS
<1>2. DOMAIN list = 1..n /\ \A i \in 1..n : list[i] \in Tx
  BY <1>1
<1>3. PICK base : base = [states |-> s, queue |-> <<>>]
  OBVIOUS
<1>4. base \in Accs
  <2>1. <<>> \in Seq(Tx)
    OBVIOUS
  <2> QED
    BY <1>3, <2>1 DEF Accs
<1> DEFINE Table0(g) == g = [S \in SUBSET (1..n) |->
                              IF S = {} THEN base ELSE ApplyNext(saved, g[S \ {Max(S)}], list[Max(S)])]
           step == [p \in (1..n) \X Accs |-> ApplyNext(saved, p[2], list[p[1]])]
<1>5. ApplyList(s, saved, list) = (CHOOSE g : Table0(g))[1..n]
  BY <1>2, <1>3 DEF ApplyList, FoldLeft, MapThenFoldSet
<1>6. \A i \in 1..n, v \in Accs : step[<<i, v>>] = ApplyNext(saved, v, list[i])
  OBVIOUS
<1> HIDE DEF step
<1>7. \A i \in 1..n, v \in Accs : step[<<i, v>>] \in Accs
  <2> SUFFICES ASSUME NEW i \in 1..n, NEW v \in Accs PROVE step[<<i, v>>] \in Accs
    OBVIOUS
  <2> QED
    BY <1>2, <1>6, JoinAcc
<1>8. PICK g \in [SUBSET (1..n) -> Accs] : FoldTable(g, n, base, step)
  BY <1>4, <1>7, FoldExists
<1>9. ASSUME NEW S \in SUBSET (1..n), S # {}
      PROVE  step[<<Max(S), g[S \ {Max(S)}]>>] = ApplyNext(saved, g[S \ {Max(S)}], list[Max(S)])
  <2>1. Max(S) \in 1..n /\ S \ {Max(S)} \in SUBSET (1..n)
    BY <1>9, MaxExists
  <2> QED
    BY <1>6, <2>1
<1>10. Table0(g)
  BY <1>8, <1>9 DEF FoldTable
<1> DEFINE h == CHOOSE f : Table0(f)
<1>11. Table0(h)
  BY <1>10
<1>12. \A S \in SUBSET (1..n) :
         h[S] = IF S = {} THEN base ELSE ApplyNext(saved, h[S \ {Max(S)}], list[Max(S)])
  BY <1>11
<1>13. ApplyList(s, saved, list) = h[1..n]
  BY <1>5
<1> HIDE DEF h, Table0
<1>14. h[{}] = base
  BY <1>12
<1>15. \A i \in 1..n : h[1..i - 1] \in Accs => h[1..i] = step[<<i, h[1..i - 1]>>]
  <2> SUFFICES ASSUME NEW i \in 1..n, h[1..i - 1] \in Accs
               PROVE  h[1..i] = step[<<i, h[1..i - 1]>>]
    OBVIOUS
  <2>1. /\ Max(1..i) = i /\ (1..i) \ {i} = 1..i - 1
        /\ 1..i \in SUBSET (1..n) /\ 1..i # {}
    BY Intervals
  <2>2. h[1..i] = ApplyNext(saved, h[1..i - 1], list[i])
    BY <1>12, <2>1
  <2> QED
    BY <1>6, <2>2
<1>16. Stages(h, n, Accs, base, step)
  BY <1>4, <1>7, <1>14, <1>15 DEF Stages
<1>17. PICK f \in [0..n -> Accs] : /\ f[0] = base /\ f[n] = h[1..n]
                                   /\ \A i \in 1..n : f[i] = step[<<i, f[i - 1]>>]
  BY ONLY n \in Nat, <1>16, FoldStages
<1>18. \A i \in 1..n : f[i] = ApplyNext(saved, f[i - 1], list[i])
  <2>1. \A i \in 1..n : i - 1 \in 0..n
    OBVIOUS
  <2> QED
    BY <1>6, <1>17, <2>1
<1>19. JoinLoop(f, saved, s, list)
  BY <1>1, <1>3, <1>13, <1>17, <1>18 DEF JoinLoop
<1> QED
  BY <1>19

\* What of a state decides whether a transaction can be applied
Unclaimed(s, t) ==
  /\ Remembered(t) \cap s.pending = {}
  /\ t.kind = "signature" => ~s.account[t.sender].second /\ ~s.account[t.sender].uSecond

\* Two transactions that register the same exclude each other.
Apart(t, u) ==
  /\ Remembered(t) \cap Remembered(u) = {}
  /\ ~(t.kind = "signature" /\ u.kind = "signature" /\ t.sender = u.sender)

\* The transactions Q join what is in the queue in state s, which leads to e.
Joins(s, saved, e, Q) ==
  /\ e \in States /\ Fit(e) /\ Same(s, e)
  /\ Effect("applyUnconfirmed", s, e, Q)
  /\ \A t \in Q : /\ Verified(s, saved, t) /\ Unclaimed(s, t)
                  /\ t.kind = "outTransfer" => ~Known(saved, "outTransfer", t.key)
  /\ \A t, u \in Q : t # u => Apart(t, u)

LEMMA SameColumns ==
  ASSUME NEW s, NEW e, NEW a \in Account, Same(s, e)
  PROVE  /\ s.account[a].second = e.account[a].second /\ s.account[a].secondKey = e.account[a].secondKey
         /\ s.account[a].delegate = e.account[a].delegate /\ s.account[a].name = e.account[a].name
         /\ s.account[a].keys = e.account[a].keys
BY DEF Same, Confirmed

LEMMA SameDelegates ==
  ASSUME NEW s, NEW e, Same(s, e)
  PROVE  \A t \in Tx : s.account[t.sender].delegate = e.account[t.sender].delegate
<1> SUFFICES ASSUME NEW t \in Tx PROVE s.account[t.sender].delegate = e.account[t.sender].delegate
  OBVIOUS
<1>1. t.sender \in Account
  BY TxFields
<1> QED
  BY <1>1, SameColumns

LEMMA SameVerified ==
  ASSUME NEW s, NEW e, NEW saved, NEW t \in Tx, Same(s, e)
  PROVE  Verified(s, saved, t) <=> Verified(e, saved, t)
<1>1. t.sender \in Account
  BY TxFields
<1>2. \A a \in Account : s.account[a].second = e.account[a].second /\ s.account[a].delegate = e.account[a].delegate
                         /\ s.account[a].name = e.account[a].name /\ s.account[a].keys = e.account[a].keys
  BY SameColumns
<1> QED
  BY <1>1, <1>2 DEF Verified, DelegateVerified, MultisignatureVerified

LEMMA SameTwice ==
  ASSUME NEW r, NEW s, NEW e, Same(r, s), Same(s, e)
  PROVE  Same(r, e) /\ Same(s, r)
BY DEF Same

\* One more transaction joins.
LEMMA JoinsNext ==
  ASSUME NEW s \in States, NEW saved, NEW p, NEW Q \in SUBSET Tx, Joins(s, saved, p, Q),
         NEW t \in Tx, Processed(p, saved, t), Verified(p, saved, t), Applicable(p, t),
         NEW e, e = ApplyUnconfirmed(p, t)
  PROVE  Joins(s, saved, e, Q \cup {t})
<1>1. p \in States /\ Fit(p) /\ Same(s, p) /\ Effect("applyUnconfirmed", s, p, Q)
  BY DEF Joins
<1>2. "applyUnconfirmed" \in Calls /\ e = Call("applyUnconfirmed", p, t)
  BY DEF Calls, Call
<1>3. e \in States /\ Fit(e) /\ Effect("applyUnconfirmed", p, e, {t})
  BY ONLY <1>1, <1>2, t \in Tx, CallOne
<1>4. Effect("applyUnconfirmed", s, e, Q \cup {t})
  BY ONLY <1>1, <1>2, <1>3, s \in States, EffectsFollow
<1>5. Same(p, e)
  <2> SUFFICES ASSUME NEW a \in Account PROVE Confirmed(p.account[a]) = Confirmed(e.account[a])
    BY DEF Same
  <2>1. PICK r, q : r = p.account[a] /\ q = e.account[a]
    OBVIOUS
  <2>2. r \in Columns /\ q \in Columns /\ Fitted(r)
    BY <1>1, <1>3, <2>1 DEF States, Fit
  <2>3. RowApplyUnconfirmed(r, q, By("signature", a, {t}), By("delegate", a, {t}), KeysBy(a, {t}))
    BY <1>3, <2>1 DEF Effect, Row
  <2>4. By("delegate", a, {t}) => ~r.delegate
    BY <2>1 DEF By, Verified, DelegateVerified
  <2>5. q.delegate = r.delegate /\ q.name = r.name
    BY <2>2, <2>3, <2>4 DEF RowApplyUnconfirmed, Fitted, Columns
  <2>6. q.second = r.second /\ q.secondKey = r.secondKey /\ q.keys = r.keys
    BY <2>3 DEF RowApplyUnconfirmed
  <2> QED
    BY <2>1, <2>5, <2>6 DEF Confirmed
<1>6. Same(s, e)
  BY <1>1, <1>5, SameTwice
<1>7. Verified(s, saved, t)
  BY <1>1, SameVerified
<1>8. t.kind = "outTransfer" => ~Known(saved, "outTransfer", t.key)
  BY DEF Processed, OutTransferProcessed
<1>9. Remembered(t) \cap p.pending = {}
  BY TxFields DEF Processed, OutTransferProcessed, Applicable, Remembered, Kinds
<1>10. p.pending = s.pending \cup Links(Q)
  BY <1>1 DEF Effect, Tables
<1>11. t.kind = "signature" => /\ ~s.account[t.sender].second /\ ~s.account[t.sender].uSecond
                               /\ ~By("signature", t.sender, Q)
  <2> SUFFICES ASSUME t.kind = "signature"
               PROVE  /\ ~s.account[t.sender].second /\ ~s.account[t.sender].uSecond
                      /\ ~By("signature", t.sender, Q)
    OBVIOUS
  <2>1. PICK a, r, q : a = t.sender /\ r = s.account[a] /\ q = p.account[a]
    OBVIOUS
  <2>2. a \in Account /\ r \in Columns /\ q \in Columns
    BY <1>1, <2>1, TxFields DEF States
  <2>3. RowApplyUnconfirmed(r, q, By("signature", a, Q), By("delegate", a, Q), KeysBy(a, Q))
    BY <1>1, <2>1, <2>2 DEF Effect, Row
  <2>4. ~q.second /\ ~q.uSecond
    BY <2>1 DEF Applicable
  <2>5. ~r.second /\ ~r.uSecond /\ ~By("signature", a, Q)
    BY <2>2, <2>3, <2>4 DEF RowApplyUnconfirmed, Columns
  <2> QED
    BY <2>1, <2>5
<1>12. Unclaimed(s, t)
  BY <1>9, <1>10, <1>11 DEF Unclaimed
<1>13. ASSUME NEW u \in Q PROVE Apart(t, u) /\ Apart(u, t)
  <2>1. Remembered(u) \subseteq Links(Q)
    BY DEF Links
  <2>2. Remembered(t) \cap Remembered(u) = {}
    BY <1>9, <1>10, <2>1
  <2>3. ~(t.kind = "signature" /\ u.kind = "signature" /\ t.sender = u.sender)
    BY <1>11 DEF By
  <2> QED
    BY <2>2, <2>3 DEF Apart
<1>14. /\ \A u \in Q : /\ Verified(s, saved, u) /\ Unclaimed(s, u)
                       /\ u.kind = "outTransfer" => ~Known(saved, "outTransfer", u.key)
       /\ \A u, v \in Q : u # v => Apart(u, v)
  BY DEF Joins
<1>15. \A u \in Q \cup {t} : /\ Verified(s, saved, u) /\ Unclaimed(s, u)
                             /\ u.kind = "outTransfer" => ~Known(saved, "outTransfer", u.key)
  BY <1>7, <1>8, <1>12, <1>14
<1>16. \A u, v \in Q \cup {t} : u # v => Apart(u, v)
  BY <1>13, <1>14
<1> QED
  BY <1>3, <1>4, <1>6, <1>15, <1>16 DEF Joins

-----------------------------------------------------------------------------
(* Lists without repetition                                                *)

LEMMA OneMore ==
  ASSUME NEW q \in Seq(Tx), NEW t \in Tx, NEW p, p = Append(q, t)
  PROVE  /\ p \in Seq(Tx) /\ Len(p) = Len(q) + 1
         /\ ToSet(p) = ToSet(q) \cup {t}
         /\ IsInjective(q) /\ t \notin ToSet(q) => IsInjective(p)
<1>1. PICK n \in Nat : n = Len(q)
  OBVIOUS
<1>2. /\ p \in Seq(Tx) /\ Len(p) = n + 1 /\ DOMAIN p = 1..n + 1 /\ DOMAIN q = 1..n
      /\ \A i \in 1..n : p[i] = q[i]
      /\ p[n + 1] = t
  BY <1>1
<1>3. \A i \in 1..n + 1 : i \in 1..n \/ i = n + 1
  OBVIOUS
<1>4. n + 1 \in 1..n + 1 /\ \A i \in 1..n : i \in 1..n + 1
  OBVIOUS
<1>5. ToSet(p) = ToSet(q) \cup {t}
  <2>1. ToSet(p) = {p[i] : i \in 1..n + 1} /\ ToSet(q) = {q[i] : i \in 1..n}
    BY <1>2 DEF ToSet
  <2>2. ASSUME NEW x \in ToSet(p) PROVE x \in ToSet(q) \cup {t}
    <3>1. PICK i \in 1..n + 1 : x = p[i]
      BY <2>1
    <3> QED
      BY <1>2, <1>3, <2>1, <3>1
  <2>3. ASSUME NEW x \in ToSet(q) PROVE x \in ToSet(p)
    <3>1. PICK i \in 1..n : x = q[i]
      BY <2>1
    <3> QED
      BY <1>2, <1>4, <2>1, <3>1
  <2>4. t \in ToSet(p)
    BY <1>2, <1>4, <2>1
  <2> QED
    BY <2>2, <2>3, <2>4
<1>6. ASSUME IsInjective(q), t \notin ToSet(q) PROVE IsInjective(p)
  <2>1. \A i, j \in 1..n : q[i] = q[j] => i = j
    BY <1>2, <1>6 DEF IsInjective
  <2>2. \A i \in 1..n : q[i] # t
    BY <1>2, <1>6 DEF ToSet
  <2>3. \A i, j \in 1..n + 1 : p[i] = p[j] => i = j
    BY <1>2, <1>3, <2>1, <2>2
  <2> QED
    BY <1>2, <2>3 DEF IsInjective
<1> QED
  BY <1>1, <1>2, <1>5, <1>6

LEMMA EmptyList ==
  /\ \A V : <<>> \in Seq(V)
  /\ Len(<<>>) = 0 /\ ToSet(<<>>) = {} /\ IsInjective(<<>>)
<1>1. PICK q : q = <<>>
  OBVIOUS
<1>2. PICK none : none = 1..0
  OBVIOUS
<1>3. none = {} /\ DOMAIN q = none /\ Len(q) = 0 /\ \A V : q \in Seq(V)
  BY <1>1, <1>2
<1>4. ToSet(q) = {} /\ IsInjective(q)
  BY <1>3 DEF ToSet, IsInjective
<1> QED
  BY <1>1, <1>3, <1>4

\* Nothing joins: nothing changes.
LEMMA JoinsNone ==
  ASSUME NEW s \in States, Fit(s), NEW saved
  PROVE  Joins(s, saved, s, {})
<1>1. Effect("applyUnconfirmed", s, s, {})
  BY EffectNone DEF Calls
<1> QED
  BY <1>1 DEF Joins, Same

\* The outcome of a loop of applyUnconfirmedList
LEMMA JoinList ==
  ASSUME NEW s \in States, Fit(s), NEW saved, NEW list \in Seq(Tx), NEW al, al = ApplyList(s, saved, list)
  PROVE  /\ Joins(s, saved, al.states, ToSet(al.queue))
         /\ al.queue \in Seq(Tx) /\ ToSet(al.queue) \subseteq ToSet(list)
         /\ Len(al.queue) <= Len(list)
         /\ IsInjective(list) => IsInjective(al.queue)
<1>1. PICK n \in Nat : n = Len(list)
  OBVIOUS
<1>2. DOMAIN list = 1..n /\ \A i \in 1..n : list[i] \in Tx
  BY <1>1
<1>3. PICK f : JoinLoop(f, saved, s, list)
  BY JoinLoops
<1>4. /\ f \in [0..n -> Accs] /\ f[0] = [states |-> s, queue |-> <<>>] /\ f[n] = al
      /\ \A i \in 1..n : f[i] = ApplyNext(saved, f[i - 1], list[i])
  BY <1>1, <1>3 DEF JoinLoop
<1> DEFINE First(i) == {list[j] : j \in 1..i}
           Good(i, e, q) == /\ Joins(s, saved, e, ToSet(q))
                            /\ q \in Seq(Tx) /\ ToSet(q) \subseteq First(i) /\ Len(q) <= i
                            /\ IsInjective(list) => IsInjective(q)
           G == {i \in 0..n : Good(i, f[i].states, f[i].queue)}
<1>5. First(0) = {} /\ First(n) = ToSet(list) /\ \A i \in 1..n : First(i) = First(i - 1) \cup {list[i]}
  BY <1>2, FirstItems
<1>6. \A i \in 1..n : IsInjective(list) => list[i] \notin First(i - 1)
  <2>1. \A i \in 1..n : \A j \in 1..i - 1 : j \in 1..n /\ j # i
    OBVIOUS
  <2> QED
    BY <1>2, <2>1 DEF IsInjective
<1> HIDE DEF First
<1>7. 0 \in G
  <2>1. f[0].states = s /\ f[0].queue = <<>>
    BY <1>4
  <2>2. Joins(s, saved, s, {})
    BY JoinsNone
  <2>3. PICK q : q = <<>>
    OBVIOUS
  <2>4. q \in Seq(Tx) /\ Len(q) = 0 /\ ToSet(q) = {} /\ IsInjective(q)
    BY <2>3, EmptyList
  <2>5. Good(0, s, q)
    BY <1>5, <2>2, <2>4
  <2> HIDE DEF Good
  <2> QED
    BY <2>1, <2>3, <2>5
<1>8. ASSUME NEW k \in 0..n - 1, k \in G PROVE k + 1 \in G
  <2>1. k + 1 \in 1..n /\ (k + 1) - 1 = k /\ k + 1 \in 0..n /\ k \in 0..n
    OBVIOUS
  <2>2. PICK acc, new, t : acc = f[k] /\ new = f[k + 1] /\ t = list[k + 1]
    OBVIOUS
  <2>3. acc \in Accs /\ t \in Tx /\ new = ApplyNext(saved, acc, t) /\ Good(k, acc.states, acc.queue)
    BY <1>2, <1>4, <1>8, <2>1, <2>2
  <2>4. PICK p, q : p = acc.states /\ q = acc.queue
    OBVIOUS
  <2>5. p \in States /\ q \in Seq(Tx) /\ Good(k, p, q)
    BY <2>3, <2>4 DEF Accs
  <2>6. First(k + 1) = First(k) \cup {t} /\ (IsInjective(list) => t \notin First(k))
    BY <1>5, <1>6, <2>1, <2>2
  <2>7. CASE Processed(p, saved, t) /\ Verified(p, saved, t) /\ Applicable(p, t)
    <3>1. PICK e, r : e = ApplyUnconfirmed(p, t) /\ r = Append(q, t)
      OBVIOUS
    <3>2. new.states = e /\ new.queue = r
      BY <2>3, <2>4, <2>7, <3>1 DEF ApplyNext
    <3>3. PICK Q : Q = ToSet(q)
      OBVIOUS
    <3>4. r \in Seq(Tx) /\ Len(r) = Len(q) + 1 /\ ToSet(r) = Q \cup {t}
          /\ (IsInjective(q) /\ t \notin Q => IsInjective(r))
      <4>1. q \in Seq(Tx) /\ t \in Tx
        BY <2>3, <2>5
      <4>2. r = Append(q, t)
        BY <3>1
      <4>3. /\ r \in Seq(Tx) /\ Len(r) = Len(q) + 1 /\ ToSet(r) = ToSet(q) \cup {t}
            /\ IsInjective(q) /\ t \notin ToSet(q) => IsInjective(r)
        BY ONLY <4>1, <4>2, OneMore
      <4> QED
        BY ONLY <4>3, <3>3
    <3>5. Q \in SUBSET Tx /\ Joins(s, saved, p, Q)
      BY <2>5, <3>3 DEF ToSet
    <3>6. Joins(s, saved, e, Q \cup {t})
      BY ONLY s \in States, <2>3, <2>7, <3>1, <3>5, JoinsNext
    <3>7. Len(q) \in Nat /\ Len(q) <= k
      BY <2>5
    <3>8. Good(k + 1, e, r)
      BY <2>5, <2>6, <3>3, <3>4, <3>6, <3>7
    <3> HIDE DEF Good
    <3> QED
      BY <2>1, <2>2, <3>2, <3>8
  <2>8. CASE ~(Processed(p, saved, t) /\ Verified(p, saved, t) /\ Applicable(p, t))
    <3>1. new = acc
      BY <2>3, <2>4, <2>8 DEF ApplyNext
    <3>2. Len(q) \in Nat /\ Len(q) <= k
      BY <2>5
    <3>3. Good(k + 1, p, q)
      BY <2>5, <2>6, <3>2
    <3> HIDE DEF Good
    <3> QED
      BY <2>1, <2>2, <2>4, <3>1, <3>3
  <2> QED
    BY <2>7, <2>8
<1>9. n \in G
  <2> HIDE DEF G
  <2> QED
    BY <1>7, <1>8, UpTo
<1> QED
  BY <1>1, <1>4, <1>5, <1>9

-----------------------------------------------------------------------------
(* The rest of a list, and the chain applied to new accounts               *)

RestLoop(f, block, list) ==
  /\ f \in [0..Len(list) -> Seq(Tx)]
  /\ f[0] = <<>> /\ f[Len(list)] = Rest(list, block)
  /\ \A i \in 1..Len(list) : f[i] = Skip(block, f[i - 1], list[i])

ReplayLoop(f, list) ==
  /\ f \in [0..Len(list) -> States]
  /\ f[0] = NewStates /\ f[Len(list)] = Replay(list)
  /\ \A i \in 1..Len(list) : f[i] = Each("apply", f[i - 1], list[i])

LEMMA NewFit == NewStates \in States /\ Fit(NewStates)
BY StatesAssumption DEF NewStates, NewAccount, States, Columns, Fit, Fitted

LEMMA RestLoops ==
  ASSUME NEW block, NEW list \in Seq(Tx)
  PROVE  \E f : RestLoop(f, block, list)
<1>1. PICK n \in Nat : n = Len(list)
  OBVIOUS
<1>2. DOMAIN list = 1..n /\ \A i \in 1..n : list[i] \in Tx
  BY <1>1
<1>3. PICK base : base = <<>>
  OBVIOUS
<1>4. base \in Seq(Tx)
  BY <1>3, EmptyList
<1> DEFINE Table0(g) == g = [S \in SUBSET (1..n) |->
                              IF S = {} THEN base ELSE Skip(block, g[S \ {Max(S)}], list[Max(S)])]
           step == [p \in (1..n) \X Seq(Tx) |-> Skip(block, p[2], list[p[1]])]
<1>5. Rest(list, block) = (CHOOSE g : Table0(g))[1..n]
  BY <1>2, <1>3 DEF Rest, FoldLeft, MapThenFoldSet
<1>6. \A i \in 1..n, v \in Seq(Tx) : step[<<i, v>>] = Skip(block, v, list[i])
  OBVIOUS
<1> HIDE DEF step
<1>7. \A i \in 1..n, v \in Seq(Tx) : step[<<i, v>>] \in Seq(Tx)
  <2> SUFFICES ASSUME NEW i \in 1..n, NEW v \in Seq(Tx) PROVE step[<<i, v>>] \in Seq(Tx)
    OBVIOUS
  <2> QED
    BY <1>2, <1>6, OneMore DEF Skip
<1>8. PICK g \in [SUBSET (1..n) -> Seq(Tx)] : FoldTable(g, n, base, step)
  BY <1>4, <1>7, FoldExists
<1>9. ASSUME NEW S \in SUBSET (1..n), S # {}
      PROVE  step[<<Max(S), g[S \ {Max(S)}]>>] = Skip(block, g[S \ {Max(S)}], list[Max(S)])
  <2>1. Max(S) \in 1..n /\ S \ {Max(S)} \in SUBSET (1..n)
    BY <1>9, MaxExists
  <2> QED
    BY <1>6, <2>1
<1>10. Table0(g)
  BY <1>8, <1>9 DEF FoldTable
<1> DEFINE h == CHOOSE f : Table0(f)
<1>11. Table0(h)
  BY <1>10
<1>12. \A S \in SUBSET (1..n) :
         h[S] = IF S = {} THEN base ELSE Skip(block, h[S \ {Max(S)}], list[Max(S)])
  BY <1>11
<1>13. Rest(list, block) = h[1..n]
  BY <1>5
<1> HIDE DEF h, Table0
<1>14. h[{}] = base
  BY <1>12
<1>15. \A i \in 1..n : h[1..i - 1] \in Seq(Tx) => h[1..i] = step[<<i, h[1..i - 1]>>]
  <2> SUFFICES ASSUME NEW i \in 1..n, h[1..i - 1] \in Seq(Tx)
               PROVE  h[1..i] = step[<<i, h[1..i - 1]>>]
    OBVIOUS
  <2>1. /\ Max(1..i) = i /\ (1..i) \ {i} = 1..i - 1
        /\ 1..i \in SUBSET (1..n) /\ 1..i # {}
    BY Intervals
  <2>2. h[1..i] = Skip(block, h[1..i - 1], list[i])
    BY <1>12, <2>1
  <2> QED
    BY <1>6, <2>2
<1>16. Stages(h, n, Seq(Tx), base, step)
  BY <1>4, <1>7, <1>14, <1>15 DEF Stages
<1>17. PICK f \in [0..n -> Seq(Tx)] : /\ f[0] = base /\ f[n] = h[1..n]
                                   /\ \A i \in 1..n : f[i] = step[<<i, f[i - 1]>>]
  BY ONLY n \in Nat, <1>16, FoldStages
<1>18. \A i \in 1..n : f[i] = Skip(block, f[i - 1], list[i])
  <2>1. \A i \in 1..n : i - 1 \in 0..n
    OBVIOUS
  <2> QED
    BY <1>6, <1>17, <2>1
<1>19. RestLoop(f, block, list)
  BY <1>1, <1>3, <1>13, <1>17, <1>18 DEF RestLoop
<1> QED
  BY <1>19

LEMMA ReplayLoops ==
  ASSUME NEW list \in Seq(Seq(Tx))
  PROVE  \E f : ReplayLoop(f, list)
<1>1. PICK n \in Nat : n = Len(list)
  OBVIOUS
<1>2. DOMAIN list = 1..n /\ \A i \in 1..n : list[i] \in Seq(Tx)
  BY <1>1
<1>3. PICK base : base = NewStates
  OBVIOUS
<1>4. base \in States
  BY <1>3, NewFit
<1> DEFINE Table0(g) == g = [S \in SUBSET (1..n) |->
                              IF S = {} THEN base ELSE Each("apply", g[S \ {Max(S)}], list[Max(S)])]
           step == [p \in (1..n) \X States |-> Each("apply", p[2], list[p[1]])]
<1>5. Replay(list) = (CHOOSE g : Table0(g))[1..n]
  BY <1>2, <1>3 DEF Replay, FoldLeft, MapThenFoldSet
<1>6. \A i \in 1..n, v \in States : step[<<i, v>>] = Each("apply", v, list[i])
  OBVIOUS
<1> HIDE DEF step
<1>7. \A i \in 1..n, v \in States : step[<<i, v>>] \in States
  <2> SUFFICES ASSUME NEW i \in 1..n, NEW v \in States PROVE step[<<i, v>>] \in States
    OBVIOUS
  <2> QED
    BY <1>2, <1>6, EachEffect DEF Calls
<1>8. PICK g \in [SUBSET (1..n) -> States] : FoldTable(g, n, base, step)
  BY <1>4, <1>7, FoldExists
<1>9. ASSUME NEW S \in SUBSET (1..n), S # {}
      PROVE  step[<<Max(S), g[S \ {Max(S)}]>>] = Each("apply", g[S \ {Max(S)}], list[Max(S)])
  <2>1. Max(S) \in 1..n /\ S \ {Max(S)} \in SUBSET (1..n)
    BY <1>9, MaxExists
  <2> QED
    BY <1>6, <2>1
<1>10. Table0(g)
  BY <1>8, <1>9 DEF FoldTable
<1> DEFINE h == CHOOSE f : Table0(f)
<1>11. Table0(h)
  BY <1>10
<1>12. \A S \in SUBSET (1..n) :
         h[S] = IF S = {} THEN base ELSE Each("apply", h[S \ {Max(S)}], list[Max(S)])
  BY <1>11
<1>13. Replay(list) = h[1..n]
  BY <1>5
<1> HIDE DEF h, Table0
<1>14. h[{}] = base
  BY <1>12
<1>15. \A i \in 1..n : h[1..i - 1] \in States => h[1..i] = step[<<i, h[1..i - 1]>>]
  <2> SUFFICES ASSUME NEW i \in 1..n, h[1..i - 1] \in States
               PROVE  h[1..i] = step[<<i, h[1..i - 1]>>]
    OBVIOUS
  <2>1. /\ Max(1..i) = i /\ (1..i) \ {i} = 1..i - 1
        /\ 1..i \in SUBSET (1..n) /\ 1..i # {}
    BY Intervals
  <2>2. h[1..i] = Each("apply", h[1..i - 1], list[i])
    BY <1>12, <2>1
  <2> QED
    BY <1>6, <2>2
<1>16. Stages(h, n, States, base, step)
  BY <1>4, <1>7, <1>14, <1>15 DEF Stages
<1>17. PICK f \in [0..n -> States] : /\ f[0] = base /\ f[n] = h[1..n]
                                   /\ \A i \in 1..n : f[i] = step[<<i, f[i - 1]>>]
  BY ONLY n \in Nat, <1>16, FoldStages
<1>18. \A i \in 1..n : f[i] = Each("apply", f[i - 1], list[i])
  <2>1. \A i \in 1..n : i - 1 \in 0..n
    OBVIOUS
  <2> QED
    BY <1>6, <1>17, <2>1
<1>19. ReplayLoop(f, list)
  BY <1>1, <1>3, <1>13, <1>17, <1>18 DEF ReplayLoop
<1> QED
  BY <1>19

\* What is not in the block remains, in its order.
LEMMA RestOf ==
  ASSUME NEW block, NEW list \in Seq(Tx), NEW r, r = Rest(list, block)
  PROVE  /\ r \in Seq(Tx) /\ Len(r) <= Len(list)
         /\ ToSet(r) = ToSet(list) \ ToSet(block)
         /\ IsInjective(list) => IsInjective(r)
<1>1. PICK n \in Nat : n = Len(list)
  OBVIOUS
<1>2. DOMAIN list = 1..n /\ \A i \in 1..n : list[i] \in Tx
  BY <1>1
<1>3. PICK f : RestLoop(f, block, list)
  BY RestLoops
<1>4. /\ f \in [0..n -> Seq(Tx)] /\ f[0] = <<>> /\ f[n] = r
      /\ \A i \in 1..n : f[i] = Skip(block, f[i - 1], list[i])
  BY <1>1, <1>3 DEF RestLoop
<1> DEFINE First(i) == {list[j] : j \in 1..i}
           Good(i, q) == /\ q \in Seq(Tx) /\ Len(q) <= i
                         /\ ToSet(q) = First(i) \ ToSet(block)
                         /\ IsInjective(list) => IsInjective(q)
           G == {i \in 0..n : Good(i, f[i])}
<1>5. First(0) = {} /\ First(n) = ToSet(list) /\ \A i \in 1..n : First(i) = First(i - 1) \cup {list[i]}
  BY <1>2, FirstItems
<1>6. \A i \in 1..n : IsInjective(list) => list[i] \notin First(i - 1)
  <2>1. \A i \in 1..n : \A j \in 1..i - 1 : j \in 1..n /\ j # i
    OBVIOUS
  <2> QED
    BY <1>2, <2>1 DEF IsInjective
<1> HIDE DEF First
<1>7. 0 \in G
  <2>1. PICK q : q = <<>>
    OBVIOUS
  <2>2. q \in Seq(Tx) /\ Len(q) = 0 /\ ToSet(q) = {} /\ IsInjective(q)
    BY <2>1, EmptyList
  <2>3. Good(0, q)
    BY <1>5, <2>2
  <2> HIDE DEF Good
  <2> QED
    BY <1>4, <2>1, <2>3
<1>8. ASSUME NEW k \in 0..n - 1, k \in G PROVE k + 1 \in G
  <2>1. k + 1 \in 1..n /\ (k + 1) - 1 = k /\ k + 1 \in 0..n /\ k \in 0..n
    OBVIOUS
  <2>2. PICK q, new, t : q = f[k] /\ new = f[k + 1] /\ t = list[k + 1]
    OBVIOUS
  <2>3. t \in Tx /\ new = Skip(block, q, t) /\ Good(k, q)
    BY <1>2, <1>4, <1>8, <2>1, <2>2
  <2>4. First(k + 1) = First(k) \cup {t} /\ (IsInjective(list) => t \notin First(k))
    BY <1>5, <1>6, <2>1, <2>2
  <2>5. Len(q) \in Nat /\ Len(q) <= k
    BY <2>3
  <2>6. CASE t \in ToSet(block)
    <3>1. new = q
      BY <2>3, <2>6 DEF Skip
    <3>2. Good(k + 1, q)
      BY <2>3, <2>4, <2>5, <2>6
    <3> HIDE DEF Good
    <3> QED
      BY <2>1, <2>2, <3>1, <3>2
  <2>7. CASE t \notin ToSet(block)
    <3>1. q \in Seq(Tx) /\ t \in Tx /\ new = Append(q, t)
      BY <2>3, <2>7 DEF Skip
    <3>2. /\ new \in Seq(Tx) /\ Len(new) = Len(q) + 1 /\ ToSet(new) = ToSet(q) \cup {t}
          /\ IsInjective(q) /\ t \notin ToSet(q) => IsInjective(new)
      BY ONLY <3>1, OneMore
    <3>3. Good(k + 1, new)
      BY <2>3, <2>4, <2>5, <2>7, <3>2
    <3> HIDE DEF Good
    <3> QED
      BY <2>1, <2>2, <3>3
  <2> QED
    BY <2>6, <2>7
<1>9. n \in G
  <2> HIDE DEF G
  <2> QED
    BY <1>7, <1>8, UpTo
<1> QED
  BY <1>1, <1>4, <1>5, <1>9

\* One chain is another with one more block.
Longer(new, bs, b) ==
  /\ new \in Seq(Seq(Tx)) /\ bs \in Seq(Seq(Tx)) /\ b \in Seq(Tx)
  /\ Len(new) = Len(bs) + 1 /\ new[Len(bs) + 1] = b
  /\ \A i \in 1..Len(bs) : new[i] = bs[i]

LEMMA LongerByOne ==
  ASSUME NEW bs \in Seq(Seq(Tx)), NEW b \in Seq(Tx), NEW new, new = Append(bs, b)
  PROVE  Longer(new, bs, b)
BY DEF Longer

LEMMA FrontAndLast ==
  ASSUME NEW bs \in Seq(Seq(Tx)), bs # <<>>, NEW fr, fr = Front(bs), NEW b, b = Last(bs)
  PROVE  Longer(bs, fr, b)
<1>1. PICK n \in Nat : n = Len(bs)
  OBVIOUS
<1>2. n > 0 /\ n - 1 \in Nat /\ n \in 1..n
  BY <1>1
<1>3. \A i \in 1..n : bs[i] \in Seq(Tx)
  BY <1>1
<1>4. fr = SubSeq(bs, 1, n - 1)
  BY <1>1 DEF Front
<1>5. \A i \in 1..n - 1 : i \in 1..n
  BY <1>2
<1>6. fr \in Seq(Seq(Tx)) /\ Len(fr) = n - 1 /\ \A i \in 1..n - 1 : fr[i] = bs[i]
  BY <1>1, <1>2, <1>4
<1>7. b = bs[n] /\ b \in Seq(Tx)
  BY <1>1, <1>2, <1>3 DEF Last
<1> QED
  BY <1>1, <1>2, <1>6, <1>7 DEF Longer

LEMMA LongerBlocks ==
  ASSUME NEW new, NEW bs, NEW b, Longer(new, bs, b)
  PROVE  /\ InBlocks(new) = InBlocks(bs) \cup ToSet(b)
         /\ DOMAIN bs = 1..Len(bs) /\ DOMAIN new = 1..Len(bs) + 1 /\ Len(bs) \in Nat
         /\ \A i \in 1..Len(bs) + 1 : i \in 1..Len(bs) \/ i = Len(bs) + 1
<1>1. PICK n \in Nat : n = Len(bs)
  BY DEF Longer
<1>2. DOMAIN bs = 1..n /\ DOMAIN new = 1..n + 1 /\ new[n + 1] = b /\ \A i \in 1..n : new[i] = bs[i]
  BY <1>1 DEF Longer
<1>3. \A i \in 1..n + 1 : i \in 1..n \/ i = n + 1
  OBVIOUS
<1>4. n + 1 \in 1..n + 1 /\ \A i \in 1..n : i \in 1..n + 1
  OBVIOUS
<1>5. InBlocks(new) \subseteq InBlocks(bs) \cup ToSet(b)
  BY <1>2, <1>3 DEF InBlocks
<1>6. InBlocks(bs) \subseteq InBlocks(new)
  BY <1>2, <1>4 DEF InBlocks
<1>7. ToSet(b) \subseteq InBlocks(new)
  BY <1>2, <1>4 DEF InBlocks
<1> QED
  BY <1>1, <1>2, <1>3, <1>5, <1>6, <1>7

\* The chain applied to new accounts is a state, and its effect that of all of
\* its transactions.
LEMMA Replayed ==
  ASSUME NEW bs \in Seq(Seq(Tx)), NEW P, P = Replay(bs)
  PROVE  P \in States /\ Fit(P) /\ Effect("apply", NewStates, P, InBlocks(bs))
<1>1. PICK n \in Nat : n = Len(bs)
  OBVIOUS
<1>2. DOMAIN bs = 1..n /\ \A i \in 1..n : bs[i] \in Seq(Tx)
  BY <1>1
<1>3. PICK f : ReplayLoop(f, bs)
  BY ReplayLoops
<1>4. /\ f \in [0..n -> States] /\ f[0] = NewStates /\ f[n] = P
      /\ \A i \in 1..n : f[i] = Each("apply", f[i - 1], bs[i])
  BY <1>1, <1>3 DEF ReplayLoop
<1> DEFINE First(i) == UNION {ToSet(bs[j]) : j \in 1..i}
           G == {i \in 0..n : Fit(f[i]) /\ Effect("apply", NewStates, f[i], First(i))}
<1>5. First(0) = {} /\ First(n) = InBlocks(bs)
  <2>1. PICK none : none = 1..0
    OBVIOUS
  <2>2. none = {}
    BY <2>1
  <2>3. UNION {ToSet(bs[j]) : j \in none} = {}
    BY <2>2
  <2> QED
    BY <1>2, <2>1, <2>3 DEF InBlocks
<1>6. ASSUME NEW i \in 1..n PROVE First(i) = First(i - 1) \cup ToSet(bs[i])
  <2>1. \A j \in 1..i : j \in 1..i - 1 \/ j = i
    OBVIOUS
  <2>2. i \in 1..i /\ \A j \in 1..i - 1 : j \in 1..i
    OBVIOUS
  <2> QED
    BY <2>1, <2>2
<1> HIDE DEF First
<1>7. "apply" \in Calls
  BY DEF Calls
<1>8. 0 \in G
  <2>1. Effect("apply", NewStates, NewStates, {})
    BY <1>7, NewFit, EffectNone
  <2>2. Effect("apply", NewStates, f[0], First(0)) /\ Fit(f[0])
    BY <1>4, <1>5, <2>1, NewFit
  <2>3. 0 \in 0..n
    OBVIOUS
  <2> QED
    BY <2>2, <2>3
<1>9. ASSUME NEW k \in 0..n - 1, k \in G PROVE k + 1 \in G
  <2>1. k + 1 \in 1..n /\ (k + 1) - 1 = k /\ k + 1 \in 0..n /\ k \in 0..n
    OBVIOUS
  <2>2. PICK p, q, b, new : p = f[k] /\ q = f[k + 1] /\ b = bs[k + 1] /\ new = NewStates
    OBVIOUS
  <2>3. p \in States /\ b \in Seq(Tx) /\ q = Each("apply", p, b) /\ Fit(p) /\ new \in States
        /\ Effect("apply", new, p, First(k))
    BY <1>2, <1>4, <1>9, <2>1, <2>2, NewFit
  <2>4. q \in States /\ Fit(q) /\ Effect("apply", p, q, ToSet(b))
    BY ONLY <1>7, <2>3, EachEffect
  <2>5. Effect("apply", new, q, First(k) \cup ToSet(b))
    BY ONLY <1>7, <2>3, <2>4, EffectsFollow
  <2>6. First(k + 1) = First(k) \cup ToSet(b)
    BY <1>6, <2>1, <2>2
  <2> QED
    BY <2>1, <2>2, <2>4, <2>5, <2>6
<1>10. n \in G
  <2> HIDE DEF G
  <2> QED
    BY <1>8, <1>9, UpTo
<1> QED
  BY <1>4, <1>5, <1>10

LEMMA ReplayNone == Replay(<<>>) = NewStates
<1>1. PICK bs : bs = <<>>
  OBVIOUS
<1>2. bs \in Seq(Seq(Tx)) /\ Len(bs) = 0
  BY <1>1
<1>3. PICK f : ReplayLoop(f, bs)
  BY <1>2, ReplayLoops
<1> QED
  BY <1>1, <1>2, <1>3 DEF ReplayLoop

LEMMA ReplayNext ==
  ASSUME NEW new, NEW bs, NEW b, Longer(new, bs, b)
  PROVE  Replay(new) = Each("apply", Replay(bs), b)
<1>1. PICK n \in Nat : n = Len(bs)
  BY DEF Longer
<1>2. /\ bs \in Seq(Seq(Tx)) /\ new \in Seq(Seq(Tx)) /\ Len(new) = n + 1 /\ new[n + 1] = b
      /\ \A i \in 1..n : new[i] = bs[i]
  BY <1>1 DEF Longer
<1>3. PICK f : ReplayLoop(f, bs)
  BY <1>2, ReplayLoops
<1>4. PICK g : ReplayLoop(g, new)
  BY <1>2, ReplayLoops
<1>5. /\ f[0] = NewStates /\ f[n] = Replay(bs)
      /\ \A i \in 1..n : f[i] = Each("apply", f[i - 1], bs[i])
      /\ g[0] = NewStates /\ g[n + 1] = Replay(new)
      /\ \A i \in 1..n + 1 : g[i] = Each("apply", g[i - 1], new[i])
  BY <1>1, <1>2, <1>3, <1>4 DEF ReplayLoop
<1> DEFINE G == {i \in 0..n : f[i] = g[i]}
<1>6. 0 \in G
  BY <1>5
<1>7. ASSUME NEW k \in 0..n - 1, k \in G PROVE k + 1 \in G
  <2>1. k + 1 \in 1..n /\ k + 1 \in 1..n + 1 /\ (k + 1) - 1 = k /\ k + 1 \in 0..n /\ k \in 0..n
    OBVIOUS
  <2>2. f[k + 1] = Each("apply", f[k], bs[k + 1]) /\ g[k + 1] = Each("apply", g[k], new[k + 1])
    BY <1>5, <2>1
  <2>3. f[k] = g[k] /\ new[k + 1] = bs[k + 1]
    BY <1>2, <1>7, <2>1
  <2> QED
    BY <2>1, <2>2, <2>3
<1>8. n \in G
  <2> HIDE DEF G
  <2> QED
    BY <1>6, <1>7, UpTo
<1>9. n + 1 \in 1..n + 1 /\ (n + 1) - 1 = n
  OBVIOUS
<1>10. g[n + 1] = Each("apply", g[n], new[n + 1])
  BY <1>5, <1>9
<1> QED
  BY <1>2, <1>5, <1>8, <1>10

-----------------------------------------------------------------------------
(* What can be applied of a block                                          *)

LEMMA MaxTo ==
  ASSUME NEW n \in Nat, NEW S \in SUBSET (0..n), S # {}
  PROVE  Max(S) \in S /\ \A y \in S : Max(S) >= y
<1> DEFINE T == {x + 1 : x \in S}
<1>1. T \in SUBSET (1..n + 1) /\ T # {} /\ n + 1 \in Nat
  <2>1. \A y \in S : y \in 0..n
    OBVIOUS
  <2>2. \A y \in S : y + 1 \in 1..n + 1
    BY <2>1
  <2>3. PICK N : N = 1..n + 1
    OBVIOUS
  <2>4. \A x \in T : x \in N
    BY <2>2, <2>3
  <2>5. T \subseteq N /\ T # {}
    BY <2>4
  <2> HIDE DEF T
  <2> QED
    BY <2>3, <2>5
<1>2. Max(T) \in T /\ \A y \in T : Max(T) >= y
  BY <1>1, MaxExists
<1>3. PICK x \in S : Max(T) = x + 1
  BY <1>2
<1>4. \A y \in S : y \in Int /\ y + 1 \in T
  OBVIOUS
<1>5. \A y \in S : x + 1 >= y + 1
  BY <1>2, <1>3, <1>4
<1> HIDE DEF T
<1>6. \A y \in S : x >= y
  BY <1>4, <1>5
<1> QED
  BY <1>6 DEF Max

Fits(s, block, n) ==
  \A i \in 1..n : Applicable(Each("applyUnconfirmed", s, SubSeq(block, 1, i - 1)), block[i])

LEMMA FittingIs ==
  ASSUME NEW s, NEW block \in Seq(Tx), NEW fitting, fitting = Fitting(s, block)
  PROVE  /\ fitting \in Seq(Tx) /\ ToSet(fitting) \subseteq ToSet(block)
         /\ Fits(s, block, Len(block)) => fitting = block
<1>1. PICK n \in Nat : n = Len(block)
  OBVIOUS
<1>2. DOMAIN block = 1..n /\ \A i \in 1..n : block[i] \in Tx
  BY <1>1
<1>3. PICK S : S = {k \in 0..n : Fits(s, block, k)}
  OBVIOUS
<1>4. fitting = SubSeq(block, 1, Max(S))
  BY <1>1, <1>3 DEF Fitting, Fits
<1>5. 0 \in S
  <2>1. PICK none : none = 1..0
    OBVIOUS
  <2>2. none = {}
    BY <2>1
  <2>3. \A i \in none : Applicable(Each("applyUnconfirmed", s, SubSeq(block, 1, i - 1)), block[i])
    BY <2>2
  <2>4. Fits(s, block, 0)
    BY <2>1, <2>3 DEF Fits
  <2> QED
    BY <1>3, <2>4
<1>6. PICK m : m = Max(S)
  OBVIOUS
<1>7. m \in S /\ \A y \in S : m >= y
  <2>1. S \in SUBSET (0..n) /\ S # {}
    BY <1>3, <1>5
  <2> QED
    BY ONLY n \in Nat, <1>6, <2>1, MaxTo
<1>8. m \in 0..n
  BY <1>3, <1>7
<1>9. fitting \in Seq(Tx) /\ Len(fitting) = m /\ \A i \in 1..m : fitting[i] = block[i]
  BY <1>1, <1>4, <1>6, <1>8
<1>10. ToSet(fitting) \subseteq ToSet(block)
  <2>1. DOMAIN fitting = 1..m /\ \A i \in 1..m : i \in 1..n
    BY <1>8, <1>9
  <2> QED
    BY <1>2, <1>9, <2>1 DEF ToSet
<1>11. ASSUME Fits(s, block, n) PROVE fitting = block
  <2>1. n \in S
    BY <1>3, <1>11
  <2>2. m = n
    BY <1>7, <1>8, <2>1
  <2> QED
    BY <1>1, <1>4, <1>6, <2>2
<1> QED
  BY <1>1, <1>9, <1>10, <1>11

\* A block whose transactions can all join, one after another, can be applied.
LEMMA FittingAll ==
  ASSUME NEW s \in States, NEW saved, NEW p, NEW block \in Seq(Tx), IsInjective(block),
         Joins(s, saved, p, ToSet(block))
  PROVE  Fits(s, block, Len(block))
<1>1. PICK n \in Nat : n = Len(block)
  OBVIOUS
<1>2. DOMAIN block = 1..n /\ \A i \in 1..n : block[i] \in Tx
  BY <1>1
<1>3. SUFFICES ASSUME NEW i \in 1..n
               PROVE  Applicable(Each("applyUnconfirmed", s, SubSeq(block, 1, i - 1)), block[i])
  BY <1>1 DEF Fits
<1>4. PICK t, list, e : /\ t = block[i] /\ list = SubSeq(block, 1, i - 1)
                        /\ e = Each("applyUnconfirmed", s, list)
  OBVIOUS
<1>5. i - 1 \in 0..n
  OBVIOUS
<1>6. list \in Seq(Tx) /\ Len(list) = i - 1 /\ \A j \in 1..i - 1 : list[j] = block[j]
  BY <1>1, <1>4, <1>5
<1>7. \A j \in 1..i - 1 : j \in 1..n /\ j # i
  OBVIOUS
<1>8. ASSUME NEW u \in ToSet(list) PROVE u \in ToSet(block) /\ u # t
  <2>1. PICK j \in 1..i - 1 : u = block[j]
    BY <1>6 DEF ToSet
  <2>2. block[j] # block[i] /\ u \in ToSet(block)
    BY <1>2, <1>7, <2>1 DEF IsInjective, ToSet
  <2> QED
    BY <1>4, <2>1, <2>2
<1>9. t \in ToSet(block) /\ t \in Tx
  BY <1>2, <1>4 DEF ToSet
<1>10. Unclaimed(s, t) /\ \A u \in ToSet(list) : Apart(t, u)
  BY <1>8, <1>9 DEF Joins
<1>11. "applyUnconfirmed" \in Calls
  BY DEF Calls
<1>12. e \in States /\ Effect("applyUnconfirmed", s, e, ToSet(list))
  BY ONLY s \in States, <1>4, <1>6, <1>11, EachEffect
<1>13. Remembered(t) \cap e.pending = {}
  <2>1. e.pending = s.pending \cup Links(ToSet(list))
    BY <1>12 DEF Effect, Tables
  <2>2. Remembered(t) \cap Links(ToSet(list)) = {}
    BY <1>10 DEF Apart, Links
  <2> QED
    BY <1>10, <2>1, <2>2 DEF Unclaimed
<1>14. ASSUME t.kind = "signature"
       PROVE  ~e.account[t.sender].second /\ ~e.account[t.sender].uSecond
  <2>1. PICK a, r, q : a = t.sender /\ r = s.account[a] /\ q = e.account[a]
    OBVIOUS
  <2>2. a \in Account /\ r \in Columns /\ q \in Columns
    BY <1>9, <1>12, <2>1, TxFields DEF States
  <2>3. RowApplyUnconfirmed(r, q, By("signature", a, ToSet(list)), By("delegate", a, ToSet(list)),
                            KeysBy(a, ToSet(list)))
    BY <1>12, <2>1, <2>2 DEF Effect, Row
  <2>4. ~By("signature", a, ToSet(list))
    BY <1>10, <1>14, <2>1 DEF By, Apart
  <2>5. ~r.second /\ ~r.uSecond
    BY <1>10, <1>14, <2>1 DEF Unclaimed
  <2> QED
    BY <2>1, <2>2, <2>3, <2>4, <2>5 DEF RowApplyUnconfirmed, Columns
<1>15. Applicable(e, t)
  BY <1>13, <1>14 DEF Applicable
<1> QED
  BY <1>4, <1>15

\* What touches no confirmed delegate leaves the confirmed columns alone.
LEMMA SameKept ==
  ASSUME NEW do \in {"applyUnconfirmed", "undoUnconfirmed"}, NEW s \in States, NEW e \in States, Fit(s),
         NEW T, Effect(do, s, e, T),
         \A t \in T : t.kind = "delegate" => ~s.account[t.sender].delegate
  PROVE  Same(s, e)
<1> SUFFICES ASSUME NEW a \in Account PROVE Confirmed(s.account[a]) = Confirmed(e.account[a])
  BY DEF Same
<1>1. PICK r, q : r = s.account[a] /\ q = e.account[a]
  OBVIOUS
<1>2. r \in Columns /\ q \in Columns /\ Fitted(r)
  BY <1>1 DEF States, Fit
<1>3. PICK sig, del, keys : sig = By("signature", a, T) /\ del = By("delegate", a, T) /\ keys = KeysBy(a, T)
  OBVIOUS
<1>4. RowApplyUnconfirmed(r, q, sig, del, keys) \/ RowUndoUnconfirmed(r, q, sig, del, keys)
  BY <1>1, <1>3 DEF Effect, Row
<1>5. del => ~r.delegate
  BY <1>1, <1>3 DEF By
<1>6. del \in BOOLEAN
  BY <1>3 DEF By
<1>7. q.delegate = r.delegate /\ q.name = r.name
  BY <1>2, <1>4, <1>5, <1>6 DEF RowApplyUnconfirmed, RowUndoUnconfirmed, Fitted, Columns
<1>8. q.second = r.second /\ q.secondKey = r.secondKey /\ q.keys = r.keys
  BY <1>4 DEF RowApplyUnconfirmed, RowUndoUnconfirmed
<1> QED
  BY <1>1, <1>7, <1>8 DEF Confirmed

-----------------------------------------------------------------------------
(* The parts of the invariant, for a state s, a queue Q and a chain        *)

LEMMA TxListsAre ==
  ASSUME NEW n \in Nat, NEW list
  PROVE  list \in TxLists(n) <=> list \in Seq(Tx) /\ IsInjective(list) /\ Len(list) <= n
<1>1. ASSUME list \in TxLists(n) PROVE list \in Seq(Tx) /\ IsInjective(list) /\ Len(list) <= n
  <2>1. PICK k \in 0..n : list \in [1..k -> Tx] /\ IsInjective(list)
    BY <1>1 DEF TxLists
  <2> QED
    BY <2>1
<1>2. ASSUME list \in Seq(Tx), IsInjective(list), Len(list) <= n PROVE list \in TxLists(n)
  <2>1. PICK k : k = Len(list)
    OBVIOUS
  <2>2. k \in 0..n /\ list \in [1..k -> Tx]
    BY <1>2, <2>1
  <2> QED
    BY <1>2, <2>2 DEF TxLists
<1> QED
  BY <1>1, <1>2

\* What stays true of the queue, whatever happens to the chain: nothing in it
\* is already registered.
Holds(s, Q, C) ==
  \A t \in Q : LET r == s.account[t.sender] IN
    /\ t.kind = "delegate" => ~r.delegate
    /\ t.kind = "multisignature" => r.keys = {}
    /\ t.kind = "signature" => ~r.second
    /\ t.kind \in {"dapp", "outTransfer"} => ~Known(C, t.kind, t.key)

Verifies(s, Q, C) == \A t \in Q : Verified(s, C, t)

Exact(s, Q, C) ==
  /\ \A a \in Account : LET r == s.account[a] IN
       /\ By("signature", a, Q) => r.uSecond
       /\ r.uSecond => By("signature", a, Q) \/ r.second
       /\ By("delegate", a, Q) => r.uDelegate /\ ~r.delegate
       /\ r.uDelegate => By("delegate", a, Q) \/ r.delegate
       /\ r.uKeys = r.keys \cup KeysBy(a, Q)
  /\ Links(Q) \subseteq s.pending
  /\ s.pending \subseteq Links(Q) \cup Links({u \in C : u.kind = "dapp"})

LEMMA JoinHolds ==
  ASSUME NEW s, NEW e, NEW Q \in SUBSET Tx, NEW R \in SUBSET Tx, NEW C, Holds(s, Q, C), Joins(s, C, e, R)
  PROVE  Holds(e, Q \cup R, C)
<1>1. Same(s, e)
  BY DEF Joins
<1>2. ASSUME NEW t \in Q \cup R, NEW r, r = s.account[t.sender]
      PROVE  /\ t.kind = "delegate" => ~r.delegate
             /\ t.kind = "multisignature" => r.keys = {}
             /\ t.kind = "signature" => ~r.second
             /\ t.kind \in {"dapp", "outTransfer"} => ~Known(C, t.kind, t.key)
  <2>1. CASE t \in Q
    BY <1>2, <2>1 DEF Holds
  <2>2. CASE t \in R
    <3>1. Verified(s, C, t) /\ Unclaimed(s, t) /\ (t.kind = "outTransfer" => ~Known(C, "outTransfer", t.key))
      BY <2>2 DEF Joins
    <3> QED
      BY <1>2, <3>1 DEF Verified, Unclaimed, DelegateVerified, MultisignatureVerified, DAppVerified
  <2> QED
    BY <2>1, <2>2
<1>3. ASSUME NEW t \in Q \cup R, NEW q, q = e.account[t.sender]
      PROVE  /\ t.kind = "delegate" => ~q.delegate
             /\ t.kind = "multisignature" => q.keys = {}
             /\ t.kind = "signature" => ~q.second
             /\ t.kind \in {"dapp", "outTransfer"} => ~Known(C, t.kind, t.key)
  <2>1. PICK r, a : a = t.sender /\ r = s.account[a]
    OBVIOUS
  <2>2. a \in Account
    BY <2>1, TxFields
  <2>3. r.delegate = q.delegate /\ r.keys = q.keys /\ r.second = q.second
    BY <1>1, <1>3, <2>1, <2>2, SameColumns
  <2> QED
    BY <1>2, <2>1, <2>3
<1> QED
  BY <1>3 DEF Holds

LEMMA JoinVerifies ==
  ASSUME NEW s, NEW e, NEW Q \in SUBSET Tx, NEW R \in SUBSET Tx, NEW C, Verifies(s, Q, C), Joins(s, C, e, R)
  PROVE  Verifies(e, Q \cup R, C)
<1>1. Same(s, e)
  BY DEF Joins
<1>2. \A t \in Q \cup R : t \in Tx /\ Verified(s, C, t)
  BY DEF Verifies, Joins
<1> QED
  BY <1>1, <1>2, SameVerified DEF Verifies

\* The queue grows.
LEMMA JoinExact ==
  ASSUME NEW s \in States, NEW e, NEW Q \in SUBSET Tx, NEW R \in SUBSET Tx, NEW C,
         Exact(s, Q, C), Joins(s, C, e, R)
  PROVE  Exact(e, Q \cup R, C)
<1>1. e \in States /\ Same(s, e) /\ Effect("applyUnconfirmed", s, e, R)
  BY DEF Joins
<1>2. ASSUME NEW a \in Account, NEW q, q = e.account[a]
      PROVE  /\ By("signature", a, Q \cup R) => q.uSecond
             /\ q.uSecond => By("signature", a, Q \cup R) \/ q.second
             /\ By("delegate", a, Q \cup R) => q.uDelegate /\ ~q.delegate
             /\ q.uDelegate => By("delegate", a, Q \cup R) \/ q.delegate
             /\ q.uKeys = q.keys \cup KeysBy(a, Q \cup R)
  <2>1. PICK r, s1, s2, s3, d1, d2, d3, k1, k2, k3 :
          /\ r = s.account[a]
          /\ s1 = By("signature", a, Q) /\ s2 = By("signature", a, R) /\ s3 = By("signature", a, Q \cup R)
          /\ d1 = By("delegate", a, Q) /\ d2 = By("delegate", a, R) /\ d3 = By("delegate", a, Q \cup R)
          /\ k1 = KeysBy(a, Q) /\ k2 = KeysBy(a, R) /\ k3 = KeysBy(a, Q \cup R)
    OBVIOUS
  <2>2. (s3 <=> s1 \/ s2) /\ (d3 <=> d1 \/ d2) /\ k3 = k1 \cup k2
    <3>1. /\ By("signature", a, Q \cup R) <=> By("signature", a, Q) \/ By("signature", a, R)
          /\ By("delegate", a, Q \cup R) <=> By("delegate", a, Q) \/ By("delegate", a, R)
          /\ KeysBy(a, Q \cup R) = KeysBy(a, Q) \cup KeysBy(a, R)
      BY DEF By, KeysBy
    <3> QED
      BY <2>1, <3>1
  <2>3. r \in Columns /\ q \in Columns
    BY <1>1, <1>2, <2>1 DEF States
  <2>4. r.second = q.second /\ r.delegate = q.delegate /\ r.keys = q.keys
    BY <1>1, <1>2, <2>1, SameColumns
  <2>5. RowApplyUnconfirmed(r, q, s2, d2, k2)
    BY <1>1, <1>2, <2>1 DEF Effect, Row
  <2>6. d2 => ~r.delegate
    <3>1. \A t \in R : Verified(s, C, t)
      BY DEF Joins
    <3> QED
      BY <2>1, <3>1 DEF By, Verified, DelegateVerified
  <2>7. /\ s1 => r.uSecond
        /\ r.uSecond => s1 \/ r.second
        /\ d1 => r.uDelegate /\ ~r.delegate
        /\ r.uDelegate => d1 \/ r.delegate
        /\ r.uKeys = r.keys \cup k1
    BY <2>1 DEF Exact
  <2>8. /\ s3 => q.uSecond
        /\ q.uSecond => s3 \/ q.second
        /\ d3 => q.uDelegate /\ ~q.delegate
        /\ q.uDelegate => d3 \/ q.delegate
    BY <2>2, <2>4, <2>5, <2>6, <2>7 DEF RowApplyUnconfirmed
  <2>9. q.uKeys = q.keys \cup k3
    BY <2>2, <2>4, <2>5, <2>7 DEF RowApplyUnconfirmed
  <2> QED
    BY <2>1, <2>8, <2>9
<1>3. e.pending = s.pending \cup Links(R)
  BY <1>1 DEF Effect, Tables
<1>4. Links(Q \cup R) = Links(Q) \cup Links(R)
  BY ByBoth
<1>5. /\ Links(Q) \subseteq s.pending
      /\ s.pending \subseteq Links(Q) \cup Links({u \in C : u.kind = "dapp"})
  BY DEF Exact
<1> QED
  BY <1>2, <1>3, <1>4, <1>5 DEF Exact

\* The queue is undone.
LEMMA UndoneExact ==
  ASSUME NEW s \in States, NEW e \in States, NEW Q \in SUBSET Tx, NEW C,
         Exact(s, Q, C), Holds(s, Q, C), Effect("undoUnconfirmed", s, e, Q), Same(s, e)
  PROVE  Exact(e, {}, C)
<1>1. ASSUME NEW a \in Account, NEW q, q = e.account[a]
      PROVE  /\ q.uSecond => q.second
             /\ q.uDelegate => q.delegate
             /\ q.uKeys = q.keys
  <2>1. PICK r, s1, d1, k1 :
          /\ r = s.account[a] /\ s1 = By("signature", a, Q) /\ d1 = By("delegate", a, Q) /\ k1 = KeysBy(a, Q)
    OBVIOUS
  <2>2. r.second = q.second /\ r.delegate = q.delegate /\ r.keys = q.keys
    BY <1>1, <2>1, SameColumns
  <2>3. RowUndoUnconfirmed(r, q, s1, d1, k1)
    BY <1>1, <2>1 DEF Effect, Row
  <2>4. /\ r.uSecond => s1 \/ r.second
        /\ r.uDelegate => d1 \/ r.delegate
        /\ r.uKeys = r.keys \cup k1
    BY <2>1 DEF Exact
  <2>5. k1 = {} \/ r.keys = {}
    <3> SUFFICES ASSUME k1 # {} PROVE r.keys = {}
      OBVIOUS
    <3>1. PICK t \in Q : t.kind = "multisignature" /\ t.sender = a
      BY <2>1 DEF KeysBy
    <3> QED
      BY <2>1, <3>1 DEF Holds
  <2>6. (q.uSecond => q.second) /\ (q.uDelegate => q.delegate)
    BY <2>2, <2>3, <2>4 DEF RowUndoUnconfirmed
  <2>7. q.uKeys = q.keys
    BY <2>2, <2>3, <2>4, <2>5 DEF RowUndoUnconfirmed
  <2> QED
    BY <2>6, <2>7
<1>2. e.pending = s.pending \ Links(Q)
  BY DEF Effect, Tables
<1>3. s.pending \subseteq Links(Q) \cup Links({u \in C : u.kind = "dapp"})
  BY DEF Exact
<1>4. Links({}) = {} /\ \A a : ~By("signature", a, {}) /\ ~By("delegate", a, {}) /\ KeysBy(a, {}) = {}
  BY ByNone
<1> QED
  BY <1>1, <1>2, <1>3, <1>4 DEF Exact

\* The transactions of a block are confirmed.
LEMMA ConfirmedExact ==
  ASSUME NEW s \in States, NEW e \in States, NEW B \in SUBSET Tx, NEW C \in SUBSET Tx,
         Exact(s, B, C), Effect("apply", s, e, B)
  PROVE  Exact(e, {}, C \cup B)
<1>1. ASSUME NEW a \in Account, NEW q, q = e.account[a]
      PROVE  /\ q.uSecond => q.second
             /\ q.uDelegate => q.delegate
             /\ q.uKeys = q.keys
  <2>1. PICK r, s1, d1, k1 :
          /\ r = s.account[a] /\ s1 = By("signature", a, B) /\ d1 = By("delegate", a, B) /\ k1 = KeysBy(a, B)
    OBVIOUS
  <2>2. RowApply(r, q, s1, d1, k1)
    BY <1>1, <2>1 DEF Effect, Row
  <2>3. /\ r.uSecond => s1 \/ r.second
        /\ r.uDelegate => d1 \/ r.delegate
        /\ r.uKeys = r.keys \cup k1
    BY <2>1 DEF Exact
  <2> QED
    BY <2>2, <2>3 DEF RowApply
<1>2. e.pending = s.pending \ Links({t \in B : t.kind # "dapp"})
  BY DEF Effect, Tables
<1>3. s.pending \subseteq Links(B) \cup Links({u \in C : u.kind = "dapp"})
  BY DEF Exact
<1>4. Links(B) \subseteq Links({t \in B : t.kind # "dapp"}) \cup Links({u \in C \cup B : u.kind = "dapp"})
  BY DEF Links
<1>5. Links({u \in C : u.kind = "dapp"}) \subseteq Links({u \in C \cup B : u.kind = "dapp"})
  BY DEF Links
<1>6. e.pending \subseteq Links({u \in C \cup B : u.kind = "dapp"})
  BY <1>2, <1>3, <1>4, <1>5
<1>7. Links({}) = {} /\ \A a : ~By("signature", a, {}) /\ ~By("delegate", a, {}) /\ KeysBy(a, {}) = {}
  BY ByNone
<1> QED
  BY <1>1, <1>6, <1>7 DEF Exact

\* What the chain registers, and where the columns have it
Once(C) ==
  \A t, u \in C : t # u /\ t.kind = u.kind =>
    /\ t.kind \in {"signature", "multisignature"} => t.sender # u.sender
    /\ t.kind \in {"dapp", "outTransfer"} => t.key # u.key

InColumns(s, C) ==
  \A t \in C : LET r == s.account[t.sender] IN
    /\ t.kind = "signature" => r.second
    /\ t.kind = "multisignature" => t.key \in r.keys

InDelegates(s, C) == \A t \in C : t.kind = "delegate" => s.account[t.sender].delegate

\* No delegate of some transactions is one of others too.
OtherDelegates(D, B) == \A t \in D, u \in B : t.kind = "delegate" /\ u.kind = "delegate" => t.sender # u.sender

LEMMA SameInColumns ==
  ASSUME NEW s, NEW e, NEW C \in SUBSET Tx, Same(s, e)
  PROVE  (InColumns(s, C) => InColumns(e, C)) /\ (InDelegates(s, C) => InDelegates(e, C))
<1>1. \A t \in C : LET r == s.account[t.sender] q == e.account[t.sender] IN
         r.second = q.second /\ r.keys = q.keys /\ r.delegate = q.delegate
  BY SameColumns, TxFields
<1> QED
  BY <1>1 DEF InColumns, InDelegates

LEMMA ConfirmedColumns ==
  ASSUME NEW s, NEW e, NEW C \in SUBSET Tx, NEW B \in SUBSET Tx, Effect("apply", s, e, B)
  PROVE  /\ InColumns(s, C) => InColumns(e, C \cup B)
         /\ InDelegates(s, C) => InDelegates(e, C \cup B)
<1>1. ASSUME NEW t \in C \cup B, NEW r, r = s.account[t.sender], NEW q, q = e.account[t.sender]
      PROVE  /\ t \in B \/ (t.kind = "signature" => r.second) => (t.kind = "signature" => q.second)
             /\ t \in B \/ (t.kind = "multisignature" => t.key \in r.keys)
                  => (t.kind = "multisignature" => t.key \in q.keys)
             /\ t \in B \/ (t.kind = "delegate" => r.delegate) => (t.kind = "delegate" => q.delegate)
  <2>1. PICK a, s1, d1, k1 :
          /\ a = t.sender
          /\ s1 = By("signature", a, B) /\ d1 = By("delegate", a, B) /\ k1 = KeysBy(a, B)
    OBVIOUS
  <2>2. a \in Account
    BY <2>1, TxFields
  <2>3. RowApply(r, q, s1, d1, k1)
    BY <1>1, <2>1, <2>2 DEF Effect, Row
  <2>4. t \in B => /\ t.kind = "signature" => s1
                   /\ t.kind = "delegate" => d1
                   /\ t.kind = "multisignature" => t.key \in k1
    BY <2>1 DEF By, KeysBy
  <2> QED
    BY <2>3, <2>4 DEF RowApply
<1>2. InColumns(s, C) => InColumns(e, C \cup B)
  BY <1>1 DEF InColumns
<1>3. InDelegates(s, C) => InDelegates(e, C \cup B)
  BY <1>1 DEF InDelegates
<1> QED
  BY <1>2, <1>3

\* A block whose transactions all join registers nothing again.
LEMMA JoinOnce ==
  ASSUME NEW s, NEW p, NEW C \in SUBSET Tx, NEW B \in SUBSET Tx,
         Once(C), InColumns(s, C), Joins(s, C, p, B)
  PROVE  Once(C \cup B)
<1> DEFINE Differ(t, u) == /\ t.kind \in {"signature", "multisignature"} => t.sender # u.sender
                           /\ t.kind \in {"dapp", "outTransfer"} => t.key # u.key
<1>1. ASSUME NEW t \in C, NEW u \in B, t.kind = u.kind PROVE Differ(t, u)
  <2>1. Verified(s, C, u) /\ Unclaimed(s, u) /\ (u.kind = "outTransfer" => ~Known(C, "outTransfer", u.key))
    BY DEF Joins
  <2>2. t.kind = "signature" => t.sender # u.sender
    BY <1>1, <2>1 DEF Unclaimed, InColumns
  <2>3. t.kind = "multisignature" => t.sender # u.sender
    BY <1>1, <2>1 DEF Verified, MultisignatureVerified, InColumns
  <2>4. t.kind = "dapp" => t.key # u.key
    BY <1>1, <2>1 DEF Verified, DAppVerified, Known
  <2>5. t.kind = "outTransfer" => t.key # u.key
    BY <1>1, <2>1 DEF Known
  <2> QED
    BY <2>2, <2>3, <2>4, <2>5
<1>2. ASSUME NEW t \in B, NEW u \in B, t # u, t.kind = u.kind PROVE Differ(t, u)
  <2>1. Apart(t, u)
    BY <1>2 DEF Joins
  <2>2. t.kind = "signature" => t.sender # u.sender
    BY <1>2, <2>1 DEF Apart
  <2>3. t.kind = "multisignature" => t.sender # u.sender
    BY <1>2, <2>1 DEF Apart, Remembered
  <2>4. t.kind \in {"dapp", "outTransfer"} => t.key # u.key
    BY <1>2, <2>1 DEF Apart, Remembered
  <2> QED
    BY <2>2, <2>3, <2>4
<1>3. ASSUME NEW t \in C \cup B, NEW u \in C \cup B, t # u, t.kind = u.kind PROVE Differ(t, u)
  <2>1. CASE t \in C /\ u \in C
    BY <1>3, <2>1 DEF Once
  <2>2. CASE t \in C /\ u \in B
    BY <1>1, <1>3, <2>2
  <2>3. CASE t \in B /\ u \in C
    <3>1. Differ(u, t)
      BY <1>1, <1>3, <2>3
    <3> QED
      BY <1>3, <3>1
  <2>4. CASE t \in B /\ u \in B
    BY <1>2, <1>3, <2>4
  <2> QED
    BY <2>1, <2>2, <2>3, <2>4
<1> QED
  BY <1>3 DEF Once

-----------------------------------------------------------------------------
(* The last block, B, is deleted; the chain D remains.                     *)

LEMMA UndoHolds ==
  ASSUME NEW s \in States, NEW e \in States, NEW Q \in SUBSET Tx, NEW D, NEW B,
         Holds(s, Q, D \cup B), Effect("undo", s, e, B)
  PROVE  Holds(e, Q, D)
<1>1. ASSUME NEW t \in Q, NEW q, q = e.account[t.sender]
      PROVE  /\ t.kind = "delegate" => ~q.delegate
             /\ t.kind = "multisignature" => q.keys = {}
             /\ t.kind = "signature" => ~q.second
             /\ t.kind \in {"dapp", "outTransfer"} => ~Known(D, t.kind, t.key)
  <2>1. PICK a, r, s1, d1, k1 :
          /\ a = t.sender /\ r = s.account[a]
          /\ s1 = By("signature", a, B) /\ d1 = By("delegate", a, B) /\ k1 = KeysBy(a, B)
    OBVIOUS
  <2>2. a \in Account
    BY <2>1, TxFields
  <2>3. RowUndo(r, q, s1, d1, k1)
    BY <1>1, <2>1, <2>2 DEF Effect, Row
  <2>4. /\ t.kind = "delegate" => ~r.delegate
        /\ t.kind = "multisignature" => r.keys = {}
        /\ t.kind = "signature" => ~r.second
        /\ t.kind \in {"dapp", "outTransfer"} => ~Known(D \cup B, t.kind, t.key)
    BY <2>1 DEF Holds
  <2>5. t.kind \in {"dapp", "outTransfer"} => ~Known(D, t.kind, t.key)
    BY <2>4 DEF Known
  <2> QED
    BY <2>3, <2>4, <2>5 DEF RowUndo
<1> QED
  BY <1>1 DEF Holds

LEMMA UndoColumns ==
  ASSUME NEW s, NEW e, NEW D \in SUBSET Tx, NEW B \in SUBSET Tx, D \cap B = {},
         Effect("undo", s, e, B), Once(D \cup B), InColumns(s, D \cup B)
  PROVE  InColumns(e, D)
<1>1. ASSUME NEW t \in D, NEW q, q = e.account[t.sender]
      PROVE  /\ t.kind = "signature" => q.second
             /\ t.kind = "multisignature" => t.key \in q.keys
  <2>1. PICK a, r, s1, d1, k1 :
          /\ a = t.sender /\ r = s.account[a]
          /\ s1 = By("signature", a, B) /\ d1 = By("delegate", a, B) /\ k1 = KeysBy(a, B)
    OBVIOUS
  <2>2. a \in Account
    BY <2>1, TxFields
  <2>3. RowUndo(r, q, s1, d1, k1)
    BY <1>1, <2>1, <2>2 DEF Effect, Row
  <2>4. /\ t.kind = "signature" => r.second
        /\ t.kind = "multisignature" => t.key \in r.keys
    BY <2>1 DEF InColumns
  <2>5. \A u \in B : t # u /\ (t.kind = u.kind /\ t.kind \in {"signature", "multisignature"} => t.sender # u.sender)
    BY DEF Once
  <2>6. t.kind = "signature" => ~s1
    BY <2>1, <2>5 DEF By
  <2>7. t.kind = "multisignature" => k1 = {}
    BY <2>1, <2>5 DEF KeysBy
  <2> QED
    BY <2>3, <2>4, <2>6, <2>7 DEF RowUndo
<1> QED
  BY <1>1 DEF InColumns

LEMMA UndoDelegates ==
  ASSUME NEW s, NEW e, NEW D \in SUBSET Tx, NEW B \in SUBSET Tx,
         Effect("undo", s, e, B), OtherDelegates(D, B), InDelegates(s, D \cup B)
  PROVE  InDelegates(e, D)
<1>1. ASSUME NEW t \in D, t.kind = "delegate" PROVE e.account[t.sender].delegate
  <2>1. PICK a, r, q, s1, d1, k1 :
          /\ a = t.sender /\ r = s.account[a] /\ q = e.account[a]
          /\ s1 = By("signature", a, B) /\ d1 = By("delegate", a, B) /\ k1 = KeysBy(a, B)
    OBVIOUS
  <2>2. a \in Account
    BY <2>1, TxFields
  <2>3. RowUndo(r, q, s1, d1, k1)
    BY <2>1, <2>2 DEF Effect, Row
  <2>4. r.delegate /\ ~d1
    BY <1>1, <2>1 DEF InDelegates, OtherDelegates, By
  <2> QED
    BY <2>1, <2>3, <2>4 DEF RowUndo
<1> QED
  BY <1>1 DEF InDelegates

LEMMA UndoExact ==
  ASSUME NEW s \in States, NEW e \in States, NEW Q \in SUBSET Tx, NEW D \in SUBSET Tx, NEW B \in SUBSET Tx,
         Exact(s, Q, D \cup B), Holds(s, Q, D \cup B), InColumns(s, D \cup B), InDelegates(s, D \cup B),
         Effect("undo", s, e, B)
  PROVE  Exact(e, Q, D)
<1>1. ASSUME NEW a \in Account, NEW q, q = e.account[a]
      PROVE  /\ By("signature", a, Q) => q.uSecond
             /\ q.uSecond => By("signature", a, Q) \/ q.second
             /\ By("delegate", a, Q) => q.uDelegate /\ ~q.delegate
             /\ q.uDelegate => By("delegate", a, Q) \/ q.delegate
             /\ q.uKeys = q.keys \cup KeysBy(a, Q)
  <2>1. PICK r, s1, s2, d1, d2, k1, k2 :
          /\ r = s.account[a]
          /\ s1 = By("signature", a, Q) /\ d1 = By("delegate", a, Q) /\ k1 = KeysBy(a, Q)
          /\ s2 = By("signature", a, B) /\ d2 = By("delegate", a, B) /\ k2 = KeysBy(a, B)
    OBVIOUS
  <2>2. /\ s1 => r.uSecond
        /\ r.uSecond => s1 \/ r.second
        /\ d1 => r.uDelegate /\ ~r.delegate
        /\ r.uDelegate => d1 \/ r.delegate
        /\ r.uKeys = r.keys \cup k1
    BY <2>1 DEF Exact
  <2>3. RowUndo(r, q, s2, d2, k2)
    BY <1>1, <2>1 DEF Effect, Row
  <2>4. (s1 => ~r.second) /\ (s2 => r.second)
    BY <2>1 DEF By, Holds, InColumns
  <2>5. d2 => r.delegate
    BY <2>1 DEF By, InDelegates
  <2>6. k1 = {} \/ r.keys = {}
    <3> SUFFICES ASSUME k1 # {} PROVE r.keys = {}
      OBVIOUS
    <3>1. PICK t \in Q : t.kind = "multisignature" /\ t.sender = a
      BY <2>1 DEF KeysBy
    <3> QED
      BY <2>1, <3>1 DEF Holds
  <2>7. k2 \subseteq r.keys
    BY <2>1 DEF KeysBy, InColumns
  <2>8. /\ s1 => q.uSecond
        /\ q.uSecond => s1 \/ q.second
        /\ d1 => q.uDelegate /\ ~q.delegate
        /\ q.uDelegate => d1 \/ q.delegate
    BY <2>2, <2>3, <2>4, <2>5 DEF RowUndo
  <2>9. q.uKeys = q.keys \cup k1
    BY <2>2, <2>3, <2>6, <2>7 DEF RowUndo
  <2> QED
    BY <2>1, <2>8, <2>9
<1>2. e.pending = s.pending \ Links(B)
  BY DEF Effect, Tables
<1>3. /\ Links(Q) \subseteq s.pending
      /\ s.pending \subseteq Links(Q) \cup Links({u \in D \cup B : u.kind = "dapp"})
  BY DEF Exact
<1>4. Links(Q) \cap Links(B) = {}
  <2> SUFFICES ASSUME NEW t \in Q, NEW u \in B, NEW x \in Remembered(t), x \in Remembered(u) PROVE FALSE
    BY DEF Links
  <2>1. t.kind = u.kind /\ t.kind \in {"multisignature", "dapp", "outTransfer"}
    BY TxFields DEF Remembered, Kinds
  <2>2. CASE t.kind = "multisignature"
    <3>1. t.sender = u.sender
      BY <2>1, <2>2 DEF Remembered
    <3>2. s.account[t.sender].keys = {} /\ u.key \in s.account[u.sender].keys
      BY <2>1, <2>2 DEF Holds, InColumns
    <3> QED
      BY <3>1, <3>2
  <2>3. CASE t.kind \in {"dapp", "outTransfer"}
    <3>1. t.key = u.key
      BY <2>1, <2>3 DEF Remembered
    <3>2. ~Known(D \cup B, t.kind, t.key)
      BY <2>3 DEF Holds
    <3> QED
      BY <2>1, <3>1, <3>2 DEF Known
  <2> QED
    BY <2>1, <2>2, <2>3
<1>5. Links({u \in D \cup B : u.kind = "dapp"}) \subseteq Links({u \in D : u.kind = "dapp"}) \cup Links(B)
  BY DEF Links
<1> QED
  BY <1>1, <1>2, <1>3, <1>4, <1>5 DEF Exact

\* The confirmed columns are those before the block.
LEMMA UndoSame ==
  ASSUME NEW s \in States, NEW e \in States, NEW D \in SUBSET Tx, NEW B \in SUBSET Tx, D \cap B = {},
         Once(D \cup B), OtherDelegates(D, B), Effect("undo", s, e, B),
         NEW P \in States, Fit(P), Effect("apply", NewStates, P, D),
         NEW m \in States, Effect("apply", P, m, B), Same(s, m)
  PROVE  Same(e, P)
<1> SUFFICES ASSUME NEW a \in Account PROVE Confirmed(e.account[a]) = Confirmed(P.account[a])
  BY DEF Same
<1>1. PICK n, r, q, p, c, s1, s2, d1, d2, k1, k2 :
        /\ n = NewStates.account[a]
        /\ r = s.account[a] /\ q = e.account[a] /\ p = P.account[a] /\ c = m.account[a]
        /\ s1 = By("signature", a, D) /\ d1 = By("delegate", a, D) /\ k1 = KeysBy(a, D)
        /\ s2 = By("signature", a, B) /\ d2 = By("delegate", a, B) /\ k2 = KeysBy(a, B)
  OBVIOUS
<1>2. r \in Columns /\ q \in Columns /\ p \in Columns /\ c \in Columns /\ Fitted(p)
  BY <1>1 DEF States, Fit
<1>3. ~n.second /\ ~n.delegate /\ n.keys = {}
  BY <1>1 DEF NewStates, NewAccount
<1>4. RowApply(n, p, s1, d1, k1) /\ RowApply(p, c, s2, d2, k2) /\ RowUndo(r, q, s2, d2, k2)
  BY <1>1 DEF Effect, Row
<1>5. r.second = c.second /\ r.secondKey = c.secondKey /\ r.delegate = c.delegate /\ r.name = c.name /\ r.keys = c.keys
  BY <1>1, SameColumns
<1>6. ASSUME NEW t \in D, NEW u \in B, t.kind = u.kind, t.kind \in {"signature", "multisignature"}
      PROVE  t.sender # u.sender
  BY <1>6 DEF Once
<1>7. s2 => ~s1
  BY <1>1, <1>6 DEF By
<1>8. d2 => ~d1
  BY <1>1 DEF By, OtherDelegates
<1>9. k2 = {} \/ k1 = {}
  BY <1>1, <1>6 DEF KeysBy
<1>10. s1 \in BOOLEAN /\ s2 \in BOOLEAN /\ d1 \in BOOLEAN /\ d2 \in BOOLEAN
  BY <1>1 DEF By
<1>11. q.second = p.second /\ q.secondKey = p.secondKey
  BY <1>2, <1>3, <1>4, <1>5, <1>7, <1>10 DEF RowApply, RowUndo, Fitted, Columns
<1>12. q.delegate = p.delegate /\ q.name = p.name
  BY <1>2, <1>3, <1>4, <1>5, <1>8, <1>10 DEF RowApply, RowUndo, Fitted, Columns
<1>13. q.keys = p.keys
  <2>1. p.keys = k1 /\ c.keys = p.keys \cup k2 /\ q.keys = r.keys \ k2 /\ r.keys = c.keys
    BY <1>3, <1>4, <1>5 DEF RowApply, RowUndo
  <2> QED
    BY <1>9, <2>1
<1> QED
  BY <1>1, <1>11, <1>12, <1>13 DEF Confirmed

-----------------------------------------------------------------------------
(* The blocks of a chain                                                   *)

Separate(bs) ==
  \A i, j \in DOMAIN bs : i # j => ToSet(bs[i]) \cap ToSet(bs[j]) = {}

OneBlock(bs) ==
  \A i, j \in DOMAIN bs : i # j => OtherDelegates(ToSet(bs[i]), ToSet(bs[j]))

PaysToKnown(bs) ==
  \A i \in DOMAIN bs : \A t \in ToSet(bs[i]) :
    t.kind = "inTransfer" => \E j \in 1..i - 1 : Known(ToSet(bs[j]), "dapp", t.key)

LEMMA LongerSeparate ==
  ASSUME NEW new, NEW bs, NEW b, Longer(new, bs, b)
  PROVE  Separate(new) <=> Separate(bs) /\ InBlocks(bs) \cap ToSet(b) = {}
<1>1. PICK n \in Nat : n = Len(bs)
  BY DEF Longer
<1>2. /\ DOMAIN bs = 1..n /\ DOMAIN new = 1..n + 1 /\ new[n + 1] = b /\ \A i \in 1..n : new[i] = bs[i]
      /\ \A i \in 1..n + 1 : i \in 1..n \/ i = n + 1
  BY <1>1, LongerBlocks DEF Longer
<1>3. n + 1 \in 1..n + 1 /\ \A i \in 1..n : i \in 1..n + 1 /\ i # n + 1
  OBVIOUS
<1>4. ASSUME Separate(new) PROVE Separate(bs)
  BY <1>2, <1>3, <1>4 DEF Separate
<1>5. ASSUME Separate(new), NEW x \in InBlocks(bs), x \in ToSet(b) PROVE FALSE
  <2>1. PICK i \in 1..n : x \in ToSet(bs[i])
    BY <1>2 DEF InBlocks
  <2>2. ToSet(new[i]) \cap ToSet(new[n + 1]) = {}
    BY <1>2, <1>3, <1>5 DEF Separate
  <2> QED
    BY <1>2, <1>5, <2>1, <2>2
<1>6. ASSUME Separate(bs), InBlocks(bs) \cap ToSet(b) = {}, NEW i \in 1..n + 1, NEW j \in 1..n + 1, i # j
      PROVE  ToSet(new[i]) \cap ToSet(new[j]) = {}
  <2>1. \A k \in 1..n : ToSet(new[k]) \subseteq InBlocks(bs)
    BY <1>2 DEF InBlocks
  <2>2. CASE i \in 1..n /\ j \in 1..n
    BY <1>2, <1>6, <2>2 DEF Separate
  <2>3. CASE i = n + 1 /\ j \in 1..n
    BY <1>2, <1>6, <2>1, <2>3
  <2>4. CASE i \in 1..n /\ j = n + 1
    BY <1>2, <1>6, <2>1, <2>4
  <2> QED
    BY <1>2, <1>6, <2>2, <2>3, <2>4
<1>7. ASSUME Separate(bs), InBlocks(bs) \cap ToSet(b) = {} PROVE Separate(new)
  BY <1>2, <1>6, <1>7 DEF Separate
<1> QED
  BY <1>4, <1>5, <1>7

LEMMA LongerDelegates ==
  ASSUME NEW new, NEW bs, NEW b, Longer(new, bs, b)
  PROVE  OneBlock(new) <=> OneBlock(bs) /\ OtherDelegates(InBlocks(bs), ToSet(b))
<1>1. PICK n \in Nat : n = Len(bs)
  BY DEF Longer
<1>2. /\ DOMAIN bs = 1..n /\ DOMAIN new = 1..n + 1 /\ new[n + 1] = b /\ \A i \in 1..n : new[i] = bs[i]
      /\ \A i \in 1..n + 1 : i \in 1..n \/ i = n + 1
  BY <1>1, LongerBlocks DEF Longer
<1>3. n + 1 \in 1..n + 1 /\ \A i \in 1..n : i \in 1..n + 1 /\ i # n + 1
  OBVIOUS
<1>4. ASSUME OneBlock(new) PROVE OneBlock(bs)
  BY <1>2, <1>3, <1>4 DEF OneBlock
<1>5. ASSUME OneBlock(new), NEW t \in InBlocks(bs), NEW u \in ToSet(b), t.kind = "delegate", u.kind = "delegate"
      PROVE  t.sender # u.sender
  <2>1. PICK i \in 1..n : t \in ToSet(bs[i])
    BY <1>2 DEF InBlocks
  <2>2. OtherDelegates(ToSet(new[i]), ToSet(new[n + 1]))
    BY <1>2, <1>3, <1>5 DEF OneBlock
  <2> QED
    BY <1>2, <1>5, <2>1, <2>2 DEF OtherDelegates
<1>6. ASSUME OneBlock(bs), OtherDelegates(InBlocks(bs), ToSet(b)), NEW i \in 1..n + 1, NEW j \in 1..n + 1, i # j
      PROVE  OtherDelegates(ToSet(new[i]), ToSet(new[j]))
  <2>1. \A k \in 1..n : ToSet(new[k]) \subseteq InBlocks(bs)
    BY <1>2 DEF InBlocks
  <2>2. CASE i \in 1..n /\ j \in 1..n
    BY <1>2, <1>6, <2>2 DEF OneBlock
  <2>3. CASE i = n + 1 /\ j \in 1..n
    BY <1>2, <1>6, <2>1, <2>3 DEF OtherDelegates
  <2>4. CASE i \in 1..n /\ j = n + 1
    BY <1>2, <1>6, <2>1, <2>4 DEF OtherDelegates
  <2> QED
    BY <1>2, <1>6, <2>2, <2>3, <2>4
<1>7. ASSUME OneBlock(bs), OtherDelegates(InBlocks(bs), ToSet(b)) PROVE OneBlock(new)
  BY <1>2, <1>6, <1>7 DEF OneBlock
<1>8. OneBlock(new) => OtherDelegates(InBlocks(bs), ToSet(b))
  BY <1>5 DEF OtherDelegates
<1> QED
  BY <1>4, <1>7, <1>8

LEMMA LongerPays ==
  ASSUME NEW new, NEW bs, NEW b, Longer(new, bs, b)
  PROVE  /\ PaysToKnown(new) => PaysToKnown(bs)
         /\ PaysToKnown(bs) /\ (\A t \in ToSet(b) : t.kind = "inTransfer" => Known(InBlocks(bs), "dapp", t.key))
              => PaysToKnown(new)
<1>1. PICK n \in Nat : n = Len(bs)
  BY DEF Longer
<1>2. /\ DOMAIN bs = 1..n /\ DOMAIN new = 1..n + 1 /\ new[n + 1] = b /\ \A i \in 1..n : new[i] = bs[i]
      /\ \A i \in 1..n + 1 : i \in 1..n \/ i = n + 1
  BY <1>1, LongerBlocks DEF Longer
<1>3. \A i \in 1..n : i \in 1..n + 1 /\ \A j \in 1..i - 1 : j \in 1..n
  OBVIOUS
<1>4. ASSUME PaysToKnown(new) PROVE PaysToKnown(bs)
  BY <1>2, <1>3, <1>4 DEF PaysToKnown
<1>5. ASSUME PaysToKnown(bs), \A t \in ToSet(b) : t.kind = "inTransfer" => Known(InBlocks(bs), "dapp", t.key),
             NEW i \in 1..n + 1, NEW t \in ToSet(new[i]), t.kind = "inTransfer"
      PROVE  \E j \in 1..i - 1 : Known(ToSet(new[j]), "dapp", t.key)
  <2>1. CASE i \in 1..n
    BY <1>2, <1>3, <1>5, <2>1 DEF PaysToKnown
  <2>2. CASE i = n + 1
    <3>1. PICK u \in InBlocks(bs) : u.kind = "dapp" /\ u.key = t.key
      BY <1>2, <1>5, <2>2 DEF Known
    <3>2. PICK j \in 1..n : u \in ToSet(bs[j])
      BY <1>2 DEF InBlocks
    <3>3. j \in 1..i - 1 /\ Known(ToSet(new[j]), "dapp", t.key)
      BY <1>2, <2>2, <3>1, <3>2 DEF Known
    <3> QED
      BY <3>3
  <2> QED
    BY <1>2, <2>1, <2>2
<1>6. ASSUME PaysToKnown(bs), \A t \in ToSet(b) : t.kind = "inTransfer" => Known(InBlocks(bs), "dapp", t.key)
      PROVE  PaysToKnown(new)
  BY <1>2, <1>5, <1>6 DEF PaysToKnown
<1> QED
  BY <1>4, <1>6

-----------------------------------------------------------------------------
(* A block is applied: undone, rewound and confirmed are the states it     *)
(* goes through, again what the rest of the queue makes of it.             *)

Chain == Seq(TxLists(MaxTxsPerBlock) \ {<<>>})

LEMMA ChainOfLists ==
  ASSUME NEW bs \in Chain
  PROVE  /\ bs \in Seq(Seq(Tx)) /\ InBlocks(bs) \in SUBSET Tx
         /\ \A i \in DOMAIN bs : bs[i] \in Seq(Tx) /\ IsInjective(bs[i]) /\ ToSet(bs[i]) \in SUBSET Tx
<1>1. MaxTxsPerBlock \in Nat
  BY StatesAssumption
<1>2. \A list \in TxLists(MaxTxsPerBlock) : list \in Seq(Tx) /\ IsInjective(list)
  BY <1>1, TxListsAre
<1>3. PICK n \in Nat : n = Len(bs)
  BY DEF Chain
<1>4. DOMAIN bs = 1..n /\ \A i \in 1..n : bs[i] \in TxLists(MaxTxsPerBlock)
  BY <1>3 DEF Chain
<1>5. \A i \in 1..n : bs[i] \in Seq(Tx) /\ IsInjective(bs[i])
  BY <1>2, <1>4
<1>6. \A i \in 1..n : ToSet(bs[i]) \in SUBSET Tx
  BY <1>5 DEF ToSet
<1>7. bs \in Seq(Seq(Tx))
  BY <1>3, <1>5 DEF Chain
<1>8. InBlocks(bs) \in SUBSET Tx
  BY <1>4, <1>6 DEF InBlocks
<1> QED
  BY <1>4, <1>5, <1>6, <1>7, <1>8

\* A queue that joins makes of a state what a loop over it does.
LEMMA JoinsOther ==
  ASSUME NEW s \in States, Fit(s), NEW saved, NEW p, NEW Q, Joins(s, saved, p, Q),
         NEW e \in States, Fit(e), Effect("applyUnconfirmed", s, e, Q)
  PROVE  Joins(s, saved, e, Q)
<1>1. \A t \in Q : t.kind = "delegate" => ~s.account[t.sender].delegate
  BY DEF Joins, Verified, DelegateVerified
<1>2. Same(s, e)
  BY <1>1, SameKept
<1> QED
  BY <1>2 DEF Joins

Steps(s, q, C, block, undone, rewound, confirmed, again) ==
  /\ undone = Each("undoUnconfirmed", s, q)
  /\ rewound = LET fitting == Fitting(undone, block)
                   applied == Each("applyUnconfirmed", undone, fitting)
               IN  IF fitting = block THEN applied ELSE Each("undoUnconfirmed", applied, fitting)
  /\ confirmed = Each("apply", rewound, block)
  /\ again = ApplyList(confirmed, C \cup ToSet(block), Rest(q, block))

LEMMA BlockSteps ==
  ASSUME NEW s \in States, Fit(s), NEW q \in Seq(Tx), IsInjective(q), NEW C, Holds(s, ToSet(q), C),
         NEW block \in Seq(Tx), IsInjective(block), NEW B, B = ToSet(block),
         Verifies(s, B, C),
         NEW undone, NEW rewound, NEW confirmed, NEW again,
         Steps(s, q, C, block, undone, rewound, confirmed, again)
  PROVE  /\ undone \in States /\ Fit(undone) /\ Same(s, undone)
         /\ Effect("undoUnconfirmed", s, undone, ToSet(q))
         /\ rewound \in States /\ Fit(rewound) /\ Same(undone, rewound)
         /\ confirmed \in States /\ Fit(confirmed) /\ Effect("apply", rewound, confirmed, B)
         /\ Joins(confirmed, C \cup B, again.states, ToSet(again.queue))
         /\ again.queue \in Seq(Tx) /\ IsInjective(again.queue) /\ Len(again.queue) <= Len(q)
         /\ ToSet(again.queue) \subseteq ToSet(q) \ B
         /\ ApplyList(undone, C, block).queue = block => Joins(undone, C, rewound, B)
<1> USE DEF Steps
<1>1. /\ "undoUnconfirmed" \in Calls /\ "applyUnconfirmed" \in Calls /\ "apply" \in Calls
  BY DEF Calls
<1> USE DEF Verifies
<1>2. undone \in States /\ Fit(undone) /\ Effect("undoUnconfirmed", s, undone, ToSet(q))
  <2>1. undone = Each("undoUnconfirmed", s, q)
    OBVIOUS
  <2> QED
    BY ONLY s \in States, Fit(s), q \in Seq(Tx), <1>1, <2>1, EachEffect
<1>3. Same(s, undone)
  <2>1. \A t \in ToSet(q) : t.kind = "delegate" => ~s.account[t.sender].delegate
    BY DEF Holds
  <2> QED
    BY <1>2, <2>1, SameKept
<1>4. PICK fitting : fitting = Fitting(undone, block)
  OBVIOUS
<1>5. PICK applied : applied = Each("applyUnconfirmed", undone, fitting)
  OBVIOUS
<1>6. fitting \in Seq(Tx) /\ ToSet(fitting) \subseteq B /\ (Fits(undone, block, Len(block)) => fitting = block)
  BY <1>4, FittingIs
<1>7. applied \in States /\ Fit(applied) /\ Effect("applyUnconfirmed", undone, applied, ToSet(fitting))
  BY ONLY <1>1, <1>2, <1>5, <1>6, EachEffect
<1>8. \A t \in Tx : s.account[t.sender].delegate = undone.account[t.sender].delegate
  BY ONLY <1>3, SameDelegates
<1>9. B \subseteq Tx
  BY DEF ToSet
<1>10. Same(undone, applied)
  <2>1. \A t \in ToSet(fitting) : t.kind = "delegate" => ~undone.account[t.sender].delegate
    BY <1>6, <1>8, <1>9 DEF Verified, DelegateVerified
  <2> QED
    BY <1>2, <1>7, <2>1, SameKept
<1>11. rewound = IF fitting = block THEN applied ELSE Each("undoUnconfirmed", applied, fitting)
  BY <1>4, <1>5
<1>12. rewound \in States /\ Fit(rewound) /\ Same(undone, rewound)
  <2>1. CASE fitting = block
    BY <1>7, <1>10, <1>11, <2>1
  <2>2. CASE fitting # block
    <3>1. rewound = Each("undoUnconfirmed", applied, fitting)
      BY <1>11, <2>2
    <3>2. rewound \in States /\ Fit(rewound) /\ Effect("undoUnconfirmed", applied, rewound, ToSet(fitting))
      BY ONLY <1>1, <1>6, <1>7, <3>1, EachEffect
    <3>3. \A t \in Tx : undone.account[t.sender].delegate = applied.account[t.sender].delegate
      BY ONLY <1>10, SameDelegates
    <3>4. \A t \in ToSet(fitting) : t.kind = "delegate" => ~applied.account[t.sender].delegate
      BY <1>6, <1>8, <1>9, <3>3 DEF Verified, DelegateVerified
    <3>5. Same(applied, rewound)
      BY <1>7, <3>2, <3>4, SameKept
    <3> QED
      BY <1>10, <3>2, <3>5, SameTwice
  <2> QED
    BY <2>1, <2>2
<1>13. confirmed \in States /\ Fit(confirmed) /\ Effect("apply", rewound, confirmed, B)
  <2>1. confirmed = Each("apply", rewound, block)
    OBVIOUS
  <2>2. confirmed \in States /\ Fit(confirmed) /\ Effect("apply", rewound, confirmed, ToSet(block))
    BY ONLY block \in Seq(Tx), <1>1, <1>12, <2>1, EachEffect
  <2> QED
    BY <2>2
<1>14. PICK rest : rest = Rest(q, block)
  OBVIOUS
<1>15. /\ rest \in Seq(Tx) /\ Len(rest) <= Len(q) /\ ToSet(rest) = ToSet(q) \ B /\ IsInjective(rest)
  BY <1>14, RestOf
<1>16. /\ Joins(confirmed, C \cup B, again.states, ToSet(again.queue))
       /\ again.queue \in Seq(Tx) /\ ToSet(again.queue) \subseteq ToSet(rest)
       /\ Len(again.queue) <= Len(rest) /\ IsInjective(again.queue)
  <2>1. PICK saved : saved = C \cup B
    OBVIOUS
  <2>2. again = ApplyList(confirmed, saved, rest)
    BY <1>14, <2>1
  <2>3. /\ Joins(confirmed, saved, again.states, ToSet(again.queue))
        /\ again.queue \in Seq(Tx) /\ ToSet(again.queue) \subseteq ToSet(rest)
        /\ Len(again.queue) <= Len(rest)
        /\ IsInjective(rest) => IsInjective(again.queue)
    BY ONLY <1>13, <1>15, <2>2, JoinList
  <2> QED
    BY <1>15, <2>1, <2>3
<1>17. Len(again.queue) <= Len(q)
  BY <1>15, <1>16
<1>18. ASSUME ApplyList(undone, C, block).queue = block PROVE Joins(undone, C, rewound, B)
  <2>1. PICK al : al = ApplyList(undone, C, block)
    OBVIOUS
  <2>2. Joins(undone, C, al.states, ToSet(al.queue))
    BY ONLY block \in Seq(Tx), <1>2, <2>1, JoinList
  <2>3. Joins(undone, C, al.states, B)
    BY <1>18, <2>1, <2>2
  <2>4. Fits(undone, block, Len(block))
    BY <1>2, <2>3, FittingAll
  <2>5. fitting = block /\ rewound = applied
    BY <1>6, <1>11, <2>4
  <2>6. Effect("applyUnconfirmed", undone, rewound, B)
    BY <1>7, <2>5
  <2> QED
    BY <1>2, <1>12, <2>3, <2>6, JoinsOther
<1> QED
  BY <1>2, <1>3, <1>12, <1>13, <1>15, <1>16, <1>17, <1>18

-----------------------------------------------------------------------------
(* The inductive invariant, for states s, a queue q, a chain bs and the    *)
(* events h that happened                                                  *)

Always(s, q, bs) ==
  /\ s \in States /\ Fit(s)
  /\ q \in TxLists(MaxTxsPerBlock) /\ bs \in Chain /\ Len(bs) <= MaxHeight
  /\ ToSet(q) \cap InBlocks(bs) = {}
  /\ Separate(bs) /\ PaysToKnown(bs)
  /\ Holds(s, ToSet(q), InBlocks(bs))

Unless(s, q, bs, h) ==
  /\ "delete" \notin h => Verifies(s, ToSet(q), InBlocks(bs))
  /\ "invalid" \notin h => Once(InBlocks(bs)) /\ InColumns(s, InBlocks(bs))
  /\ "replay" \notin h => InDelegates(s, InBlocks(bs)) /\ OneBlock(bs)
  /\ "invalid" \notin h /\ "replay" \notin h => Exact(s, ToSet(q), InBlocks(bs))
  /\ "replay" \notin h /\ ("invalid" \notin h \/ "delete" \notin h) => Same(s, Replay(bs))

LEMMA AlwaysTypes ==
  ASSUME NEW s, NEW q, NEW bs, Always(s, q, bs)
  PROVE  /\ q \in Seq(Tx) /\ IsInjective(q) /\ Len(q) <= MaxTxsPerBlock /\ ToSet(q) \in SUBSET Tx
         /\ bs \in Seq(Seq(Tx)) /\ InBlocks(bs) \in SUBSET Tx
         /\ \A i \in DOMAIN bs : bs[i] \in Seq(Tx) /\ IsInjective(bs[i]) /\ ToSet(bs[i]) \in SUBSET Tx
<1>1. MaxTxsPerBlock \in Nat
  BY StatesAssumption
<1>2. q \in Seq(Tx) /\ IsInjective(q) /\ Len(q) <= MaxTxsPerBlock
  BY <1>1, TxListsAre DEF Always
<1>3. ToSet(q) \in SUBSET Tx
  BY <1>2 DEF ToSet
<1> QED
  BY <1>2, <1>3, ChainOfLists DEF Always

\* fillPool
LEMMA Filled ==
  ASSUME NEW s, NEW q, NEW bs, NEW h, Always(s, q, bs), Unless(s, q, bs, h),
         NEW t \in Tx, t \notin ToSet(q), Len(q) < MaxTxsPerBlock,
         NEW al, al = ApplyList(s, InBlocks(bs), <<t>>),
         NEW e, e = al.states, NEW p, p = q \o al.queue
  PROVE  Always(e, p, bs) /\ Unless(e, p, bs, h)
<1>1. PICK C, Q, r, R, one : C = InBlocks(bs) /\ Q = ToSet(q) /\ r = al.queue /\ R = ToSet(r) /\ one = <<t>>
  OBVIOUS
<1>2. /\ q \in Seq(Tx) /\ IsInjective(q) /\ Q \in SUBSET Tx
      /\ bs \in Seq(Seq(Tx)) /\ C \in SUBSET Tx
  BY <1>1, AlwaysTypes
<1>3. s \in States /\ Fit(s)
  BY DEF Always
<1>4. one \in Seq(Tx) /\ Len(one) = 1 /\ ToSet(one) = {t} /\ IsInjective(one)
  BY <1>1 DEF ToSet, IsInjective
<1>5. /\ Joins(s, C, e, R) /\ r \in Seq(Tx) /\ R \subseteq {t} /\ Len(r) <= 1 /\ IsInjective(r)
  <2>1. al = ApplyList(s, C, one)
    BY <1>1
  <2>2. /\ Joins(s, C, al.states, ToSet(al.queue))
        /\ al.queue \in Seq(Tx) /\ ToSet(al.queue) \subseteq ToSet(one)
        /\ Len(al.queue) <= Len(one)
        /\ IsInjective(one) => IsInjective(al.queue)
    BY ONLY <1>3, <1>4, <2>1, JoinList
  <2> QED
    BY <1>1, <1>4, <2>2
<1>6. R \in SUBSET Tx /\ Q \cap R = {} /\ e \in States /\ Fit(e) /\ Same(s, e)
  BY <1>1, <1>5 DEF Joins
<1>7. p \in Seq(Tx) /\ IsInjective(p) /\ Len(p) <= MaxTxsPerBlock /\ ToSet(p) = Q \cup R
  <2>1. PICK n \in Nat, m \in Nat : n = Len(q) /\ m = Len(r)
    BY <1>2, <1>5
  <2>2. /\ p \in Seq(Tx) /\ Len(p) = n + m /\ DOMAIN p = 1..n + m
        /\ DOMAIN q = 1..n /\ DOMAIN r = 1..m /\ m <= 1 /\ n < MaxTxsPerBlock
        /\ \A i \in 1..n : p[i] = q[i]
        /\ \A i \in 1..m : p[n + i] = r[i]
    BY <1>1, <1>2, <1>5, <2>1
  <2>3. \A i \in 1..n + m : i \in 1..n \/ (i = n + 1 /\ m = 1)
    BY <2>2
  <2>4. \A i \in 1..n : i \in 1..n + m
    OBVIOUS
  <2>5. ASSUME m = 1 PROVE n + 1 \in 1..n + m /\ p[n + 1] = r[1] /\ 1 \in 1..m
    <3>1. 1 \in 1..m /\ n + 1 \in 1..n + m
      BY <2>5
    <3>2. p[n + 1] = r[1]
      BY <2>2, <3>1
    <3> QED
      BY <3>1, <3>2
  <2>6. m = 1 => p[n + 1] \in R
    BY <1>1, <2>2, <2>5 DEF ToSet
  <2>7. \A i \in 1..n : p[i] \in Q
    BY <1>1, <2>2 DEF ToSet
  <2>8. ToSet(p) \subseteq Q \cup R
    <3>1. \A i \in 1..n + m : p[i] \in Q \cup R
      BY <2>3, <2>6, <2>7
    <3>2. ToSet(p) = {p[i] : i \in 1..n + m}
      BY <2>2 DEF ToSet
    <3> QED
      BY ONLY <3>1, <3>2
  <2>9. Q \subseteq ToSet(p)
    BY <1>1, <2>2, <2>4 DEF ToSet
  <2>10. R \subseteq ToSet(p)
    <3> SUFFICES ASSUME NEW x \in R PROVE x \in ToSet(p)
      OBVIOUS
    <3>1. PICK i \in 1..m : x = r[i]
      BY <1>1, <2>2 DEF ToSet
    <3>2. i = 1 /\ m = 1
      BY <2>2
    <3> QED
      BY <2>2, <2>5, <3>1, <3>2 DEF ToSet
  <2>11. \A i, j \in 1..n : p[i] = p[j] => i = j
    BY <1>2, <2>2 DEF IsInjective
  <2>12. \A i, j \in 1..n + m : p[i] = p[j] => i = j
    BY <1>6, <2>3, <2>6, <2>7, <2>11
  <2>13. IsInjective(p)
    BY <2>2, <2>12 DEF IsInjective
  <2>14. Len(p) <= MaxTxsPerBlock
    BY <2>2, StatesAssumption
  <2> QED
    BY <2>2, <2>8, <2>9, <2>10, <2>13, <2>14
<1>8. p \in TxLists(MaxTxsPerBlock)
  BY <1>7, TxListsAre, StatesAssumption
<1>9. R \cap C = {}
  BY <1>5 DEF Joins, Verified
<1>10. Holds(e, Q \cup R, C)
  <2>1. Holds(s, Q, C)
    BY <1>1 DEF Always
  <2> QED
    BY <1>2, <1>5, <1>6, <2>1, JoinHolds
<1>11. Always(e, p, bs)
  BY <1>1, <1>6, <1>7, <1>8, <1>9, <1>10 DEF Always
<1>12. "delete" \notin h => Verifies(e, Q \cup R, C)
  BY <1>1, <1>2, <1>5, <1>6, JoinVerifies DEF Unless
<1>13. "invalid" \notin h => Once(C) /\ InColumns(e, C)
  BY <1>1, <1>2, <1>6, SameInColumns DEF Unless
<1>14. "replay" \notin h => InDelegates(e, C) /\ OneBlock(bs)
  BY <1>1, <1>2, <1>6, SameInColumns DEF Unless
<1>15. "invalid" \notin h /\ "replay" \notin h => Exact(e, Q \cup R, C)
  BY <1>1, <1>2, <1>3, <1>5, <1>6, JoinExact DEF Unless
<1>16. "replay" \notin h /\ ("invalid" \notin h \/ "delete" \notin h) => Same(e, Replay(bs))
  <2>1. Same(e, s)
    BY <1>6 DEF Same
  <2> QED
    BY <2>1, SameTwice DEF Unless
<1> QED
  BY <1>1, <1>7, <1>11, <1>12, <1>13, <1>14, <1>15, <1>16 DEF Unless

\* applyBlock
LEMMA Applied ==
  ASSUME NEW s, NEW q, NEW bs, NEW h, Always(s, q, bs), Unless(s, q, bs, h),
         NEW block \in TxLists(MaxTxsPerBlock) \ {<<>>}, Len(bs) < MaxHeight,
         \A t \in ToSet(block) : Verified(s, InBlocks(bs), t),
         NEW undone, NEW rewound, NEW confirmed, NEW again,
         Steps(s, q, InBlocks(bs), block, undone, rewound, confirmed, again),
         NEW g, h \subseteq g, "invalid" \notin g => ApplyList(undone, InBlocks(bs), block).queue = block,
         NEW new, new = Append(bs, block)
  PROVE  Always(again.states, again.queue, new) /\ Unless(again.states, again.queue, new, g)
<1>1. PICK C, Q, B, e, p, P : C = InBlocks(bs) /\ Q = ToSet(q) /\ B = ToSet(block)
                              /\ e = again.states /\ p = again.queue /\ P = ToSet(p)
  OBVIOUS
<1>2. /\ q \in Seq(Tx) /\ IsInjective(q) /\ Len(q) <= MaxTxsPerBlock /\ Q \in SUBSET Tx
      /\ bs \in Seq(Seq(Tx)) /\ C \in SUBSET Tx
  BY <1>1, AlwaysTypes
<1>3. s \in States /\ Fit(s) /\ Holds(s, Q, C)
  BY <1>1 DEF Always
<1>4. block \in Seq(Tx) /\ IsInjective(block)
  BY TxListsAre, StatesAssumption
<1>5. B \in SUBSET Tx /\ \A t \in B : Verified(s, C, t)
  BY <1>1, <1>4 DEF ToSet
<1>6. /\ undone \in States /\ Fit(undone) /\ Same(s, undone)
      /\ Effect("undoUnconfirmed", s, undone, Q)
      /\ rewound \in States /\ Fit(rewound) /\ Same(undone, rewound)
      /\ confirmed \in States /\ Fit(confirmed) /\ Effect("apply", rewound, confirmed, B)
      /\ Joins(confirmed, C \cup B, e, P)
      /\ p \in Seq(Tx) /\ IsInjective(p) /\ Len(p) <= Len(q) /\ P \subseteq Q \ B
      /\ ApplyList(undone, C, block).queue = block => Joins(undone, C, rewound, B)
  <2>1. Steps(s, q, C, block, undone, rewound, confirmed, again)
    BY <1>1
  <2>2. Holds(s, ToSet(q), C)
    BY <1>1, <1>3
  <2>3. /\ undone \in States /\ Fit(undone) /\ Same(s, undone)
        /\ Effect("undoUnconfirmed", s, undone, ToSet(q))
        /\ rewound \in States /\ Fit(rewound) /\ Same(undone, rewound)
        /\ confirmed \in States /\ Fit(confirmed) /\ Effect("apply", rewound, confirmed, B)
        /\ Joins(confirmed, C \cup B, again.states, ToSet(again.queue))
        /\ again.queue \in Seq(Tx) /\ IsInjective(again.queue) /\ Len(again.queue) <= Len(q)
        /\ ToSet(again.queue) \subseteq ToSet(q) \ B
        /\ ApplyList(undone, C, block).queue = block => Joins(undone, C, rewound, B)
    <3>1. /\ s \in States /\ Fit(s) /\ q \in Seq(Tx) /\ IsInjective(q)
          /\ block \in Seq(Tx) /\ IsInjective(block) /\ B = ToSet(block) /\ Verifies(s, B, C)
      BY <1>1, <1>2, <1>3, <1>4, <1>5 DEF Verifies
    <3> QED
      BY ONLY <2>1, <2>2, <3>1, BlockSteps, ZenonT(60)
  <2> QED
    BY <1>1, <2>3
<1>7. Longer(new, bs, block) /\ InBlocks(new) = C \cup B
  BY <1>1, <1>2, <1>4, LongerByOne, LongerBlocks
<1>8. P \in SUBSET Tx /\ e \in States /\ Fit(e) /\ Same(confirmed, e) /\ C \cup B \in SUBSET Tx
  BY <1>2, <1>5, <1>6 DEF Joins
<1>9. Same(s, rewound) /\ Same(rewound, s)
  BY <1>6 DEF Same
<1>10. new \in Chain /\ Len(new) <= MaxHeight
  <2>1. bs \in Chain
    BY DEF Always
  <2>2. Len(bs) \in Nat
    BY <1>2
  <2> QED
    BY <2>1, <2>2, StatesAssumption DEF Chain
<1>11. p \in TxLists(MaxTxsPerBlock)
  <2>1. Len(p) <= MaxTxsPerBlock
    BY <1>2, <1>6, StatesAssumption
  <2> QED
    BY <1>6, <2>1, TxListsAre, StatesAssumption
<1>12. P \cap (C \cup B) = {}
  BY <1>6 DEF Joins, Verified
<1>13. Separate(new)
  <2>1. C \cap B = {}
    BY <1>5 DEF Verified
  <2> QED
    BY <1>1, <1>7, <2>1, LongerSeparate DEF Always
<1>14. PaysToKnown(new)
  <2>1. \A t \in B : t.kind = "inTransfer" => Known(C, "dapp", t.key)
    BY <1>5 DEF Verified, InTransferVerified
  <2> QED
    BY <1>1, <1>7, <2>1, LongerPays DEF Always
<1>15. Holds(e, P, C \cup B)
  <2>1. Holds(confirmed, {}, C \cup B)
    BY DEF Holds
  <2>2. Holds(e, {} \cup P, C \cup B)
    BY <1>6, <1>8, <2>1, JoinHolds
  <2> QED
    BY <2>2
<1>16. Always(e, p, new)
  BY <1>1, <1>7, <1>8, <1>10, <1>11, <1>12, <1>13, <1>14, <1>15 DEF Always
<1>17. Verifies(e, P, C \cup B)
  <2>1. Verifies(confirmed, {}, C \cup B)
    BY DEF Verifies
  <2>2. Verifies(e, {} \cup P, C \cup B)
    BY <1>6, <1>8, <2>1, JoinVerifies
  <2> QED
    BY <2>2
<1>18. ASSUME "invalid" \notin g
       PROVE  Once(C \cup B) /\ InColumns(e, C \cup B)
  <2>1. Once(C) /\ InColumns(s, C)
    BY <1>1, <1>18 DEF Unless
  <2>2. Joins(undone, C, rewound, B)
    BY <1>1, <1>6, <1>18
  <2>3. InColumns(undone, C)
    BY <1>2, <1>6, <2>1, SameInColumns
  <2>4. Once(C \cup B)
    BY <1>2, <1>5, <2>1, <2>2, <2>3, JoinOnce
  <2>5. InColumns(rewound, C)
    BY <1>2, <1>9, <2>1, SameInColumns
  <2>6. InColumns(confirmed, C \cup B)
    BY <1>2, <1>5, <1>6, <2>5, ConfirmedColumns
  <2> QED
    BY <1>8, <2>4, <2>6, SameInColumns
<1>19. ASSUME "replay" \notin g
       PROVE  InDelegates(e, C \cup B) /\ OneBlock(new)
  <2>1. InDelegates(s, C) /\ OneBlock(bs)
    BY <1>1, <1>19 DEF Unless
  <2>2. InDelegates(rewound, C)
    BY <1>2, <1>9, <2>1, SameInColumns
  <2>3. InDelegates(confirmed, C \cup B)
    BY <1>2, <1>5, <1>6, <2>2, ConfirmedColumns
  <2>4. InDelegates(e, C \cup B)
    BY <1>8, <2>3, SameInColumns
  <2>5. OtherDelegates(C, B)
    BY <1>5, <2>1 DEF OtherDelegates, InDelegates, Verified, DelegateVerified
  <2> QED
    BY <1>1, <1>7, <2>1, <2>4, <2>5, LongerDelegates
<1>20. ASSUME "invalid" \notin g, "replay" \notin g PROVE Exact(e, P, C \cup B)
  <2>1. Exact(s, Q, C)
    BY <1>1, <1>20 DEF Unless
  <2>2. Joins(undone, C, rewound, B)
    BY <1>1, <1>6, <1>20
  <2>3. Exact(undone, {}, C)
    BY <1>2, <1>3, <1>6, <2>1, UndoneExact
  <2>4. Exact(rewound, {} \cup B, C)
    BY <1>5, <1>6, <2>2, <2>3, JoinExact
  <2>5. Exact(rewound, B, C)
    BY <2>4
  <2>6. Exact(confirmed, {}, C \cup B)
    BY <1>2, <1>5, <1>6, <2>5, ConfirmedExact
  <2>7. Exact(e, {} \cup P, C \cup B)
    BY <1>6, <1>8, <2>6, JoinExact
  <2> QED
    BY <2>7
<1>21. ASSUME "replay" \notin g, "invalid" \notin g \/ "delete" \notin g PROVE Same(e, Replay(new))
  <2>1. PICK was : was = Replay(bs)
    OBVIOUS
  <2>2. was \in States /\ Same(s, was)
    BY <1>2, <1>21, <2>1, Replayed DEF Unless
  <2>3. Same(rewound, was)
    BY <1>9, <2>2, SameTwice
  <2>4. Same(Each("apply", rewound, block), Each("apply", was, block))
    BY <1>4, <1>6, <2>2, <2>3, SameEach
  <2>5. confirmed = Each("apply", rewound, block)
    BY DEF Steps
  <2>6. Replay(new) = Each("apply", was, block)
    BY <1>7, <2>1, ReplayNext
  <2>7. Same(confirmed, Replay(new))
    BY <2>4, <2>5, <2>6
  <2>8. Same(e, confirmed)
    BY <1>8 DEF Same
  <2> QED
    BY <2>7, <2>8, SameTwice
<1> QED
  BY <1>1, <1>7, <1>16, <1>17, <1>18, <1>19, <1>20, <1>21 DEF Unless

LEMMA Reversed ==
  ASSUME NEW list \in Seq(Tx), NEW r, r = Reverse(list)
  PROVE  r \in Seq(Tx) /\ ToSet(r) = ToSet(list)
<1>1. PICK n \in Nat : n = Len(list)
  OBVIOUS
<1>2. DOMAIN list = 1..n /\ \A i \in 1..n : list[i] \in Tx
  BY <1>1
<1>3. r = [i \in 1..n |-> list[(n - i) + 1]]
  BY <1>1 DEF Reverse
<1>4. \A i \in 1..n : (n - i) + 1 \in 1..n /\ (n - ((n - i) + 1)) + 1 = i
  OBVIOUS
<1>5. DOMAIN r = 1..n /\ \A i \in 1..n : r[i] = list[(n - i) + 1]
  BY <1>3
<1>6. \A i \in 1..n : r[i] \in Tx
  BY <1>2, <1>4, <1>5
<1>7. r \in Seq(Tx)
  <2>1. r \in [1..n -> Tx]
    BY <1>3, <1>5, <1>6
  <2> QED
    BY <2>1
<1>8. ToSet(r) \subseteq ToSet(list)
  BY <1>2, <1>4, <1>5 DEF ToSet
<1>9. ASSUME NEW x \in ToSet(list) PROVE x \in ToSet(r)
  <2>1. PICK i \in 1..n : x = list[i]
    BY <1>2 DEF ToSet
  <2>2. PICK j : j = (n - i) + 1
    OBVIOUS
  <2>3. j \in 1..n /\ r[j] = list[i]
    BY <1>4, <1>5, <2>2
  <2> QED
    BY <1>5, <2>1, <2>3 DEF ToSet
<1> QED
  BY <1>7, <1>8, <1>9

\* popLastBlock
LEMMA Deleted ==
  ASSUME NEW s, NEW q, NEW bs, NEW h, Always(s, q, bs), Unless(s, q, bs, h), bs # <<>>,
         NEW e, e = Each("undo", s, Reverse(Last(bs))), NEW fr, fr = Front(bs),
         NEW g, h \subseteq g, "delete" \in g
  PROVE  Always(e, q, fr) /\ Unless(e, q, fr, g)
<1>1. PICK b, C, D, Q, B : b = Last(bs) /\ C = InBlocks(bs) /\ D = InBlocks(fr) /\ Q = ToSet(q) /\ B = ToSet(b)
  OBVIOUS
<1>2. /\ q \in Seq(Tx) /\ IsInjective(q) /\ Q \in SUBSET Tx
      /\ bs \in Seq(Seq(Tx)) /\ C \in SUBSET Tx
  BY <1>1, AlwaysTypes
<1>3. s \in States /\ Fit(s) /\ Holds(s, Q, C)
  BY <1>1 DEF Always
<1>4. Longer(bs, fr, b)
  BY <1>1, <1>2, FrontAndLast
<1>5. C = D \cup B
  BY <1>1, <1>4, LongerBlocks
<1>6. D \in SUBSET Tx /\ B \in SUBSET Tx
  BY <1>2, <1>5
<1>7. D \cap B = {} /\ Separate(fr) /\ PaysToKnown(fr)
  BY <1>1, <1>4, LongerSeparate, LongerPays DEF Always
<1>8. b \in Seq(Tx)
  BY <1>4 DEF Longer
<1>9. e \in States /\ Fit(e) /\ Effect("undo", s, e, B)
  <2>1. PICK r : r = Reverse(b)
    OBVIOUS
  <2>2. r \in Seq(Tx) /\ ToSet(r) = B
    BY <1>1, <1>8, <2>1, Reversed
  <2>3. "undo" \in Calls /\ e = Each("undo", s, r)
    BY <1>1, <2>1 DEF Calls
  <2>4. e \in States /\ Fit(e) /\ Effect("undo", s, e, ToSet(r))
    BY ONLY <1>3, <2>2, <2>3, EachEffect
  <2> QED
    BY <2>2, <2>4
<1>10. fr \in Chain /\ Len(fr) <= MaxHeight
  <2>1. bs \in Chain /\ Len(bs) <= MaxHeight
    BY DEF Always
  <2>2. PICK n \in Nat : n = Len(bs)
    BY <1>2
  <2>3. n > 0 /\ n - 1 \in Nat /\ fr = SubSeq(bs, 1, n - 1)
    BY <1>2, <2>2 DEF Front
  <2>4. fr \in Chain /\ Len(fr) = n - 1
    BY <2>1, <2>2, <2>3 DEF Chain
  <2> QED
    BY <2>1, <2>2, <2>4, StatesAssumption
<1>11. Q \cap D = {}
  BY <1>1, <1>5 DEF Always
<1>12. Holds(e, Q, D)
  <2>1. Holds(s, Q, D \cup B)
    BY <1>3, <1>5
  <2> QED
    BY <1>2, <1>3, <1>9, <2>1, UndoHolds
<1>13. Always(e, q, fr)
  BY <1>1, <1>7, <1>9, <1>10, <1>11, <1>12 DEF Always
<1>14. "invalid" \notin g => Once(D \cup B) /\ InColumns(s, D \cup B)
  BY <1>1, <1>5 DEF Unless
<1>15. "invalid" \notin g => Once(D) /\ InColumns(e, D)
  <2>1. Once(D \cup B) => Once(D)
    BY DEF Once
  <2> QED
    BY <1>6, <1>7, <1>9, <1>14, <2>1, UndoColumns
<1>16. "replay" \notin g => InDelegates(s, D \cup B) /\ OneBlock(fr) /\ OtherDelegates(D, B)
  <2> SUFFICES ASSUME "replay" \notin g PROVE InDelegates(s, D \cup B) /\ OneBlock(fr) /\ OtherDelegates(D, B)
    OBVIOUS
  <2>1. InDelegates(s, D \cup B) /\ OneBlock(bs)
    BY <1>1, <1>5 DEF Unless
  <2>2. OneBlock(fr) /\ OtherDelegates(D, B)
    BY <1>1, <1>4, <2>1, LongerDelegates
  <2> QED
    BY <2>1, <2>2
<1>17. "replay" \notin g => InDelegates(e, D) /\ OneBlock(fr)
  BY <1>6, <1>9, <1>16, UndoDelegates
<1>18. "invalid" \notin g /\ "replay" \notin g => Exact(e, Q, D)
  <2> SUFFICES ASSUME "invalid" \notin g, "replay" \notin g PROVE Exact(e, Q, D)
    OBVIOUS
  <2>1. Exact(s, Q, D \cup B) /\ Holds(s, Q, D \cup B)
    BY <1>1, <1>3, <1>5 DEF Unless
  <2> QED
    BY <1>2, <1>3, <1>6, <1>9, <1>14, <1>16, <2>1, UndoExact
<1>19. "replay" \notin g /\ "invalid" \notin g => Same(e, Replay(fr))
  <2> SUFFICES ASSUME "replay" \notin g, "invalid" \notin g PROVE Same(e, Replay(fr))
    OBVIOUS
  <2>1. PICK P, m : P = Replay(fr) /\ m = Replay(bs)
    OBVIOUS
  <2>2. fr \in Seq(Seq(Tx))
    BY <1>4 DEF Longer
  <2>3. P \in States /\ Fit(P) /\ Effect("apply", NewStates, P, D)
    BY <1>1, <2>1, <2>2, Replayed
  <2>4. m = Each("apply", P, b)
    BY <1>4, <2>1, ReplayNext
  <2>5. "apply" \in Calls
    BY DEF Calls
  <2>6. m \in States /\ Effect("apply", P, m, ToSet(b))
    BY ONLY <1>8, <2>3, <2>4, <2>5, EachEffect
  <2>7. Effect("apply", P, m, B) /\ Same(s, m)
    BY <1>1, <2>1, <2>6 DEF Unless
  <2>8. Same(e, P)
    BY <1>3, <1>6, <1>7, <1>9, <1>14, <1>16, <2>3, <2>6, <2>7, UndoSame
  <2> QED
    BY <2>1, <2>8
<1> QED
  BY <1>1, <1>13, <1>15, <1>17, <1>18, <1>19 DEF Unless

\* runtime.sql
LEMMA Restarted ==
  ASSUME NEW s, NEW q, NEW bs, NEW h, Always(s, q, bs), Unless(s, q, bs, h),
         NEW e, e = [account |-> [a \in Account |-> LET r == s.account[a] IN
                       [r EXCEPT !.uSecond = r.second, !.uDelegate = r.delegate,
                                 !.uName = r.name, !.uKeys = r.keys]],
                     pending |-> {}]
  PROVE  Always(e, <<>>, bs) /\ Unless(e, <<>>, bs, h)
<1>1. PICK C : C = InBlocks(bs)
  OBVIOUS
<1>2. s \in States /\ Fit(s) /\ C \in SUBSET Tx
  BY <1>1, AlwaysTypes DEF Always
<1>3. ASSUME NEW a \in Account, NEW r, r = s.account[a], NEW q0, q0 = e.account[a]
      PROVE  /\ q0 \in Columns /\ Fitted(q0)
             /\ q0.second = r.second /\ q0.secondKey = r.secondKey /\ q0.delegate = r.delegate
             /\ q0.name = r.name /\ q0.keys = r.keys
             /\ q0.uSecond = r.second /\ q0.uDelegate = r.delegate /\ q0.uKeys = r.keys
  <2>1. r \in Columns /\ Fitted(r)
    BY <1>2, <1>3 DEF States, Fit
  <2>2. q0 = [r EXCEPT !.uSecond = r.second, !.uDelegate = r.delegate, !.uName = r.name, !.uKeys = r.keys]
    BY <1>3
  <2>3. q0 \in Columns
    BY <2>1, <2>2 DEF Columns
  <2>4. /\ q0.second = r.second /\ q0.secondKey = r.secondKey /\ q0.delegate = r.delegate
        /\ q0.name = r.name /\ q0.keys = r.keys
        /\ q0.uSecond = r.second /\ q0.uDelegate = r.delegate /\ q0.uKeys = r.keys
    BY <2>1, <2>2 DEF Columns
  <2> QED
    BY <2>1, <2>3, <2>4 DEF Fitted
<1>4. e \in States /\ Fit(e)
  <2>1. e.account \in [Account -> Columns]
    BY <1>3
  <2>2. e = [account |-> e.account, pending |-> {}]
    OBVIOUS
  <2> QED
    BY <1>3, <2>1, <2>2 DEF States, Fit
<1>5. Same(s, e) /\ Same(e, s)
  <2>1. ASSUME NEW a \in Account PROVE Confirmed(s.account[a]) = Confirmed(e.account[a])
    <3>1. PICK r, q0 : r = s.account[a] /\ q0 = e.account[a]
      OBVIOUS
    <3>2. /\ q0.second = r.second /\ q0.secondKey = r.secondKey /\ q0.delegate = r.delegate
          /\ q0.name = r.name /\ q0.keys = r.keys
      BY ONLY a \in Account, <1>3, <3>1
    <3> QED
      BY <3>1, <3>2 DEF Confirmed
  <2> QED
    BY <2>1 DEF Same
<1>6. <<>> \in TxLists(MaxTxsPerBlock) /\ ToSet(<<>>) = {}
  <2>1. PICK none : none = <<>>
    OBVIOUS
  <2>2. none \in Seq(Tx) /\ IsInjective(none) /\ Len(none) <= MaxTxsPerBlock /\ ToSet(none) = {}
    <3>1. none \in Seq(Tx) /\ IsInjective(none) /\ Len(none) = 0 /\ ToSet(none) = {}
      BY ONLY <2>1, EmptyList
    <3>2. MaxTxsPerBlock \in Nat
      BY StatesAssumption
    <3> QED
      BY ONLY <3>1, <3>2
  <2>3. none \in TxLists(MaxTxsPerBlock)
    BY <2>2, TxListsAre, StatesAssumption
  <2> QED
    BY <2>1, <2>2, <2>3
<1>7. Holds(e, {}, C) /\ Verifies(e, {}, C)
  BY DEF Holds, Verifies
<1>8. Always(e, <<>>, bs)
  BY <1>1, <1>4, <1>6, <1>7 DEF Always
<1>9. Exact(e, {}, C)
  <2>1. e.pending = {}
    OBVIOUS
  <2>2. Links({}) = {} /\ \A a : ~By("signature", a, {}) /\ ~By("delegate", a, {}) /\ KeysBy(a, {}) = {}
    BY ByNone
  <2>3. ASSUME NEW a \in Account
        PROVE  /\ e.account[a].uSecond => e.account[a].second
               /\ e.account[a].uDelegate => e.account[a].delegate
               /\ e.account[a].uKeys = e.account[a].keys
    <3>1. PICK r, q0 : r = s.account[a] /\ q0 = e.account[a]
      OBVIOUS
    <3>2. /\ q0.second = r.second /\ q0.delegate = r.delegate /\ q0.keys = r.keys
          /\ q0.uSecond = r.second /\ q0.uDelegate = r.delegate /\ q0.uKeys = r.keys
      BY ONLY a \in Account, <1>3, <3>1
    <3>3. (q0.uSecond => q0.second) /\ (q0.uDelegate => q0.delegate) /\ q0.uKeys = q0.keys
      BY ONLY <3>2
    <3> QED
      BY ONLY <3>1, <3>3
  <2> QED
    BY ONLY <2>1, <2>2, <2>3 DEF Exact
<1>10. "invalid" \notin h => Once(C) /\ InColumns(e, C)
  BY <1>1, <1>2, <1>5, SameInColumns DEF Unless
<1>11. "replay" \notin h => InDelegates(e, C) /\ OneBlock(bs)
  BY <1>1, <1>2, <1>5, SameInColumns DEF Unless
<1>12. "replay" \notin h /\ ("invalid" \notin h \/ "delete" \notin h) => Same(e, Replay(bs))
  BY <1>5, SameTwice DEF Unless
<1> QED
  BY <1>1, <1>6, <1>7, <1>8, <1>9, <1>10, <1>11, <1>12 DEF Unless

\* A block with a transaction of the chain is refused.
LEMMA Refused ==
  ASSUME NEW s, NEW q, NEW bs, NEW h, Always(s, q, bs), Unless(s, q, bs, h),
         NEW t \in InBlocks(bs), NEW e, e = UndoUnconfirmed(s, t), NEW g, h \subseteq g, "replay" \in g
  PROVE  Always(e, q, bs) /\ Unless(e, q, bs, g)
<1>1. PICK C, Q : C = InBlocks(bs) /\ Q = ToSet(q)
  OBVIOUS
<1>2. s \in States /\ Fit(s) /\ C \in SUBSET Tx /\ Q \in SUBSET Tx /\ t \in Tx /\ Holds(s, Q, C)
  BY <1>1, AlwaysTypes DEF Always
<1>3. e \in States /\ Fit(e) /\ Effect("undoUnconfirmed", s, e, {t})
  <2>1. "undoUnconfirmed" \in Calls /\ e = Call("undoUnconfirmed", s, t)
    BY DEF Calls, Call
  <2> QED
    BY ONLY <1>2, <2>1, CallOne
<1>4. ASSUME NEW a \in Account, NEW r, r = s.account[a], NEW q0, q0 = e.account[a]
      PROVE  /\ q0.second = r.second /\ q0.keys = r.keys
             /\ q0.delegate => r.delegate
             /\ q0.name = None \/ q0.name = r.name
  <2>1. PICK s1, d1, k1 : s1 = By("signature", a, {t}) /\ d1 = By("delegate", a, {t}) /\ k1 = KeysBy(a, {t})
    OBVIOUS
  <2>2. RowUndoUnconfirmed(r, q0, s1, d1, k1)
    BY <1>3, <1>4, <2>1 DEF Effect, Row
  <2> QED
    BY <2>2 DEF RowUndoUnconfirmed
<1>5. \A u \in Tx : u.sender \in Account /\ u.key # None
  BY TxFields
<1>6. Holds(e, Q, C)
  <2> SUFFICES ASSUME NEW u \in Q, NEW q0, q0 = e.account[u.sender]
               PROVE  /\ u.kind = "delegate" => ~q0.delegate
                      /\ u.kind = "multisignature" => q0.keys = {}
                      /\ u.kind = "signature" => ~q0.second
                      /\ u.kind \in {"dapp", "outTransfer"} => ~Known(C, u.kind, u.key)
    BY DEF Holds
  <2>1. PICK r : r = s.account[u.sender]
    OBVIOUS
  <2>2. /\ q0.second = r.second /\ q0.keys = r.keys
        /\ q0.delegate => r.delegate
    BY <1>2, <1>4, <1>5, <2>1
  <2>3. /\ u.kind = "delegate" => ~r.delegate
        /\ u.kind = "multisignature" => r.keys = {}
        /\ u.kind = "signature" => ~r.second
        /\ u.kind \in {"dapp", "outTransfer"} => ~Known(C, u.kind, u.key)
    BY <1>2, <2>1 DEF Holds
  <2> QED
    BY <2>2, <2>3
<1>7. ASSUME NEW u \in Q, Verified(s, C, u) PROVE Verified(e, C, u)
  <2>1. PICK x : x = u.sender
    OBVIOUS
  <2>2. x \in Account /\ u.key # None
    BY <1>2, <1>5, <2>1
  <2>3. DelegateVerified(s, u) => DelegateVerified(e, u)
    BY <1>4, <2>1, <2>2 DEF DelegateVerified
  <2>4. e.account[u.sender].second = s.account[u.sender].second /\ e.account[u.sender].keys = s.account[u.sender].keys
    BY <1>4, <2>1, <2>2
  <2> QED
    BY <1>7, <2>3, <2>4 DEF Verified, MultisignatureVerified
<1>8. Always(e, q, bs)
  BY <1>1, <1>3, <1>6 DEF Always
<1>9. "delete" \notin g => Verifies(e, Q, C)
  BY <1>1, <1>7 DEF Unless, Verifies
<1>10. "invalid" \notin g => Once(C) /\ InColumns(e, C)
  <2>1. "invalid" \notin g => Once(C) /\ InColumns(s, C)
    BY <1>1 DEF Unless
  <2> QED
    BY <1>2, <1>4, <1>5, <2>1 DEF InColumns
<1> QED
  BY <1>1, <1>8, <1>9, <1>10 DEF Unless

AccountsInv ==
  Always(states, unconfirmed, blocks) /\ Unless(states, unconfirmed, blocks, happened)

LEMMA AccountsStart == StatesInit => AccountsInv
<1> SUFFICES ASSUME StatesInit PROVE AccountsInv
  OBVIOUS
<1>1. states = NewStates /\ unconfirmed = <<>> /\ blocks = <<>> /\ happened = {}
  BY DEF StatesInit
<1>2. PICK none : none = <<>>
  OBVIOUS
<1>3. none \in Seq(Tx) /\ IsInjective(none) /\ Len(none) = 0 /\ ToSet(none) = {} /\ none \in Chain
  <2>1. none \in Chain
    BY <1>2 DEF Chain
  <2> QED
    BY <1>2, <2>1, EmptyList
<1>4. DOMAIN none = {}
  <2>1. DOMAIN none = 1..0
    BY <1>2
  <2> QED
    BY <2>1
<1>5. InBlocks(none) = {} /\ Separate(none) /\ PaysToKnown(none) /\ OneBlock(none)
  BY <1>4 DEF InBlocks, Separate, PaysToKnown, OneBlock
<1>6. none \in TxLists(MaxTxsPerBlock) /\ Len(none) <= MaxHeight
  <2>1. MaxTxsPerBlock \in Nat /\ MaxHeight \in Nat
    BY StatesAssumption
  <2>2. none \in Seq(Tx) /\ IsInjective(none) /\ Len(none) <= MaxTxsPerBlock /\ Len(none) <= MaxHeight
    BY ONLY <1>3, <2>1
  <2> QED
    BY <2>1, <2>2, TxListsAre
<1>7. NewStates \in States /\ Fit(NewStates) /\ Replay(none) = NewStates
  BY <1>2, NewFit, ReplayNone
<1>8. Holds(NewStates, {}, {}) /\ Verifies(NewStates, {}, {})
  BY DEF Holds, Verifies
<1>9. Once({}) /\ InColumns(NewStates, {}) /\ InDelegates(NewStates, {})
  BY DEF Once, InColumns, InDelegates
<1>10. Exact(NewStates, {}, {})
  <2>1. NewStates.pending = {}
    BY DEF NewStates
  <2>2. \A a \in Account : LET r == NewStates.account[a] IN ~r.uSecond /\ ~r.uDelegate /\ r.keys = {} /\ r.uKeys = {}
    BY DEF NewStates, NewAccount
  <2>3. Links({}) = {} /\ \A a : ~By("signature", a, {}) /\ ~By("delegate", a, {}) /\ KeysBy(a, {}) = {}
    BY ByNone
  <2> QED
    BY <2>1, <2>2, <2>3 DEF Exact
<1>11. Same(NewStates, NewStates)
  BY DEF Same
<1>12. Always(NewStates, none, none)
  BY <1>3, <1>5, <1>6, <1>7, <1>8 DEF Always
<1>13. Unless(NewStates, none, none, {})
  BY <1>3, <1>5, <1>7, <1>8, <1>9, <1>10, <1>11 DEF Unless
<1> QED
  BY <1>1, <1>2, <1>12, <1>13 DEF AccountsInv

LEMMA AccountsStep == AccountsInv /\ [StatesNext]_statesVars => AccountsInv'
<1> SUFFICES ASSUME AccountsInv, [StatesNext]_statesVars PROVE AccountsInv'
  OBVIOUS
<1> USE DEF AccountsInv
<1>1. ASSUME NEW t \in Tx, FillPool(t) PROVE AccountsInv'
  <2>1. PICK al : al = ApplyList(states, InBlocks(blocks), <<t>>)
    OBVIOUS
  <2>2. /\ t \notin ToSet(unconfirmed) /\ Len(unconfirmed) < MaxTxsPerBlock
        /\ states' = al.states /\ unconfirmed' = unconfirmed \o al.queue
        /\ blocks' = blocks /\ happened' = happened
    BY <1>1, <2>1 DEF FillPool
  <2>3. Always(states', unconfirmed', blocks) /\ Unless(states', unconfirmed', blocks, happened)
    BY <2>1, <2>2, Filled
  <2> QED
    BY <2>2, <2>3
<1>2. ASSUME NEW block \in TxLists(MaxTxsPerBlock) \ {<<>>}, ApplyBlock(block) PROVE AccountsInv'
  <2>1. PICK undone, fitting, applied, rewound, confirmed, again :
          /\ undone = Each("undoUnconfirmed", states, unconfirmed)
          /\ fitting = Fitting(undone, block)
          /\ applied = Each("applyUnconfirmed", undone, fitting)
          /\ rewound = IF fitting = block THEN applied ELSE Each("undoUnconfirmed", applied, fitting)
          /\ confirmed = Each("apply", rewound, block)
          /\ again = ApplyList(confirmed, InBlocks(Append(blocks, block)), Rest(unconfirmed, block))
    OBVIOUS
  <2>2. /\ Len(blocks) < MaxHeight /\ Passes(block)
        /\ Happens(IF Forgeable(block) THEN {} ELSE {"invalid"})
        /\ states' = again.states /\ unconfirmed' = again.queue
        /\ blocks' = Append(blocks, block)
    BY <1>2, <2>1 DEF ApplyBlock
  <2>3. \A t \in ToSet(block) : Verified(states, InBlocks(blocks), t)
    BY <2>2 DEF Passes, ToSet
  <2>4. /\ happened \subseteq happened'
        /\ "invalid" \notin happened' => ApplyList(undone, InBlocks(blocks), block).queue = block
    BY <2>1, <2>2 DEF Happens, Forgeable
  <2>5. InBlocks(Append(blocks, block)) = InBlocks(blocks) \cup ToSet(block)
    <3>1. blocks \in Seq(Seq(Tx))
      BY AlwaysTypes
    <3>2. block \in Seq(Tx)
      BY TxListsAre, StatesAssumption
    <3>3. PICK new : new = Append(blocks, block)
      OBVIOUS
    <3>4. Longer(new, blocks, block)
      BY <3>1, <3>2, <3>3, LongerByOne
    <3> QED
      BY <3>3, <3>4, LongerBlocks
  <2>6. Steps(states, unconfirmed, InBlocks(blocks), block, undone, rewound, confirmed, again)
    BY <2>1, <2>5 DEF Steps
  <2>7. PICK new : new = Append(blocks, block)
    OBVIOUS
  <2>8. Always(again.states, again.queue, new) /\ Unless(again.states, again.queue, new, happened')
    BY <2>2, <2>3, <2>4, <2>6, <2>7, Applied
  <2> QED
    BY <2>2, <2>7, <2>8
<1>3. ASSUME DeleteLastBlock PROVE AccountsInv'
  <2>1. /\ blocks # <<>> /\ states' = Each("undo", states, Reverse(Last(blocks)))
        /\ blocks' = Front(blocks) /\ unconfirmed' = unconfirmed
        /\ happened \subseteq happened' /\ "delete" \in happened'
    BY <1>3 DEF DeleteLastBlock, Happens
  <2>2. Always(states', unconfirmed, blocks') /\ Unless(states', unconfirmed, blocks', happened')
    BY <2>1, Deleted
  <2> QED
    BY <2>1, <2>2
<1>4. ASSUME Restarts PROVE AccountsInv'
  <2>1. /\ states' = [account |-> [a \in Account |-> LET r == states.account[a] IN
                        [r EXCEPT !.uSecond = r.second, !.uDelegate = r.delegate,
                                  !.uName = r.name, !.uKeys = r.keys]],
                      pending |-> {}]
        /\ unconfirmed' = <<>> /\ blocks' = blocks /\ happened' = happened
    BY <1>4 DEF Restarts
  <2>2. Always(states', <<>>, blocks) /\ Unless(states', <<>>, blocks, happened)
    BY <2>1, Restarted
  <2> QED
    BY <2>1, <2>2
<1>5. ASSUME NEW t \in Tx, RejectReplay(t) PROVE AccountsInv'
  <2>1. /\ t \in InBlocks(blocks) /\ states' = UndoUnconfirmed(states, t)
        /\ unconfirmed' = unconfirmed /\ blocks' = blocks
        /\ happened \subseteq happened' /\ "replay" \in happened'
    BY <1>5 DEF RejectReplay, Happens
  <2>2. Always(states', unconfirmed, blocks) /\ Unless(states', unconfirmed, blocks, happened')
    BY <2>1, Refused
  <2> QED
    BY <2>1, <2>2
<1>6. ASSUME UNCHANGED statesVars PROVE AccountsInv'
  BY <1>6 DEF statesVars
<1> QED
  BY <1>1, <1>2, <1>3, <1>4, <1>5, <1>6 DEF StatesNext

LEMMA AccountsAlways == StatesSpec => []AccountsInv
BY AccountsStart, AccountsStep, PTL DEF StatesSpec

\* The chain registers nothing twice, and pays only into applications that an
\* earlier block registers.
THEOREM RegistrationsUnique == StatesSpec => []RegistrationsOK
<1>1. AccountsInv => RegistrationsOK
  <2> SUFFICES ASSUME AccountsInv PROVE RegistrationsOK
    OBVIOUS
  <2>1. Always(states, unconfirmed, blocks) /\ Unless(states, unconfirmed, blocks, happened)
    BY DEF AccountsInv
  <2>2. ASSUME Without({"invalid"}), NEW t \in InBlocks(blocks), NEW u \in InBlocks(blocks),
               t # u, t.kind = u.kind
        PROVE  CASE t.kind \in {"signature", "multisignature"} -> t.sender # u.sender
                 [] t.kind \in {"dapp", "outTransfer"} -> t.key # u.key
                 [] OTHER -> TRUE
    <3>1. Once(InBlocks(blocks))
      BY <2>1, <2>2 DEF Unless, Without
    <3>2. /\ t.kind \in {"signature", "multisignature"} => t.sender # u.sender
          /\ t.kind \in {"dapp", "outTransfer"} => t.key # u.key
      BY <2>2, <3>1 DEF Once
    <3> QED
      BY <3>2
  <2>3. RegisteredOnce
    BY <2>2 DEF RegisteredOnce
  <2>4. PaysRegistered
    BY <2>1 DEF Always, PaysToKnown, PaysRegistered
  <2> QED
    BY <2>3, <2>4 DEF RegistrationsOK
<1> QED
  BY AccountsAlways, <1>1, PTL

\* The confirmed columns of every account are what the blocks of the chain make
\* of new accounts, whatever was queued, undone, deleted or restarted.
THEOREM AccountsFollowChain == StatesSpec => []AccountsOK
<1>1. AccountsInv => AccountsOK
  <2> SUFFICES ASSUME AccountsInv PROVE AccountsOK
    OBVIOUS
  <2>1. Always(states, unconfirmed, blocks) /\ Unless(states, unconfirmed, blocks, happened)
    BY DEF AccountsInv
  <2>2. StatesTypeOK
    <3>1. states.account \in [Account -> Columns] /\ states.pending \subseteq Link
      BY <2>1 DEF Always, States
    <3>2. \A i \in DOMAIN blocks : blocks[i] \in TxLists(MaxTxsPerBlock) \ {<<>>}
      BY <2>1 DEF Always, Chain
    <3> QED
      BY <2>1, <3>1, <3>2 DEF Always, StatesTypeOK, Columns, Link
  <2>3. ConfirmedIsChain
    BY <2>1 DEF Unless, Same, ConfirmedIsChain, Without
  <2> QED
    BY <2>2, <2>3 DEF AccountsOK
<1> QED
  BY AccountsAlways, <1>1, PTL

\* The unconfirmed columns and the tables in memory hold what the queue asks
\* for, and each transaction of the queue verifies.
THEOREM PendingFollowsQueue == StatesSpec => []PendingOK
<1>1. AccountsInv => PendingOK
  <2> SUFFICES ASSUME AccountsInv PROVE PendingOK
    OBVIOUS
  <2>1. Always(states, unconfirmed, blocks) /\ Unless(states, unconfirmed, blocks, happened)
    BY DEF AccountsInv
  <2> DEFINE Q == ToSet(unconfirmed)
             C == InBlocks(blocks)
             queued(kind) == {t \in Q : t.kind = kind}
             by(a, kind) == {t \in queued(kind) : t.sender = a}
             remembered(kinds) == UNION {Remembered(t) : t \in UNION {queued(k) : k \in kinds}}
             dapps == UNION {Remembered(t) : t \in {u \in C : u.kind = "dapp"}}
  <2>2. \A t \in Q : t.kind \in Kinds
    BY <2>1, AlwaysTypes, TxFields
  <2>3. UNION {queued(k) : k \in Kinds} = Q
    BY <2>2
  <2>4. remembered(Kinds) = Links(Q)
    BY <2>3 DEF Links
  <2>5. dapps = Links({u \in C : u.kind = "dapp"})
    BY DEF Links
  <2>6. \A a : /\ by(a, "signature") # {} <=> By("signature", a, Q)
               /\ by(a, "delegate") # {} <=> By("delegate", a, Q)
               /\ {t.key : t \in by(a, "multisignature")} = KeysBy(a, Q)
    <3> SUFFICES ASSUME NEW a
                 PROVE  /\ by(a, "signature") # {} <=> By("signature", a, Q)
                        /\ by(a, "delegate") # {} <=> By("delegate", a, Q)
                        /\ {t.key : t \in by(a, "multisignature")} = KeysBy(a, Q)
      OBVIOUS
    <3>1. \A kind : by(a, kind) = {t \in Q : t.kind = kind /\ t.sender = a}
      OBVIOUS
    <3>2. by(a, "multisignature") = {u \in Q : u.kind = "multisignature" /\ u.sender = a}
      BY <3>1
    <3>3. {t.key : t \in by(a, "multisignature")} = KeysBy(a, Q)
      BY <3>2 DEF KeysBy
    <3> QED
      BY <3>3 DEF By
  <2>7. Without({"invalid", "replay"}) => Exact(states, Q, C)
    BY <2>1 DEF Unless, Without
  <2>8. PendingExact
    <3> SUFFICES ASSUME Without({"invalid", "replay"})
                 PROVE  /\ \A a \in Account : LET r == states.account[a] IN
                             /\ by(a, "signature") # {} => r.uSecond
                             /\ r.uSecond => by(a, "signature") # {} \/ r.second
                             /\ by(a, "delegate") # {} => r.uDelegate /\ ~r.delegate
                             /\ r.uDelegate => by(a, "delegate") # {} \/ r.delegate
                             /\ r.uKeys = r.keys \cup {t.key : t \in by(a, "multisignature")}
                        /\ remembered(Kinds) \subseteq states.pending
                        /\ states.pending \subseteq remembered(Kinds) \cup dapps
      BY DEF PendingExact
    <3>1. Exact(states, Q, C)
      BY <2>7
    <3> HIDE DEF Q, C, by, remembered, dapps
    <3> QED
      BY <2>4, <2>5, <2>6, <3>1 DEF Exact
  <2>9. QueueVerifies
    BY <2>1 DEF Unless, Verifies, QueueVerifies, Without, ToSet
  <2> QED
    BY <2>8, <2>9 DEF PendingOK
<1> QED
  BY AccountsAlways, <1>1, PTL
=============================================================================
