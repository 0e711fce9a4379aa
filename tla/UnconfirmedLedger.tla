------------------------- MODULE UnconfirmedLedger -------------------------
(***************************************************************************)
(* Confirmed and unconfirmed balances.  A transaction of the unconfirmed   *)
(* queue is applied to u_balance, so that a sender cannot promise the same *)
(* money twice; a block is applied to balance.  Every block first undoes   *)
(* the whole queue, applies its own transactions to u_balance and then to  *)
(* balance, and applies what is left of the queue again.                   *)
(*                                                                         *)
(* All of this runs in `sequence`, one task after the other: fillPool, a   *)
(* block that is received or forged, a deletion of the last block, and a   *)
(* sync, which is many blocks.  Only the expiry timer of the pool runs in  *)
(* between.  An action is one transaction of the list that the task under  *)
(* way works through; nothing else writes the balances meanwhile.          *)
(* The queue itself is module TransactionPool; here it is a sequence.      *)
(***************************************************************************)
EXTENDS Integers, Sequences, FiniteSets, FiniteSetsExt, SequencesExt

CONSTANTS Account, Tx,
          From, Amount, Fee,   \* of a transaction
          To,               \* whom a transfer pays
          InTransfers,      \* transactions that pay an application instead,
          Author,           \* and who has registered it
          Balance0,         \* balances at the start
          MaxTxsPerBlock,   \* constants.maxTxsPerBlock
          MaxHeight,        \* bound: blocks of the chain
          Retries,          \* attempts of a sync (Loader.retries)
          Events,           \* kinds of events that may happen
          MaxEvents         \* bound: events

ASSUME LedgerAssumption ==
  /\ From \in [Tx -> Account]
  /\ InTransfers \subseteq Tx
  /\ To \in [Tx \ InTransfers -> Account]
  /\ Author \in Account
  /\ Amount \in [Tx -> Nat]
  /\ Fee \in [Tx -> Nat \ {0}]
  /\ Balance0 \in [Account -> Nat]
  /\ MaxTxsPerBlock \in Nat \ {0}
  /\ MaxHeight \in Nat
  /\ Retries \in Nat \ {0}
  /\ Events \subseteq {"expire", "sync", "replay", "delete", "overspend", "alias"}
  /\ MaxEvents \in Nat

VARIABLES
  balance, u_balance,   \* mem_accounts
  unconfirmed,          \* the unconfirmed queue, oldest first
  chain,                \* the transactions of each block that was applied
  task,                 \* what runs in `sequence`
  events,               \* history: how many events of each kind so far
  rewound               \* history: what an account has spent in rewound blocks

vars == <<balance, u_balance, unconfirmed, chain, task, events, rewound>>

(***************************************************************************)
(* stage: the loop the task is in; list: the transactions still to come;   *)
(* block: the block being applied; ids: unconfirmedTransactionIds; next:   *)
(* where to go on from a loop; attempt: of the sync, 0 outside of one.     *)
(***************************************************************************)
NoTask == [stage |-> "idle", list |-> <<>>, block |-> <<>>, ids |-> <<>>,
           next |-> "idle", attempt |-> 0]
Syncing(attempt) == [NoTask EXCEPT !.stage = "syncing", !.attempt = attempt]
Resting == IF task.attempt = 0 THEN NoTask ELSE Syncing(task.attempt)

Spend(t) == Amount[t] + Fee[t]
Spent(a, S) == MapThenSumSet(Spend, {t \in S : From[t] = a})
Paid(t) == IF t \in InTransfers THEN Author ELSE To[t]
Received(a, S) == MapThenSumSet(LAMBDA t : Amount[t], {t \in S : Paid(t) = a})

(***************************************************************************)
(* saveBlock does not return the promise of its inserts (modules/blocks/   *)
(* chain.js:90-101): the transactions of a block are rows with their ids   *)
(* as keys, so that of a block that holds one twice nothing is saved, nor  *)
(* of a block after it, whose previous one is not there, and the node goes *)
(* on.  Confirmed is what checkConfirmed finds.                            *)
(***************************************************************************)
Saved(n) == \A k \in 1..n : IsInjective(chain[k])
Confirmed == UNION {ToSet(chain[i]) : i \in {j \in DOMAIN chain : Saved(j)}}
Blocks == UNION {[1..k -> Tx] : k \in 0..MaxTxsPerBlock}
Lists(n) == {s \in UNION {[1..k -> Tx] : k \in 0..n} : IsInjective(s)}

Init ==
  /\ balance = Balance0
  /\ u_balance = Balance0
  /\ unconfirmed = <<>>
  /\ chain = <<>>
  /\ task = NoTask
  /\ events = [kind \in Events |-> 0]
  /\ rewound = [a \in Account |-> 0]

Happen(kinds) ==
  /\ kinds \subseteq Events
  /\ MapThenSumSet(LAMBDA kind : events[kind], Events) + Cardinality(kinds) <= MaxEvents
  /\ events' = [kind \in Events |-> IF kind \in kinds THEN events[kind] + 1 ELSE events[kind]]

Event(kind) == Happen({kind})

OnlyHappened(kinds) == \A kind \in Events \ kinds : events[kind] = 0

-----------------------------------------------------------------------------
\* Transaction.verify: the sender can pay and the transaction is not confirmed.
Verified(t) == t \notin Confirmed /\ Spend(t) <= balance[From[t]]

(* mergeAccountAndGet: what is given is added to what the account has.     *)
Merge(f, a, amount) == [f EXCEPT ![a] = @ + amount]

ApplyUnconfirmed(t) == u_balance' = Merge(u_balance, From[t], -Spend(t))

\* Mutant of UndoUnconfirmed: the fee is forgotten.
UndoAmount(t) == u_balance' = Merge(u_balance, From[t], Amount[t])

UndoUnconfirmed(t) == u_balance' = Merge(u_balance, From[t], Spend(t))

(* Transaction.apply and undo move what the sender spends, the type moves  *)
(* what it pays: to both balances of the recipient, or of the author of    *)
(* the application, who is looked up each time.                            *)
Apply(f, t) == Merge(f, From[t], -Spend(t))
Undo(f, t) == Merge(f, From[t], Spend(t))

TransferApply(f, t) == Merge(f, To[t], Amount[t])
TransferUndo(f, t) == Merge(f, To[t], -Amount[t])

InTransferApply(f, t) == Merge(f, Author, Amount[t])
\* Mutant of InTransferUndo: the author keeps what was paid.
InTransferKept(f, t) == f
InTransferUndo(f, t) == Merge(f, Author, -Amount[t])

Pay(f, t) == IF t \in InTransfers THEN InTransferApply(f, t) ELSE TransferApply(f, t)
TakeBack(f, t) == IF t \in InTransfers THEN InTransferUndo(f, t) ELSE TransferUndo(f, t)

RemoveUnconfirmed(t) == unconfirmed' = RemoveFirst(unconfirmed, t)

-----------------------------------------------------------------------------
(* fillPool: the whole list joins the queue, then each of it is applied.   *)
FillPool(list) ==
  /\ task = NoTask
  /\ list # <<>>
  /\ ToSet(list) \cap ToSet(unconfirmed) = {}
  /\ Len(unconfirmed) + Len(list) <= MaxTxsPerBlock
  /\ unconfirmed' = unconfirmed \o list
  /\ task' = [task EXCEPT !.stage = "apply", !.list = list]
  /\ UNCHANGED <<balance, u_balance, chain, events, rewound>>

(* applyUnconfirmedList, of transactions and of ids: an id is looked up in *)
(* the queue when its turn comes, a transaction is applied without.        *)
Applying(t) == task.stage \in {"apply", "applyIds"} /\ task.list # <<>> /\ t = Head(task.list)
Known(t) == task.stage = "apply" \/ t \in ToSet(unconfirmed)
Affordable(t) == Verified(t) /\ Spend(t) <= u_balance[From[t]]
NextOfList == task' = [task EXCEPT !.list = Tail(@)]

ApplyTransaction(t) ==
  /\ Applying(t) /\ Known(t) /\ Affordable(t)
  /\ NextOfList
  /\ ApplyUnconfirmed(t)
  /\ UNCHANGED <<balance, unconfirmed, chain, events, rewound>>

\* Mutant of ApplyFailed: the transaction stays in the queue.
ApplyFailedStays(t) ==
  /\ Applying(t) /\ Known(t) /\ ~Affordable(t)
  /\ NextOfList
  /\ UNCHANGED <<balance, u_balance, unconfirmed, chain, events, rewound>>

ApplyFailed(t) ==
  /\ Applying(t) /\ Known(t) /\ ~Affordable(t)
  /\ NextOfList
  /\ RemoveUnconfirmed(t)
  /\ UNCHANGED <<balance, u_balance, chain, events, rewound>>

ApplyUnknown(t) ==
  /\ Applying(t) /\ ~Known(t)
  /\ NextOfList
  /\ UNCHANGED <<balance, u_balance, unconfirmed, chain, events, rewound>>

ApplyEnd ==
  /\ task.stage \in {"apply", "applyIds"}
  /\ task.list = <<>>
  /\ task' = Resting
  /\ UNCHANGED <<balance, u_balance, unconfirmed, chain, events, rewound>>

(* undoUnconfirmedList: of the transactions, in the queue or not any more  *)
UndoTransaction(t) ==
  /\ task.stage = "undo"
  /\ task.list # <<>>
  /\ t = Head(task.list)
  /\ UndoUnconfirmed(t)
  /\ task' = [task EXCEPT !.list = Tail(@), !.ids = Append(@, t)]
  /\ UNCHANGED <<balance, unconfirmed, chain, events, rewound>>

UndoEnd ==
  /\ task.stage = "undo"
  /\ task.list = <<>>
  /\ task' = IF task.next = "syncing" THEN Syncing(task.attempt)
             ELSE [task EXCEPT !.stage = "unconfirmed", !.list = task.block]
  /\ UNCHANGED <<balance, u_balance, unconfirmed, chain, events, rewound>>

-----------------------------------------------------------------------------
(* processBlock, of a block received, forged or loaded from a peer         *)
Passes(block) == \A t \in ToSet(block) : Verified(t)

Accept(block) ==
  /\ Passes(block)
  /\ task' = [task EXCEPT !.stage = "undo", !.list = unconfirmed, !.block = block,
                          !.next = "unconfirmed"]
  /\ UNCHANGED <<balance, u_balance, unconfirmed, chain, rewound>>

\* checkTransaction: the first transaction that is confirmed already is undone,
\* unless one before it was refused.
Fork2(block, i) ==
  /\ i \in DOMAIN block
  /\ block[i] \in Confirmed
  /\ \A j \in 1..(i - 1) : Verified(block[j])
  /\ UndoUnconfirmed(block[i])
  /\ RemoveUnconfirmed(block[i])
  /\ UNCHANGED <<balance, chain, task, rewound>>

\* Mutant of VerifyPayload: a transaction may be in the block twice.
VerifyLength(block, given) == Len(block) <= MaxTxsPerBlock

(* The ids are those that the block came with.  checkTransaction computes  *)
(* its own, but later: here they may be given by whoever sent the block,   *)
(* since neither the signatures nor the payload hash cover them.           *)
VerifyPayload(block, given) == Len(block) <= MaxTxsPerBlock /\ IsInjective(given)

Ids(block) == {block, [i \in DOMAIN block |-> i]}

ProcessBlock(block, given) ==
  /\ task \in {NoTask, Syncing(task.attempt)}
  /\ VerifyPayload(block, given)
  /\ Len(chain) < MaxHeight
  /\ Accept(block) \/ \E i \in DOMAIN block : Fork2(block, i)

(***************************************************************************)
(* Blocks of other nodes.  "replay": one may hold a transaction that this  *)
(* node has confirmed; "overspend": its transactions may spend together    *)
(* what each could spend alone, which ForgePasses says they do not;        *)
(* "alias": it may hold one transaction under two ids.                     *)
(***************************************************************************)
Surprises(block, given) ==
  (IF ToSet(block) \cap Confirmed # {} THEN {"replay"} ELSE {}) \cup
  (IF \E a \in Account : Spent(a, ToSet(block)) > balance[a] THEN {"overspend"} ELSE {}) \cup
  (IF \E i, j \in DOMAIN block : block[i] = block[j] /\ given[i] # given[j]
   THEN {"alias"} ELSE {})

ReceiveBlock(block, given) ==
  /\ task = NoTask
  /\ ProcessBlock(block, given)
  /\ Happen(Surprises(block, given))

\* Block.create: by type, then by amount, equal ones in any order.  No payload
\* is too long here.
Before(t, u) ==
  IF t \in InTransfers <=> u \in InTransfers THEN Amount[t] < Amount[u]
                                             ELSE u \in InTransfers

Create(list) ==
  {block \in Lists(Len(list)) :
     /\ ToSet(block) = ToSet(list)
     /\ \A i, j \in DOMAIN block : Before(block[i], block[j]) => i < j}

\* generateBlock: the queue, whatever the verification says of a transaction
GenerateBlock ==
  /\ task = NoTask
  /\ \E block \in Create(unconfirmed) : ProcessBlock(block, block)
  /\ UNCHANGED events

-----------------------------------------------------------------------------
(* applyBlock, after its undoUnconfirmedList *)
Done == SubSeq(task.block, 1, Len(task.block) - Len(task.list))

BlockApplyUnconfirmed(t) ==
  /\ task.stage = "unconfirmed"
  /\ task.list # <<>>
  /\ t = Head(task.list)
  /\ Spend(t) <= u_balance[From[t]]
  /\ ApplyUnconfirmed(t)
  /\ task' = [task EXCEPT !.list = Tail(@), !.ids = RemoveFirst(@, t)]
  /\ UNCHANGED <<balance, unconfirmed, chain, events, rewound>>

\* The rewind takes back every transaction of the block that has the id of one
\* that was applied; its outcome replaces the error, and the block goes on to its
\* confirmed half.
Copies(t) == Cardinality({i \in DOMAIN task.block : task.block[i] = t})
Returned(a) ==
  MapThenSumSet(LAMBDA t : Copies(t) * Spend(t), {t \in ToSet(Done) : From[t] = a})

BlockRewind ==
  /\ task.stage = "unconfirmed"
  /\ task.list # <<>>
  /\ Spend(Head(task.list)) > u_balance[From[Head(task.list)]]
  /\ u_balance' = [a \in Account |-> u_balance[a] + Returned(a)]
  /\ rewound' = [a \in Account |-> rewound[a] + Spent(a, ToSet(task.block))]
  /\ task' = [task EXCEPT !.stage = "confirmed", !.list = task.block]
  /\ UNCHANGED <<balance, unconfirmed, chain, events>>

BlockUnconfirmedEnd ==
  /\ task.stage = "unconfirmed"
  /\ task.list = <<>>
  /\ task' = [task EXCEPT !.stage = "confirmed", !.list = task.block]
  /\ UNCHANGED <<balance, u_balance, unconfirmed, chain, events, rewound>>

BlockApply(t) ==
  /\ task.stage = "confirmed"
  /\ task.list # <<>>
  /\ t = Head(task.list)
  /\ Spend(t) <= balance[From[t]]
  /\ balance' = Pay(Apply(balance, t), t)
  /\ u_balance' = Pay(u_balance, t)
  /\ RemoveUnconfirmed(t)
  /\ NextOfList
  /\ UNCHANGED <<chain, events, rewound>>

\* process.exit
BlockFatal ==
  /\ task.stage = "confirmed"
  /\ task.list # <<>>
  /\ Spend(Head(task.list)) > balance[From[Head(task.list)]]
  /\ task' = [task EXCEPT !.stage = "exited"]
  /\ UNCHANGED <<balance, u_balance, unconfirmed, chain, events, rewound>>

BlockSave ==
  /\ task.stage = "confirmed"
  /\ task.list = <<>>
  /\ chain' = Append(chain, task.block)
  /\ task' = [task EXCEPT !.stage = "applyIds", !.list = task.ids, !.block = <<>>]
  /\ UNCHANGED <<balance, u_balance, unconfirmed, events, rewound>>

-----------------------------------------------------------------------------
(* popLastBlock: its transactions leave both balances and are not queued;  *)
(* the block before it is loaded first, so it has to be saved.             *)
DeleteLastBlock ==
  /\ Event("delete")
  /\ task \in {NoTask, Syncing(task.attempt)}
  /\ chain # <<>>
  /\ Saved(Len(chain) - 1)
  /\ LET back(f, t) == TakeBack(Undo(f, t), t)
         undone == Reverse(Last(chain))
     IN  /\ balance' = FoldLeft(back, balance, undone)
         /\ u_balance' = FoldLeft(back, u_balance, undone)
  /\ chain' = Front(chain)
  /\ UNCHANGED <<unconfirmed, task, rewound>>

-----------------------------------------------------------------------------
(* Loader.sync, retried when peers or their network cannot be had          *)
Sync(attempt) ==
  [NoTask EXCEPT !.stage = "undo", !.list = unconfirmed, !.next = "syncing",
                 !.attempt = attempt]

SyncStart ==
  /\ Event("sync")
  /\ task = NoTask
  /\ task' = Sync(1)
  /\ UNCHANGED <<balance, u_balance, unconfirmed, chain, rewound>>

SyncBlock(block, given) ==
  /\ task.stage = "syncing"
  /\ ProcessBlock(block, given)
  /\ Happen(Surprises(block, given))

SyncFail ==
  /\ task.stage = "syncing"
  /\ task' = IF task.attempt < Retries THEN Sync(task.attempt + 1) ELSE NoTask
  /\ UNCHANGED <<balance, u_balance, unconfirmed, chain, events, rewound>>

\* applyUnconfirmedList takes the newest first.
SyncEnd ==
  /\ task.stage = "syncing"
  /\ task' = [NoTask EXCEPT !.stage = "apply", !.list = Reverse(unconfirmed)]
  /\ UNCHANGED <<balance, u_balance, unconfirmed, chain, events, rewound>>

(* expireTransactions: out of the queue, and nothing else *)
Expire(t) ==
  /\ Event("expire")
  /\ task.stage # "exited"
  /\ t \in ToSet(unconfirmed)
  /\ RemoveUnconfirmed(t)
  /\ UNCHANGED <<balance, u_balance, chain, task, rewound>>

-----------------------------------------------------------------------------
Step(t) ==
  \/ ApplyTransaction(t)
  \/ ApplyFailed(t)
  \/ ApplyUnknown(t)
  \/ UndoTransaction(t)
  \/ BlockApplyUnconfirmed(t)
  \/ BlockApply(t)

Stage ==
  \/ ApplyEnd
  \/ UndoEnd
  \/ BlockRewind
  \/ BlockUnconfirmedEnd
  \/ BlockFatal
  \/ BlockSave

Next ==
  \/ \E list \in Lists(MaxTxsPerBlock) : FillPool(list)
  \/ \E block \in Blocks : \E given \in Ids(block) :
       ReceiveBlock(block, given) \/ SyncBlock(block, given)
  \/ \E t \in Tx : Step(t) \/ Expire(t)
  \/ Stage
  \/ GenerateBlock
  \/ DeleteLastBlock
  \/ SyncStart
  \/ SyncFail
  \/ SyncEnd

Spec == Init /\ [][Next]_vars

-----------------------------------------------------------------------------
TypeOK ==
  /\ balance \in [Account -> Int]
  /\ u_balance \in [Account -> Int]
  /\ unconfirmed \in Lists(MaxTxsPerBlock)
  /\ chain \in Seq(Blocks)
  /\ task.stage \in {"idle", "apply", "applyIds", "undo", "unconfirmed", "confirmed",
                     "syncing", "exited"}
  /\ task.attempt \in 0..Retries
  /\ events \in [Events -> 0..MaxEvents]
  /\ rewound \in [Account -> Nat]

Reserved(a) == Spent(a, ToSet(unconfirmed))

(***************************************************************************)
(* Between two tasks a sender's unconfirmed balance is the confirmed one   *)
(* less what its queued transactions spend, after blocks that hold none,   *)
(* some or others of them, in whatever order the queue is applied again.   *)
(* It is above by what the rewound blocks spent that were confirmed all    *)
(* the same: the rewind gives it back and the confirmed half does not take *)
(* it from u_balance, "the database state as per the previous block"       *)
(* (modules/blocks/chain.js:389) is one that the block is applied to.      *)
(***************************************************************************)
QueueReserved ==
  task = NoTask =>
    \A a \in Account : u_balance[a] = balance[a] - Reserved(a) + rewound[a]

(***************************************************************************)
(* So it is as long as blocks are only received, forged and deleted: the   *)
(* money that a deleted block takes back is taken from both balances, with *)
(* the queue as it is.  Expiry, sync and replayed blocks break it.         *)
(***************************************************************************)
UnconfirmedExact == OnlyHappened({"delete", "overspend"}) => QueueReserved

(***************************************************************************)
(* A block made of the queue passes the node's own checks and can be paid, *)
(* but for what rewound blocks have left in u_balance: generateBlock takes *)
(* the queue without looking at the verification.                          *)
(***************************************************************************)
ForgePasses ==
  OnlyHappened({"overspend"}) /\ task = NoTask =>
    /\ Passes(unconfirmed)
    /\ \A a \in Account : Reserved(a) <= balance[a] + rewound[a]

\* No peer has given a transaction two ids.
TrueIds == OnlyHappened(Events \ {"alias"})

(***************************************************************************)
(* No transaction is confirmed twice, although the queue, a block of a     *)
(* peer and a block deleted before may all hold it, and one block may hold *)
(* it twice.  Under two ids a peer gets one past verifyPayload: such a     *)
(* block is applied, twice, and not saved.                                 *)
(***************************************************************************)
ConfirmedOnce ==
  /\ \A i, j \in DOMAIN chain :
       i # j /\ Saved(i) /\ Saved(j) => ToSet(chain[i]) \cap ToSet(chain[j]) = {}
  /\ TrueIds => Saved(Len(chain))

(***************************************************************************)
(* Between two tasks nothing that is confirmed waits in the queue.         *)
(***************************************************************************)
QueueUnconfirmed == task = NoTask => ToSet(unconfirmed) \cap Confirmed = {}

(***************************************************************************)
(* Outside of applyBlock the confirmed balances are those of the chain.    *)
(***************************************************************************)
Replayed ==
  task.stage \notin {"confirmed", "exited"} =>
    \A a \in Account :
      balance[a] = Balance0[a] + Received(a, Confirmed) - Spent(a, Confirmed)

(***************************************************************************)
(* "Block and transactions are ok" (modules/blocks/chain.js:413): a block  *)
(* that has come to its confirmed half is not fatal to the node.           *)
(***************************************************************************)
BlockIsOk == task.stage # "exited"

(***************************************************************************)
(* So it is, and the node's own blocks pass, as long as peers send blocks  *)
(* that can be paid, the queue loses none of its transactions and no block *)
(* is deleted.                                                             *)
(***************************************************************************)
NeverFatal == ForgePasses /\ (OnlyHappened({}) => BlockIsOk)

(***************************************************************************)
(* The confirmed half of the ledger follows the chain and empties the queue *)
(* of what is confirmed, whatever was undone, replayed or deleted between, *)
(* as long as each block holds a transaction once.                         *)
(***************************************************************************)
LedgerOK == TypeOK /\ QueueUnconfirmed /\ (TrueIds => Replayed)
=============================================================================
