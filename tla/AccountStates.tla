--------------------------- MODULE AccountStates ---------------------------
(***************************************************************************)
(* What transactions register: a second signature, a delegate's name, the  *)
(* keys of a multisignature account, a dapp's name, and the transaction of *)
(* a dapp that an outTransfer pays for; and what an inTransfer pays into a *)
(* dapp.  A type writes the unconfirmed fields of the sender or remembers  *)
(* the transaction in a table of its own in memory, so that the queue and  *)
(* a block hold no second registration of the same; applied, it writes the *)
(* confirmed fields.                                                       *)
(*                                                                         *)
(* Balances, which all types move as well, are module UnconfirmedLedger,   *)
(* votes module Rounds.  What is here changes only inside of tasks of      *)
(* `sequence`: a step of this module is a task, the loops over its         *)
(* transactions are folds.  Every transaction has the other signatures     *)
(* its sender's account asks for.                                          *)
(***************************************************************************)
EXTENDS Integers, Sequences, FiniteSets, FiniteSetsExt, SequencesExt

CONSTANTS Account, Key, None,
          Tx,              \* [kind, sender, key, double : signed twice]
          MaxTxsPerBlock,  \* bound: transactions of a block or of the queue
          MaxHeight,       \* bound: blocks of the chain
          Events           \* kinds of events that may happen

Kinds == {"signature", "delegate", "multisignature", "dapp", "inTransfer", "outTransfer"}

ASSUME StatesAssumption ==
  /\ None \notin Key
  /\ \A t \in Tx : t.kind \in Kinds /\ t.sender \in Account /\ t.key \in Key /\ t.double \in BOOLEAN
  /\ MaxTxsPerBlock \in Nat \ {0}
  /\ MaxHeight \in Nat
  /\ Events \subseteq {"delete", "restart", "replay", "invalid"}

VARIABLES
  states,        \* [account : columns of mem_accounts, pending : tables in memory]
  unconfirmed,   \* the unconfirmed queue, oldest first
  blocks,        \* the transactions of each block
  happened       \* history: events so far, restarts aside

statesVars == <<states, unconfirmed, blocks, happened>>

NewAccount == [second |-> FALSE, uSecond |-> FALSE, secondKey |-> None,
               delegate |-> FALSE, uDelegate |-> FALSE, name |-> None, uName |-> None,
               keys |-> {}, uKeys |-> {}]

NewStates == [account |-> [a \in Account |-> NewAccount], pending |-> {}]

StatesInit == states = NewStates /\ unconfirmed = <<>> /\ blocks = <<>> /\ happened = {}

Happens(events) == events \subseteq Events /\ happened' = happened \cup events
Without(events) == happened \cap events = {}

InBlocks(bs) == UNION {ToSet(bs[i]) : i \in DOMAIN bs}
TxLists(n) == {s \in UNION {[1..k -> Tx] : k \in 0..n} : IsInjective(s)}

\* The trigger protect_mem_accounts: a name or key, once set, is not replaced.
Protected(old, new) == IF old # None /\ new # None THEN old ELSE new

\* unconfirmedSignatures, unconfirmedNames and unconfirmedLinks,
\* unconfirmedOutTansfers: what a type remembers of a transaction.
Remembered(t) ==
  IF t.kind \in {"signature", "delegate", "inTransfer"} THEN {}
  ELSE {<<t.kind, IF t.kind = "multisignature" THEN t.sender ELSE t.key>>}

-----------------------------------------------------------------------------
(* applyUnconfirmed, undoUnconfirmed, apply and undo of the types that     *)
(* write columns of the sender                                             *)

SignatureApplyUnconfirmed(r, t) == [r EXCEPT !.uSecond = TRUE]

SignatureUndoUnconfirmed(r, t) == [r EXCEPT !.uSecond = FALSE]

SignatureApply(r, t) ==
  [r EXCEPT !.second = TRUE, !.uSecond = FALSE, !.secondKey = Protected(@, t.key)]

\* Mutant of SignatureUndo: the second key of the account stays.
SignatureUndoKeepsKey(r, t) == [r EXCEPT !.second = FALSE, !.uSecond = TRUE]

SignatureUndo(r, t) ==
  [r EXCEPT !.second = FALSE, !.uSecond = TRUE, !.secondKey = None]

DelegateApplyUnconfirmed(r, t) ==
  [r EXCEPT !.uDelegate = TRUE, !.delegate = FALSE, !.uName = Protected(@, t.key),
            !.name = None]

DelegateUndoUnconfirmed(r, t) ==
  [r EXCEPT !.uDelegate = FALSE, !.delegate = FALSE, !.uName = None, !.name = None]

DelegateApply(r, t) ==
  [r EXCEPT !.delegate = TRUE, !.uDelegate = FALSE, !.name = Protected(@, t.key),
            !.uName = None]

DelegateUndo(r, t) ==
  [r EXCEPT !.delegate = FALSE, !.uDelegate = TRUE, !.name = None,
            !.uName = Protected(@, t.key)]

MultisignatureApplyUnconfirmed(r, t) == [r EXCEPT !.uKeys = @ \cup {t.key}]

MultisignatureUndoUnconfirmed(r, t) == [r EXCEPT !.uKeys = @ \ {t.key}]

MultisignatureApply(r, t) == [r EXCEPT !.keys = @ \cup {t.key}]

MultisignatureUndo(r, t) == [r EXCEPT !.keys = @ \ {t.key}]

-----------------------------------------------------------------------------
(* A transaction calls the operation of its type.                          *)

FieldsApplyUnconfirmed(r, t) ==
  CASE t.kind = "signature" -> SignatureApplyUnconfirmed(r, t)
    [] t.kind = "delegate" -> DelegateApplyUnconfirmed(r, t)
    [] t.kind = "multisignature" -> MultisignatureApplyUnconfirmed(r, t)
    [] OTHER -> r

FieldsUndoUnconfirmed(r, t) ==
  CASE t.kind = "signature" -> SignatureUndoUnconfirmed(r, t)
    [] t.kind = "delegate" -> DelegateUndoUnconfirmed(r, t)
    [] t.kind = "multisignature" -> MultisignatureUndoUnconfirmed(r, t)
    [] OTHER -> r

FieldsApply(r, t) ==
  CASE t.kind = "signature" -> SignatureApply(r, t)
    [] t.kind = "delegate" -> DelegateApply(r, t)
    [] t.kind = "multisignature" -> MultisignatureApply(r, t)
    [] OTHER -> r

FieldsUndo(r, t) ==
  CASE t.kind = "signature" -> SignatureUndo(r, t)
    [] t.kind = "delegate" -> DelegateUndo(r, t)
    [] t.kind = "multisignature" -> MultisignatureUndo(r, t)
    [] OTHER -> r

ApplyUnconfirmed(s, t) ==
  [account |-> [s.account EXCEPT ![t.sender] = FieldsApplyUnconfirmed(@, t)],
   pending |-> s.pending \cup Remembered(t)]

UndoUnconfirmed(s, t) ==
  [account |-> [s.account EXCEPT ![t.sender] = FieldsUndoUnconfirmed(@, t)],
   pending |-> s.pending \ Remembered(t)]

\* Mutant of Apply: a multisignature or an outTransfer is not forgotten.
ApplyRemembers(s, t) ==
  [s EXCEPT !.account[t.sender] = FieldsApply(@, t)]

\* A dapp stays in the tables of its type until it is undone.
Apply(s, t) ==
  [account |-> [s.account EXCEPT ![t.sender] = FieldsApply(@, t)],
   pending |-> IF t.kind = "dapp" THEN s.pending ELSE s.pending \ Remembered(t)]

Undo(s, t) ==
  [account |-> [s.account EXCEPT ![t.sender] = FieldsUndo(@, t)],
   pending |-> IF t.kind = "dapp" THEN s.pending ELSE s.pending \cup Remembered(t)]

-----------------------------------------------------------------------------
(* process and verify look at the confirmed fields and at the transactions *)
(* `saved` in the blocks, applyUnconfirmed at the unconfirmed fields.      *)

Known(saved, kind, key) == \E t \in saved : t.kind = kind /\ t.key = key

OutTransferProcessed(s, saved, t) ==
  Remembered(t) \cap s.pending = {} /\ ~Known(saved, "outTransfer", t.key)

Processed(s, saved, t) == t.kind = "outTransfer" => OutTransferProcessed(s, saved, t)

DelegateVerified(s, t) ==
  ~s.account[t.sender].delegate /\ \A a \in Account : s.account[a].name # t.key

MultisignatureVerified(s, t) == s.account[t.sender].keys = {}

DAppVerified(saved, t) == ~Known(saved, "dapp", t.key)

\* The application that it pays is registered.
InTransferVerified(saved, t) == Known(saved, "dapp", t.key)

Verified(s, saved, t) ==
  /\ t \notin saved
  /\ t.double = s.account[t.sender].second
  /\ t.kind = "delegate" => DelegateVerified(s, t)
  /\ t.kind = "multisignature" => MultisignatureVerified(s, t)
  /\ t.kind = "dapp" => DAppVerified(saved, t)
  /\ t.kind = "inTransfer" => InTransferVerified(saved, t)

\* Mutant of Applicable: a second signature that is pending is not seen.
ApplicableConfirmed(s, t) ==
  /\ t.kind = "signature" => ~s.account[t.sender].second
  /\ t.kind \in {"multisignature", "dapp"} => Remembered(t) \cap s.pending = {}

Applicable(s, t) ==
  /\ t.kind = "signature" => ~s.account[t.sender].second /\ ~s.account[t.sender].uSecond
  /\ t.kind \in {"multisignature", "dapp"} => Remembered(t) \cap s.pending = {}

\* What the loops over transactions call for each
Call(do, s, t) ==
  CASE do = "applyUnconfirmed" -> ApplyUnconfirmed(s, t)
    [] do = "undoUnconfirmed" -> UndoUnconfirmed(s, t)
    [] do = "apply" -> Apply(s, t)
    [] do = "undo" -> UndoUnconfirmed(Undo(s, t), t)

Each(do, s, list) == FoldLeft(LAMBDA r, t : Call(do, r, t), s, list)

\* applyUnconfirmedList: what cannot be applied leaves the queue.
ApplyNext(saved, acc, t) ==
  IF /\ Processed(acc.states, saved, t)
     /\ Verified(acc.states, saved, t)
     /\ Applicable(acc.states, t)
  THEN [states |-> ApplyUnconfirmed(acc.states, t), queue |-> Append(acc.queue, t)]
  ELSE acc

ApplyList(s, saved, list) ==
  FoldLeft(LAMBDA acc, t : ApplyNext(saved, acc, t), [states |-> s, queue |-> <<>>], list)

\* The transactions of a list that are not in a block
Skip(block, list, t) == IF t \in ToSet(block) THEN list ELSE Append(list, t)
Rest(list, block) == FoldLeft(LAMBDA r, t : Skip(block, r, t), <<>>, list)

-----------------------------------------------------------------------------
\* fillPool: a transaction of the other queues joins the unconfirmed one.
FillPool(t) ==
  LET applied == ApplyList(states, InBlocks(blocks), <<t>>)
  IN  /\ t \notin ToSet(unconfirmed)
      /\ Len(unconfirmed) < MaxTxsPerBlock
      /\ states' = applied.states
      /\ unconfirmed' = unconfirmed \o applied.queue
      /\ UNCHANGED <<blocks, happened>>

\* A block another node with this chain can forge: what its queue can be.
Forgeable(block) ==
  ApplyList(Each("undoUnconfirmed", states, unconfirmed), InBlocks(blocks), block).queue = block

\* checkTransaction: each transaction verifies by itself, before any is applied.
Passes(block) ==
  \A i \in DOMAIN block : Verified(states, InBlocks(blocks), block[i])

\* The transactions of a block up to the first that cannot be applied.
Fitting(s, block) ==
  LET fits(n) == \A i \in 1..n :
        Applicable(Each("applyUnconfirmed", s, SubSeq(block, 1, i - 1)), block[i])
  IN  SubSeq(block, 1, Max({n \in 0..Len(block) : fits(n)}))

(***************************************************************************)
(* processBlock and applyBlock: the queue is undone, the block applied to  *)
(* the unconfirmed fields and then to the confirmed ones, and the rest of  *)
(* the queue applied again.  If a transaction cannot be applied, those     *)
(* before it are undone; the outcome of that replaces the error, and the   *)
(* block goes on to its confirmed half.                                    *)
(***************************************************************************)
ApplyBlock(block) ==
  LET undone == Each("undoUnconfirmed", states, unconfirmed)
      fitting == Fitting(undone, block)
      applied == Each("applyUnconfirmed", undone, fitting)
      rewound == IF fitting = block THEN applied ELSE Each("undoUnconfirmed", applied, fitting)
      confirmed == Each("apply", rewound, block)
      again == ApplyList(confirmed, InBlocks(Append(blocks, block)), Rest(unconfirmed, block))
  IN  /\ Len(blocks) < MaxHeight
      /\ Passes(block)
      /\ Happens(IF Forgeable(block) THEN {} ELSE {"invalid"})
      /\ states' = again.states
      /\ unconfirmed' = again.queue
      /\ blocks' = Append(blocks, block)

\* popLastBlock undoes its transactions, the last one first, in both halves.
DeleteLastBlock ==
  /\ Happens({"delete"})
  /\ blocks # <<>>
  /\ states' = Each("undo", states, Reverse(Last(blocks)))
  /\ blocks' = Front(blocks)
  /\ UNCHANGED unconfirmed

\* The pool is lost; runtime.sql and updateMemAccounts make the unconfirmed
\* columns equal to the confirmed ones.
Restarts ==
  /\ "restart" \in Events
  /\ states' = [account |-> [a \in Account |-> LET r == states.account[a] IN
                  [r EXCEPT !.uSecond = r.second, !.uDelegate = r.delegate,
                            !.uName = r.name, !.uKeys = r.keys]],
                pending |-> {}]
  /\ unconfirmed' = <<>>
  /\ UNCHANGED <<blocks, happened>>

\* A block with a confirmed transaction (fork 2): it is refused, and the
\* transaction undone.
RejectReplay(t) ==
  /\ Happens({"replay"})
  /\ t \in InBlocks(blocks)
  /\ states' = UndoUnconfirmed(states, t)
  /\ UNCHANGED <<unconfirmed, blocks>>

StatesNext ==
  \/ \E t \in Tx : FillPool(t)
  \/ \E block \in TxLists(MaxTxsPerBlock) \ {<<>>} : ApplyBlock(block)
  \/ DeleteLastBlock
  \/ Restarts
  \/ \E t \in Tx : RejectReplay(t)

StatesSpec == StatesInit /\ [][StatesNext]_statesVars

-----------------------------------------------------------------------------
\* Types: the columns and tables, and that no transaction is twice in the
\* queue or in both the queue and the chain.
StatesTypeOK ==
  /\ states.account \in [Account -> [second : BOOLEAN, uSecond : BOOLEAN,
       secondKey : Key \cup {None}, delegate : BOOLEAN, uDelegate : BOOLEAN,
       name : Key \cup {None}, uName : Key \cup {None}, keys : SUBSET Key, uKeys : SUBSET Key]]
  /\ states.pending \subseteq UNION {Remembered(t) : t \in Tx}
  /\ unconfirmed \in TxLists(MaxTxsPerBlock)
  /\ \A i \in DOMAIN blocks : blocks[i] \in TxLists(MaxTxsPerBlock) \ {<<>>}
  /\ Len(blocks) <= MaxHeight
  /\ ToSet(unconfirmed) \cap InBlocks(blocks) = {}

\* The chain registers a second signature or the keys of an account once, a
\* dapp's name once, and pays for a dapp's transaction once, although verify
\* and applyUnconfirmed each look at one half of the state only.  It does as
\* long as every block is one that an honest node can forge.
RegisteredOnce ==
  Without({"invalid"}) =>
    \A t, u \in InBlocks(blocks) :
      t # u /\ t.kind = u.kind =>
        CASE t.kind \in {"signature", "multisignature"} -> t.sender # u.sender
          [] t.kind \in {"dapp", "outTransfer"} -> t.key # u.key
          [] OTHER -> TRUE

\* The states that the blocks, applied one after another, make of new accounts
Replay(bs) == FoldLeft(LAMBDA s, block : Each("apply", s, block), NewStates, bs)

Confirmed(r) == <<r.second, r.secondKey, r.delegate, r.name, r.keys>>

\* The confirmed columns are what the blocks of the chain make of new accounts:
\* nothing the queue, a deleted block or a restart does remains in them.  A
\* replayed block does, and a deleted one that no honest node can forge: undoing
\* a second signature takes the account the one that it had already.
ConfirmedIsChain ==
  Without({"replay"}) /\ (Without({"invalid"}) \/ Without({"delete"})) =>
    \A a \in Account :
      Confirmed(states.account[a]) = Confirmed(Replay(blocks).account[a])

\* The unconfirmed columns and the tables in memory hold what the queue asks
\* for and nothing that is neither in the queue nor confirmed: no pending
\* registration is overlooked, and none is refused for a forgotten one.
PendingExact ==
  LET queued(kind) == {t \in ToSet(unconfirmed) : t.kind = kind}
      by(a, kind) == {t \in queued(kind) : t.sender = a}
      remembered(kinds) == UNION {Remembered(t) : t \in UNION {queued(k) : k \in kinds}}
      dapps == UNION {Remembered(t) : t \in {u \in InBlocks(blocks) : u.kind = "dapp"}}
  IN  Without({"invalid", "replay"}) =>
      /\ \A a \in Account : LET r == states.account[a] IN
           /\ by(a, "signature") # {} => r.uSecond
           /\ r.uSecond => by(a, "signature") # {} \/ r.second
           /\ by(a, "delegate") # {} => r.uDelegate /\ ~r.delegate
           /\ r.uDelegate => by(a, "delegate") # {} \/ r.delegate
           /\ r.uKeys = r.keys \cup {t.key : t \in by(a, "multisignature")}
      /\ remembered(Kinds) \subseteq states.pending
      /\ states.pending \subseteq remembered(Kinds) \cup dapps

\* Unless a block is deleted, each transaction of the queue verifies at any
\* time: what a new block makes wrong leaves the queue with that block, and
\* the node does not forge it.
QueueVerifies ==
  Without({"delete"}) =>
    \A i \in DOMAIN unconfirmed : Verified(states, InBlocks(blocks), unconfirmed[i])

\* What is paid into an application was paid after a block that registers it,
\* and that block is in the chain: the two go to the queue, into blocks and out
\* of deleted ones independently of each other.
PaysRegistered ==
  \A i \in DOMAIN blocks : \A t \in ToSet(blocks[i]) :
    t.kind = "inTransfer" =>
      \E j \in 1..i - 1 : Known(ToSet(blocks[j]), "dapp", t.key)

\* What the blocks of the chain register and pay to goes together.
RegistrationsOK == RegisteredOnce /\ PaysRegistered

\* The confirmed columns, and their types, follow the chain.
AccountsOK == StatesTypeOK /\ ConfirmedIsChain

\* The unconfirmed columns follow the queue, and the queue is fit for a block.
PendingOK == PendingExact /\ QueueVerifies
=============================================================================
