-------------------------- MODULE TransactionPool --------------------------
(***************************************************************************)
(* The transaction pool of logic/transactionPool.js: four queues shared by *)
(*  - the receiver: transactions from peers and from the API, one at a     *)
(*    time because every caller goes through balancesSequence;             *)
(*  - the bundle timer (processBundled);                                   *)
(*  - the expiry timer (expireTransactions);                               *)
(*  - the worker: whatever runs in `sequence`, of which fillPool fills the *)
(*    pool and block processing takes transactions out of it.              *)
(* node.js runs each piece of code up to its next asynchronous call        *)
(* without interruption, so an action is the code between two such calls.  *)
(***************************************************************************)
EXTENDS PoolQueue

CONSTANTS MultiTx,           \* transactions that wait for signatures
          None,              \* no transaction
          MaxTxsPerBlock,    \* constants.maxTxsPerBlock
          MaxTxsPerQueue,    \* config.transactions.maxTxsPerQueue
          ReleaseLimit,      \* config.broadcasts.releaseLimit
          MultisigLimit,     \* multisignaturesLimit of fillPool
          ReindexAfter       \* receipts between two reindexQueues

ASSUME PoolAssumption ==
  /\ IsFiniteSet(Tx)
  /\ MultiTx \subseteq Tx
  /\ None \notin Tx
  /\ MaxTxsPerBlock \in Nat \ {0}
  /\ MaxTxsPerQueue \in Nat \ {0}
  /\ ReleaseLimit \in Nat \ {0}
  /\ MultisigLimit \in Nat
  /\ ReindexAfter \in Nat \ {0}

VARIABLES
  unconfirmed, bundled, queued, multisignature,   \* the queues
  processed,   \* receipts since the last reindexQueues
  ready,       \* multisignature transactions with enough signatures
  receiver,    \* transaction the receiver is verifying, or None
  bundler,     \* [list, cur]: rest of the bundle, transaction being verified
  expirer,     \* [phase, list]: queue being scanned, transactions to test
  worker,      \* [list, cur]: rest of the list to apply, the one under way
  verified     \* history: transactions that passed processVerifyTransaction

queues == <<unconfirmed, bundled, queued, multisignature>>
vars == <<queues, processed, ready, receiver, bundler, expirer, worker, verified>>

Idle == [list |-> <<>>, cur |-> None]
NotScanning == [phase |-> 0, list |-> {}]

Init ==
  /\ unconfirmed = EmptyQueue
  /\ bundled = EmptyQueue
  /\ queued = EmptyQueue
  /\ multisignature = EmptyQueue
  /\ processed = 0
  /\ ready = {}
  /\ receiver = None
  /\ bundler = Idle
  /\ expirer = NotScanning
  /\ worker = Idle
  /\ verified = {}

-----------------------------------------------------------------------------
\* An index of 0 is as falsy as a missing one, and filter(Boolean) drops both.
TransactionInPool(t) ==
  \E q \in {unconfirmed, bundled, queued, multisignature} : q.index[t] > 0

\* queueTransaction refuses the newcomer when the queue is full.
Enqueue(q, t) == IF Count(q) >= MaxTxsPerQueue THEN q ELSE Push(q, t)

\* A transaction that is not bundled is queued by its kind.
QueueTransaction(t) ==
  /\ multisignature' = IF t \in MultiTx THEN Enqueue(multisignature, t) ELSE multisignature
  /\ queued' = IF t \in MultiTx THEN queued ELSE Enqueue(queued, t)

RemoveUnconfirmedTransactions(S) ==
  /\ unconfirmed' = DropAll(unconfirmed, S)
  /\ queued' = DropAll(queued, S)
  /\ multisignature' = DropAll(multisignature, S)
  /\ ready' = ready \ S

-----------------------------------------------------------------------------
(* processUnconfirmedTransaction *)
AfterReindex(q) == IF processed + 1 > ReindexAfter THEN Reindex(q) ELSE q

Receive(t) ==
  /\ receiver = None
  /\ ~TransactionInPool(t)
  /\ processed' = IF processed + 1 > ReindexAfter THEN 1 ELSE processed + 1
  /\ unconfirmed' = AfterReindex(unconfirmed)
  /\ queued' = AfterReindex(queued)
  /\ multisignature' = AfterReindex(multisignature)
  /\ UNCHANGED <<ready, bundler, expirer, worker, verified>>

ReceiveTransaction(t) ==
  /\ Receive(t)
  /\ bundled' = AfterReindex(bundled)
  /\ receiver' = t

ReceiveBundledTransaction(t) ==
  /\ Receive(t)
  /\ bundled' = Enqueue(AfterReindex(bundled), t)
  /\ UNCHANGED receiver

ReceiveVerified ==
  /\ receiver # None
  /\ QueueTransaction(receiver)
  /\ verified' = verified \cup {receiver}
  /\ receiver' = None
  /\ UNCHANGED <<unconfirmed, bundled, processed, ready, bundler, expirer, worker>>

ReceiveRejected ==
  /\ receiver # None
  /\ receiver' = None
  /\ UNCHANGED <<queues, processed, ready, bundler, expirer, worker, verified>>

-----------------------------------------------------------------------------
(* processBundled *)
ProcessBundled ==
  /\ bundler = Idle
  /\ bundler' = [bundler EXCEPT !.list = Limit(Newest(bundled), ReleaseLimit)]
  /\ UNCHANGED <<queues, processed, ready, receiver, expirer, worker, verified>>

BundledNext ==
  /\ bundler.cur = None
  /\ bundler.list # <<>>
  /\ bundled' = Drop(bundled, Head(bundler.list))
  /\ bundler' = [list |-> Tail(bundler.list), cur |-> Head(bundler.list)]
  /\ UNCHANGED <<unconfirmed, queued, multisignature, processed, ready,
                 receiver, expirer, worker, verified>>

BundledVerified ==
  /\ bundler.cur # None
  /\ QueueTransaction(bundler.cur)
  /\ verified' = verified \cup {bundler.cur}
  /\ bundler' = [bundler EXCEPT !.cur = None]
  /\ UNCHANGED <<unconfirmed, bundled, processed, ready, receiver, expirer, worker>>

\* Mutant of BundledRejected: the error of the verification is ignored.
BundledErrorIgnored ==
  /\ bundler.cur # None
  /\ QueueTransaction(bundler.cur)
  /\ bundler' = [bundler EXCEPT !.cur = None]
  /\ UNCHANGED <<unconfirmed, bundled, processed, ready, receiver, expirer, worker, verified>>

\* removeUnconfirmedTransaction gets the transaction instead of its id, which
\* no index knows: nothing is removed.
BundledRejected ==
  /\ bundler.cur # None
  /\ bundler' = [bundler EXCEPT !.cur = None]
  /\ UNCHANGED <<queues, processed, ready, receiver, expirer, worker, verified>>

-----------------------------------------------------------------------------
(***************************************************************************)
(* expireTransactions: three scans, each over the members its queue has    *)
(* when the scan starts.  The order inside a scan does not matter.         *)
ExpireTransactions ==
  /\ expirer.list = {}
  /\ expirer' = CASE expirer.phase = 0 -> [phase |-> 1, list |-> Members(unconfirmed)]
                  [] expirer.phase = 1 -> [phase |-> 2, list |-> Members(queued)]
                  [] expirer.phase = 2 -> [phase |-> 3, list |-> Members(multisignature)]
                  [] OTHER -> NotScanning
  /\ UNCHANGED <<queues, processed, ready, receiver, bundler, worker, verified>>

ExpireTransaction(t) ==
  /\ t \in expirer.list
  /\ expirer' = [expirer EXCEPT !.list = @ \ {t}]
  /\ RemoveUnconfirmedTransactions({t})
  /\ UNCHANGED <<bundled, processed, receiver, bundler, worker, verified>>

NotExpired(t) ==
  /\ t \in expirer.list
  /\ expirer' = [expirer EXCEPT !.list = @ \ {t}]
  /\ UNCHANGED <<queues, processed, ready, receiver, bundler, worker, verified>>

-----------------------------------------------------------------------------
(* fillPool and applyUnconfirmedList *)
ReadyMultisignatures ==
  LET s == Newest(multisignature) IN Keep(s, {i \in DOMAIN s : s[i] \in ready})

Room == MaxTxsPerBlock - Count(unconfirmed)

Multisignatures ==
  Limit(ReadyMultisignatures, IF Room >= MultisigLimit THEN MultisigLimit ELSE 0)

Filling == Multisignatures \o Limit(Newest(queued), Room - Len(Multisignatures))

FillPool ==
  /\ worker = Idle
  /\ Room > 0
  /\ LET list  == Filling
         moved == {list[i] : i \in DOMAIN list}
     IN  /\ multisignature' = DropAll(multisignature, moved \cap MultiTx)
         /\ queued' = DropAll(queued, moved \ MultiTx)
         /\ unconfirmed' = PushAll(unconfirmed, list)
         /\ ready' = ready \ moved
         /\ worker' = [worker EXCEPT !.list = list]
  /\ UNCHANGED <<bundled, processed, receiver, bundler, expirer, verified>>

ApplyNext ==
  /\ worker.cur = None
  /\ worker.list # <<>>
  /\ worker' = [list |-> Tail(worker.list), cur |-> Head(worker.list)]
  /\ UNCHANGED <<queues, processed, ready, receiver, bundler, expirer, verified>>

Applied ==
  /\ worker.cur # None
  /\ worker' = [worker EXCEPT !.cur = None]
  /\ UNCHANGED <<queues, processed, ready, receiver, bundler, expirer, verified>>

\* It fails verification again, or its sender cannot afford it any more.
ApplyFailed ==
  /\ worker.cur # None
  /\ RemoveUnconfirmedTransactions({worker.cur})
  /\ worker' = [worker EXCEPT !.cur = None]
  /\ UNCHANGED <<bundled, processed, receiver, bundler, expirer, verified>>

-----------------------------------------------------------------------------
\* Block processing takes t out: it is in a block (chain.js), was confirmed
\* before (verify.js), or could not be undone (undoUnconfirmedList).
RemoveUnconfirmedTransaction(t) ==
  /\ worker = Idle
  /\ RemoveUnconfirmedTransactions({t})
  /\ UNCHANGED <<bundled, processed, receiver, bundler, expirer, worker, verified>>

\* modules/multisignatures.js: the last signature has come in
SignatureReady(t) ==
  /\ t \in Members(multisignature)
  /\ ready' = ready \cup {t}
  /\ UNCHANGED <<queues, processed, receiver, bundler, expirer, worker, verified>>

Receiver == ReceiveVerified \/ ReceiveRejected
Bundler == ProcessBundled \/ BundledNext \/ BundledVerified \/ BundledRejected
Expirer == ExpireTransactions \/ \E t \in Tx : ExpireTransaction(t) \/ NotExpired(t)
Worker == ApplyNext \/ Applied \/ ApplyFailed

Next ==
  \/ \E t \in Tx : \/ ReceiveTransaction(t)
                   \/ ReceiveBundledTransaction(t)
                   \/ RemoveUnconfirmedTransaction(t)
                   \/ SignatureReady(t)
  \/ Receiver
  \/ Bundler
  \/ Expirer
  \/ FillPool
  \/ Worker

Spec == Init /\ [][Next]_vars

-----------------------------------------------------------------------------
TypeOK ==
  /\ \A q \in {unconfirmed, bundled, queued, multisignature} : QueueOK(q)
  /\ processed \in 0..ReindexAfter
  /\ ready \subseteq Members(multisignature)
  /\ receiver \in Tx \cup {None}
  /\ bundler \in [list : Seq(Tx), cur : Tx \cup {None}]
  /\ expirer \in [phase : 0..3, list : SUBSET Tx]
  /\ worker \in [list : Seq(Tx), cur : Tx \cup {None}]
  /\ verified \subseteq Tx

(***************************************************************************)
(* A block takes the whole unconfirmed queue, so fillPool may never put    *)
(* more into it than a block can hold; the other queues respect their      *)
(* limit although it is checked when a verification ends.                  *)
(***************************************************************************)
WithinLimits ==
  /\ Count(unconfirmed) <= MaxTxsPerBlock
  /\ \A q \in {bundled, queued, multisignature} : Count(q) <= MaxTxsPerQueue

(***************************************************************************)
(* The index and the array of every queue agree, whatever the order of the *)
(* receipts, timers, block removals and compactions that share them: no    *)
(* lookup returns another transaction, none is lost or listed twice; and   *)
(* the limits are kept.                                                    *)
(***************************************************************************)
QueuesOK == TypeOK /\ WithinLimits

(***************************************************************************)
(* A transaction that the node may put into a block or hand to other nodes *)
(* has passed processVerifyTransaction; a bundled one has not and waits.   *)
(***************************************************************************)
OnlyVerified ==
  Members(unconfirmed) \cup Members(queued) \cup Members(multisignature) \subseteq verified

(***************************************************************************)
(* Transactions keep the order in which they entered a queue, also over a  *)
(* compaction: undoUnconfirmedList, the next block and getTransactionList  *)
(* read them in that order.                                                *)
(***************************************************************************)
KeepsOrder(q, r) ==
  \A s, t \in Members(q) \cap Members(r) :
    q.index[s] < q.index[t] => r.index[s] < r.index[t]

OrderKept ==
  [][/\ KeepsOrder(unconfirmed, unconfirmed')
     /\ KeepsOrder(bundled, bundled')
     /\ KeepsOrder(queued, queued')
     /\ KeepsOrder(multisignature, multisignature')]_vars

=============================================================================
