----------------------------- MODULE Signatures -----------------------------
(***************************************************************************)
(* The transactions of one account between the API, the peers, the pool    *)
(* and the blocks, and the signatures that the members of its group add to *)
(* them while they wait (modules/multisignatures.js).                      *)
(*                                                                         *)
(* The account may register its group (reg) and a second passphrase (sec), *)
(* and pays (pay): a payment made without the second passphrase is refused *)
(* when the account has one, and would be another transaction with it,     *)
(* whereas the signatures of the members are not part of the id.           *)
(*                                                                         *)
(* Calls of the API, transactions of peers and signatures that have passed *)
(* their check wait in `balancesSequence'; the checks of signatures, the   *)
(* bundle timer and the blocks do not.  Every step may find an account     *)
(* that a block has changed, and a pool that others have changed, since    *)
(* the step before.  The pool is not full, balances suffice, and fees and  *)
(* formats are right (modules TransactionPool and UnconfirmedLedger have   *)
(* the first two).                                                         *)
(***************************************************************************)
EXTENDS Integers, Sequences, FiniteSets, SequencesExt

CONSTANTS Members,     \* keys of the group that may be registered
          MinSigs,     \* asset.multisignature.min
          PeerCopies,  \* transactions of peers: signatures, array, `ready'
          BlockCopies, \* transactions of their blocks
          MaxTasks,    \* bound: calls, transactions and signatures of peers
          MaxEvents,   \* bound: blocks made and deleted, transactions expired
          None

Tx == {"reg", "sec", "pay"}

ASSUME SignaturesAssumption ==
  /\ IsFiniteSet(Members) /\ MinSigs \in 2 .. Cardinality(Members)
  /\ PeerCopies \cup BlockCopies \subseteq [sigs : Seq(Members), array : BOOLEAN, ready : BOOLEAN]
  /\ \A copy \in PeerCopies \cup BlockCopies : copy.sigs # <<>> => copy.array
  /\ {MaxTasks, MaxEvents} \subseteq Nat
  /\ None \notin Members \cup Tx
  /\ None \notin [sigs : Seq(Members), array : BOOLEAN, ready : BOOLEAN]

VARIABLES
  chain,          \* the transactions of each block
  bundled, queued, multisignature, unconfirmed,   \* the queues: copies, or None
  applied,        \* how often applyUnconfirmed is done and not undone
  line,           \* balancesSequence: its tasks, the first may be under way
  receiver,       \* the verification that the first task waits for, or None
  storing,        \* the first task waits for the account of its signature
  bundler,        \* what processBundled verifies, or None
  checking,       \* signatures for which processSignature reads the account
  worker,         \* what applyUnconfirmedList has still to apply
  forging,        \* the transactions of the block being made, or None
  bounds,         \* how much is left of the bounds
  offered,        \* history: transactions that exist
  agreed,         \* history: what was confirmed with which signatures
  mishaps         \* history: what has happened to which transactions

turn == <<line, receiver, storing>>
pool == <<bundled, queued, multisignature, unconfirmed>>
vars == <<chain, pool, applied, turn, bundler, checking, worker, forging, bounds,
          offered, agreed, mishaps>>

-----------------------------------------------------------------------------
(* The account as the blocks have left it.                                 *)
Confirmed == UNION ToSet(chain)
Account == [group |-> "reg" \in Confirmed, second |-> "sec" \in Confirmed]

(* A copy: its signatures, whether it has an array for them, its `ready'.  *)
Plain == [sigs |-> <<>>, array |-> FALSE, ready |-> FALSE]

(* `ready' of a registration, of the other types, and of a transaction.    *)
RegistrationReady(copy, sender) ==
  /\ copy.array
  /\ IF sender.group THEN Len(copy.sigs) >= MinSigs
                     ELSE Len(copy.sigs) = Cardinality(Members)

TransferReady(copy, sender) == sender.group => copy.array /\ Len(copy.sigs) >= MinSigs

Ready(t, copy, sender) ==
  IF t = "reg" THEN RegistrationReady(copy, sender) ELSE TransferReady(copy, sender)

(* The keys whose signatures count: the group of the account or, when it   *)
(* has none, that which the transaction is to register.                    *)
KeysOf(t, sender) == IF sender.group \/ t = "reg" THEN Members ELSE {}

\* Mutant of SignaturesVerify: the signatures need not be different.
SignaturesVerifyTwice(t, copy, sender) == ToSet(copy.sigs) \subseteq KeysOf(t, sender)

SignaturesVerify(t, copy, sender) ==
  IsInjective(copy.sigs) /\ ToSet(copy.sigs) \subseteq KeysOf(t, sender)

(* An account has one group; the transaction that registers it is signed   *)
(* by all of its members when it is ready.                                 *)
MultisignatureVerifies(t, copy, sender) ==
  ~sender.group /\ (Ready(t, copy, sender) => ToSet(copy.sigs) = Members)

(* Transaction.verify, for the account as it was read; the database is     *)
(* asked for the transaction then.                                         *)
Verifies(t, copy, sender) ==
  /\ ~sender.second
  /\ SignaturesVerify(t, copy, sender)
  /\ t = "reg" => MultisignatureVerifies(t, copy, sender)
  /\ t \notin Confirmed

Put(queue, t, copy) == IF queue[t] = None THEN [queue EXCEPT ![t] = copy] ELSE queue
Drop(queue, S) == [t \in Tx |-> IF t \in S THEN None ELSE queue[t]]
In(queue) == {t \in Tx : queue[t] # None}

(* queueTransaction, of what is not bundled                                *)
QueueTransaction(t, copy) ==
  /\ multisignature' = IF t = "reg" \/ copy.array THEN Put(multisignature, t, copy)
                                                  ELSE multisignature
  /\ queued' = IF t = "reg" \/ copy.array THEN queued ELSE Put(queued, t, copy)

(* processVerifyTransaction begins: the account is read, and a transaction *)
(* of a group gets an array.                                               *)
Begins(t, copy) ==
  [t |-> t, copy |-> [copy EXCEPT !.array = @ \/ Account.group], sender |-> Account]

Uses(bound) == bounds[bound] > 0 /\ bounds' = [bounds EXCEPT ![bound] = @ - 1]
Happens(kind, S) == mishaps' = [mishaps EXCEPT ![kind] = @ \cup S]
Kinds == {"again", "raced", "elsewhere", "believed", "changed", "deleted", "expired"}
Excepts(kinds, t) == \E kind \in kinds : t \in mishaps[kind]

(* What has begun to wait for the account that a block changes             *)
UnderWay ==
  In(queued) \cup In(multisignature) \cup In(unconfirmed)
  \cup {v.t : v \in {receiver, bundler} \ {None}}
  \cup {line[i].t : i \in {j \in DOMAIN line : line[j].do = "store"}}

Init ==
  /\ chain = <<>>
  /\ bundled = [t \in Tx |-> None] /\ queued = bundled
  /\ multisignature = bundled /\ unconfirmed = bundled
  /\ applied = [t \in Tx |-> 0]
  /\ line = <<>> /\ receiver = None /\ storing = FALSE /\ bundler = None /\ checking = <<>>
  /\ worker = <<>> /\ forging = None
  /\ bounds = [tasks |-> MaxTasks, events |-> MaxEvents]
  /\ offered = {} /\ agreed = {}
  /\ mishaps = [kind \in Kinds |-> {}]

-----------------------------------------------------------------------------
(* What is added to balancesSequence                                       *)
Task(do, t, of) == [do |-> do, t |-> t, of |-> of]
Adds(task) == line' = Append(line, task)

(* A call of the API: a transaction that did not exist before is to be     *)
(* made.                                                                   *)
Submit(t) ==
  /\ Uses("tasks")
  /\ Adds(Task("create", t, None))
  /\ UNCHANGED <<chain, pool, applied, receiver, storing, bundler, checking, worker,
                 forging, offered, agreed, mishaps>>

AddTransactions == Submit("pay")
AddSignature == Submit("sec")
AddMultisignature == Submit("reg")

(* A transaction of a peer, with what signatures and what `ready' it has:  *)
(* by itself, or to be bundled; or the peer was asked for its transactions. *)
Receive(do, t, copy) ==
  /\ Uses("tasks")
  /\ Adds(Task(do, t, copy))
  /\ offered' = offered \cup {t}
  /\ mishaps' = [mishaps EXCEPT !["elsewhere"] = @ \cup (IF copy.array THEN {t} ELSE {}),
                                !["believed"] = @ \cup (IF copy.ready THEN {t} ELSE {})]
  /\ UNCHANGED <<chain, pool, applied, receiver, storing, bundler, checking, worker,
                 forging, agreed>>

PostTransaction(t, copy) == Receive("receive", t, copy)
PostTransactions(t, copy) == Receive("bundle", t, copy)
LoadTransactions(t, copy) == Receive("bundle", t, copy)

(* A member signs by the API of this node (without a transaction that      *)
(* waits the call is refused).                                             *)
SignCalled(t, k) ==
  /\ multisignature[t] # None
  /\ Uses("tasks")
  /\ Adds(Task("sign", t, k))
  /\ UNCHANGED <<chain, pool, applied, receiver, storing, bundler, checking, worker,
                 forging, offered, agreed, mishaps>>

(* The same signature is about to be stored, or made.                      *)
Storing(t, k) ==
  \E i \in DOMAIN line : line[i].do \in {"store", "sign"} /\ line[i].t = t /\ line[i].of = k

(* A signature has passed its check: it is stored when its turn comes.     *)
Stores(t, k) ==
  /\ Adds(Task("store", t, k))
  /\ IF Storing(t, k) THEN Happens("raced", {t}) ELSE UNCHANGED mishaps

(* processSignature: the signature of a member is new.  For another type   *)
(* than a multisignature registration the account is read first.           *)
CheckSignature(t, k) ==
  /\ multisignature[t] # None
  /\ Uses("tasks")
  /\ IF t = "reg"
     THEN /\ k \notin ToSet(multisignature[t].sigs)
          /\ Stores(t, k)
          /\ UNCHANGED checking
     ELSE checking' = Append(checking, <<t, k>>) /\ UNCHANGED <<line, mishaps>>
  /\ UNCHANGED <<chain, pool, applied, receiver, storing, bundler, worker, forging,
                 offered, agreed>>

(* A signature comes from a peer that was asked for its signatures: blocks *)
(* wait meanwhile.                                                         *)
Resting == worker = <<>> /\ forging = None
LoadSignature(t, k) == Resting /\ CheckSignature(t, k)
PostSignature(t, k) == CheckSignature(t, k)

Held(t) == IF multisignature[t] # None THEN multisignature[t] ELSE unconfirmed[t]

\* Mutant of SignatureChecked: whether it is there is not asked again.
SignatureCheckedTwice(i) ==
  LET t == checking[i][1]
      k == checking[i][2]
  IN  /\ checking' = RemoveAt(checking, i)
      /\ IF Account.group THEN Stores(t, k) ELSE UNCHANGED <<line, mishaps>>
      /\ UNCHANGED <<chain, pool, applied, receiver, storing, bundler, worker, forging,
                     bounds, offered, agreed>>

(* The account is there: is the key one of its members', and the signature *)
(* not among those that the transaction has by now?                        *)
SignatureChecked(i) ==
  LET t == checking[i][1]
      k == checking[i][2]
      new == Held(t) # None => k \notin ToSet(Held(t).sigs)
  IN  /\ checking' = RemoveAt(checking, i)
      /\ IF Account.group /\ new THEN Stores(t, k) ELSE UNCHANGED <<line, mishaps>>
      /\ UNCHANGED <<chain, pool, applied, receiver, storing, bundler, worker, forging,
                     bounds, offered, agreed>>

-----------------------------------------------------------------------------
(* The tasks of balancesSequence                                           *)
Starts(do) == line # <<>> /\ Head(line).do = do /\ receiver = None /\ ~storing
Ends == line' = Tail(line) /\ receiver' = None /\ storing' = FALSE

(* An account that has a second passphrase gets no other one, and does     *)
(* nothing without it (what is signed with it is left out).                *)
Create(t) ==
  /\ Starts("create") /\ Head(line).t = t
  /\ IF t \notin offered /\ ~Account.second
     THEN /\ receiver' = Begins(t, Plain) /\ offered' = offered \cup {t}
          /\ UNCHANGED <<line, storing>>
     ELSE Ends /\ UNCHANGED offered
  /\ UNCHANGED <<chain, pool, applied, bundler, checking, worker, forging, bounds, agreed,
                 mishaps>>

CreateTransaction == Create("pay")
CreateSignature == Create("sec")
CreateMultisignature == Create("reg")

(* transactionInPool knows what is in a queue, but not what lies at its    *)
(* first place, nor what processBundled is verifying.                      *)
Pooled == UNION {In(q) : q \in {bundled, queued, multisignature, unconfirmed}}
Verifying(t) == bundler # None /\ bundler.t = t
Again(t) == IF t \in Pooled \/ Verifying(t) THEN Happens("again", {t}) ELSE UNCHANGED mishaps

ReceiveKnown ==
  /\ Starts("receive") \/ Starts("bundle")
  /\ Head(line).t \in Pooled
  /\ Ends
  /\ UNCHANGED <<chain, pool, applied, bundler, checking, worker, forging, bounds,
                 offered, agreed, mishaps>>

ReceiveTransaction ==
  /\ Starts("receive")
  /\ receiver' = Begins(Head(line).t, Head(line).of)
  /\ Again(Head(line).t)
  /\ UNCHANGED <<chain, pool, applied, line, storing, bundler, checking, worker, forging,
                 bounds, offered, agreed>>

ReceiveBundledTransaction ==
  /\ Starts("bundle")
  /\ bundled' = Put(bundled, Head(line).t, Head(line).of)
  /\ Again(Head(line).t)
  /\ Ends
  /\ UNCHANGED <<chain, queued, multisignature, unconfirmed, applied, bundler, checking,
                 worker, forging, bounds, offered, agreed>>

QueueVerified(v) ==
  /\ IF Verifies(v.t, v.copy, v.sender) THEN QueueTransaction(v.t, v.copy)
                                        ELSE UNCHANGED <<queued, multisignature>>
  /\ IF \E k \in ToSet(v.copy.sigs) : Storing(v.t, k) THEN Happens("raced", {v.t})
                                                     ELSE UNCHANGED mishaps

Received ==
  /\ receiver # None
  /\ QueueVerified(receiver)
  /\ Ends
  /\ UNCHANGED <<chain, bundled, unconfirmed, applied, bundler, checking, worker, forging,
                 bounds, offered, agreed>>

\* Mutant of Signed: complete or not is asked before the signature is added.
SignedBefore(t, copy, k) ==
  [sigs |-> Append(copy.sigs, k), array |-> TRUE,
   ready |-> Ready(t, [copy EXCEPT !.array = TRUE], Account)]

(* The signature is added, and `ready' asked for.                          *)
Signed(t, copy, k) ==
  LET more == [copy EXCEPT !.sigs = Append(@, k), !.array = TRUE]
  IN  [more EXCEPT !.ready = Ready(t, more, Account)]

(* sign: the account is read, and the transaction looked for once more.    *)
Sign ==
  /\ Starts("sign")
  /\ LET t == Head(line).t
         k == Head(line).of
         may == /\ multisignature[t] # None
                /\ t = "reg" \/ Account.group
                /\ k \notin ToSet(multisignature[t].sigs)
     IN multisignature' = IF may THEN [multisignature EXCEPT ![t] = Signed(t, @, k)]
                                 ELSE multisignature
  /\ Ends
  /\ UNCHANGED <<chain, bundled, queued, unconfirmed, applied, bundler, checking, worker,
                 forging, bounds, offered, agreed, mishaps>>

(* done of processSignature: the transaction is looked for and its account *)
(* is read.                                                                *)
StoreBegins ==
  /\ Starts("store")
  /\ IF multisignature[Head(line).t] = None THEN Ends
                                            ELSE storing' = TRUE /\ UNCHANGED <<line, receiver>>
  /\ UNCHANGED <<chain, pool, applied, bundler, checking, worker, forging, bounds,
                 offered, agreed, mishaps>>

(* The signature is pushed, without another check; also if the transaction *)
(* has gone to the unconfirmed queue meanwhile.                            *)
StoreSignature ==
  /\ storing
  /\ LET t == Head(line).t
         signed(q) == IF q[t] = None THEN q
                      ELSE [q EXCEPT ![t] = Signed(t, @, Head(line).of)]
     IN  /\ multisignature' = signed(multisignature)
         /\ unconfirmed' = IF multisignature[t] = None THEN signed(unconfirmed) ELSE unconfirmed
  /\ Ends
  /\ UNCHANGED <<chain, bundled, queued, applied, bundler, checking, worker, forging,
                 bounds, offered, agreed, mishaps>>

-----------------------------------------------------------------------------
(* processBundled                                                          *)
BundledNext(t) ==
  /\ bundler = None /\ bundled[t] # None
  /\ bundled' = Drop(bundled, {t})
  /\ bundler' = Begins(t, bundled[t])
  /\ UNCHANGED <<chain, queued, multisignature, unconfirmed, applied, turn, checking,
                 worker, forging, bounds, offered, agreed, mishaps>>

BundledVerified ==
  /\ bundler # None
  /\ QueueVerified(bundler)
  /\ bundler' = None
  /\ UNCHANGED <<chain, bundled, unconfirmed, applied, turn, checking, worker, forging,
                 bounds, offered, agreed>>

-----------------------------------------------------------------------------
(* The worker: whatever runs in `sequence'                                 *)
Complete == {t \in In(multisignature) : multisignature[t].ready}

\* Mutant of FillPool: what is taken stays in its queue.
FillPoolKept ==
  /\ Resting
  /\ In(queued) # {}
  /\ unconfirmed' = [t \in Tx |-> IF unconfirmed[t] # None THEN unconfirmed[t] ELSE queued[t]]
  /\ worker' = SetToSeq(In(queued))
  /\ UNCHANGED <<chain, bundled, queued, multisignature, applied, turn, bundler, checking,
                 forging, bounds, offered, agreed, mishaps>>

(* fillPool: what is complete or needs no signatures                       *)
FillPool ==
  /\ Resting
  /\ Complete \cup In(queued) # {}
  /\ unconfirmed' = [t \in Tx |->
       IF unconfirmed[t] # None THEN unconfirmed[t]
       ELSE IF t \in Complete THEN multisignature[t]
       ELSE queued[t]]
  /\ multisignature' = Drop(multisignature, Complete)
  /\ queued' = Drop(queued, In(queued))
  /\ worker' = SetToSeq(Complete) \o SetToSeq(In(queued) \ Complete)
  /\ UNCHANGED <<chain, bundled, applied, turn, bundler, checking, forging, bounds,
                 offered, agreed, mishaps>>

(* applyUnconfirmedList: verified, and applied or removed: a registration  *)
(* is not applied twice.  Of the ids that are applied again after a block  *)
(* some are not there any more.                                            *)
ApplyNext ==
  /\ worker # <<>>
  /\ worker' = Tail(worker)
  /\ LET t == Head(worker)
         v == Begins(t, unconfirmed[t])
     IN IF unconfirmed[t] = None THEN UNCHANGED <<unconfirmed, queued, multisignature, applied>>
        ELSE IF Verifies(t, v.copy, v.sender) /\ (t = "pay" \/ applied[t] = 0)
             THEN /\ unconfirmed' = [unconfirmed EXCEPT ![t] = v.copy]
                  /\ applied' = [applied EXCEPT ![t] = @ + 1]
                  /\ UNCHANGED <<queued, multisignature>>
             ELSE /\ unconfirmed' = Drop(unconfirmed, {t}) /\ queued' = Drop(queued, {t})
                  /\ multisignature' = Drop(multisignature, {t})
                  /\ UNCHANGED applied
  /\ UNCHANGED <<chain, bundled, turn, bundler, checking, forging, bounds, offered,
                 agreed, mishaps>>

\* Mutant of Confirms: the queue is left as it was applied.
ConfirmsKept(S, copies) ==
  /\ chain' = Append(chain, S)
  /\ agreed' = agreed \cup {[t |-> t, sigs |-> copies[t].sigs, group |-> Account.group] : t \in S}
  /\ applied' = [t \in Tx |-> applied[t] - (IF t \in S THEN 1 ELSE 0)]
  /\ unconfirmed' = Drop(unconfirmed, S)
  /\ queued' = Drop(queued, S)
  /\ multisignature' = Drop(multisignature, S)
  /\ worker' = <<>>
  /\ IF "reg" \in S THEN Happens("changed", UnderWay) ELSE UNCHANGED mishaps

(* A block confirms the transactions of S, with these copies.  The whole   *)
(* queue is undone, and applied again without S.                           *)
Confirms(S, copies) ==
  /\ chain' = Append(chain, S)
  /\ agreed' = agreed \cup {[t |-> t, sigs |-> copies[t].sigs, group |-> Account.group] : t \in S}
  /\ applied' = [t \in Tx |-> applied[t] - (IF t \in In(unconfirmed) THEN 1 ELSE 0)]
  /\ unconfirmed' = Drop(unconfirmed, S)
  /\ queued' = Drop(queued, S)
  /\ multisignature' = Drop(multisignature, S)
  /\ worker' = SetToSeq(In(unconfirmed))
  /\ IF "reg" \in S THEN Happens("changed", UnderWay) ELSE UNCHANGED mishaps

(* generateBlock: what is ready; the outcome of its verification is not    *)
(* looked at.                                                              *)
GenerateBlock ==
  /\ Resting
  /\ Uses("events")
  /\ LET ready == {t \in In(unconfirmed) : Ready(t, unconfirmed[t], Account)}
     IN ready # {} /\ forging' = ready
  /\ UNCHANGED <<chain, pool, applied, turn, bundler, checking, worker, offered, agreed,
                 mishaps>>

(* processBlock of the node's own block: one transaction that does not     *)
(* verify and the slot is lost.                                            *)
BlockGenerated ==
  /\ forging # None
  /\ forging' = None
  /\ IF \A t \in forging : Verifies(t, unconfirmed[t], Account)
     THEN Confirms(forging, unconfirmed)
     ELSE UNCHANGED <<chain, queued, multisignature, unconfirmed, applied, worker, agreed,
                      mishaps>>
  /\ UNCHANGED <<bundled, turn, bundler, checking, bounds, offered>>

(* A transaction of a block is not ready when it is to be confirmed: the   *)
(* process exits, and is started again with what the database has.         *)
Exits ==
  /\ bundled' = [t \in Tx |-> None] /\ queued' = bundled'
  /\ multisignature' = bundled' /\ unconfirmed' = bundled'
  /\ applied' = [t \in Tx |-> 0]
  /\ line' = <<>> /\ receiver' = None /\ storing' = FALSE /\ bundler' = None /\ checking' = <<>>
  /\ worker' = <<>>
  /\ mishaps' = [kind \in Kinds |-> {}]
  /\ UNCHANGED <<chain, agreed>>

(* A block of another node is verified, without asking for `ready'.        *)
ReceiveBlock(t, copy) ==
  /\ Resting
  /\ Uses("events")
  /\ Verifies(t, copy, Account)
  /\ offered' = offered \cup {t}
  /\ UNCHANGED forging

ApplyBlock(t, copy) ==
  /\ ReceiveBlock(t, copy)
  /\ Ready(t, copy, Account)
  /\ Confirms({t}, [u \in {t} |-> copy])
  /\ UNCHANGED <<bundled, turn, bundler, checking>>

ExitAtBlock(t, copy) ==
  /\ ReceiveBlock(t, copy)
  /\ ~Ready(t, copy, Account)
  /\ Exits

(* The queues stay as they are.                                            *)
DeleteLastBlock ==
  /\ Resting /\ chain # <<>>
  /\ Uses("events")
  /\ chain' = Front(chain)
  /\ IF "reg" \in Last(chain) THEN Happens("deleted", UnderWay) ELSE UNCHANGED mishaps
  /\ UNCHANGED <<pool, applied, turn, bundler, checking, worker, forging, offered,
                 agreed>>

(* A transaction has waited too long; not in the moment of its being       *)
(* applied.                                                                *)
Expire(t) ==
  /\ t \in In(queued) \cup In(multisignature) \cup In(unconfirmed)
  /\ t \notin ToSet(worker) /\ (forging # None => t \notin forging)
  /\ Uses("events")
  /\ unconfirmed' = Drop(unconfirmed, {t}) /\ queued' = Drop(queued, {t})
  /\ multisignature' = Drop(multisignature, {t})
  /\ Happens("expired", {t})
  /\ UNCHANGED <<chain, bundled, applied, turn, bundler, checking, worker, forging,
                 offered, agreed>>

Step ==
  \/ AddTransactions \/ AddSignature \/ AddMultisignature
  \/ \E t \in Tx : \/ \E copy \in PeerCopies : \/ PostTransaction(t, copy)
                                              \/ PostTransactions(t, copy)
                                              \/ LoadTransactions(t, copy)
                   \/ \E copy \in BlockCopies : ApplyBlock(t, copy)
                   \/ \E k \in Members : \/ SignCalled(t, k) \/ LoadSignature(t, k)
                                         \/ PostSignature(t, k)
                   \/ BundledNext(t) \/ Expire(t)
  \/ \E i \in DOMAIN checking : SignatureChecked(i)
  \/ CreateTransaction \/ CreateSignature \/ CreateMultisignature
  \/ ReceiveKnown \/ ReceiveTransaction \/ ReceiveBundledTransaction
  \/ Received \/ Sign \/ StoreBegins \/ StoreSignature
  \/ BundledVerified
  \/ FillPool \/ ApplyNext \/ GenerateBlock \/ BlockGenerated \/ DeleteLastBlock

Next == Step \/ \E t \in Tx, copy \in BlockCopies : ExitAtBlock(t, copy)

Spec == Init /\ [][Next]_vars

-----------------------------------------------------------------------------
TypeOK ==
  LET copies == [sigs : Seq(Members), array : BOOLEAN, ready : BOOLEAN]
      verification == [t : Tx, copy : copies, sender : [group : BOOLEAN, second : BOOLEAN]]
  IN  /\ chain \in Seq(SUBSET Tx)
      /\ pool \in [1 .. 4 -> [Tx -> copies \cup {None}]]
      /\ applied \in [Tx -> Int]
      /\ line \in Seq([do : {"create", "receive", "bundle", "sign", "store"}, t : Tx,
                       of : copies \cup Members \cup {None}])
      /\ receiver \in verification \cup {None} /\ storing \in BOOLEAN
      /\ bundler \in verification \cup {None}
      /\ checking \in Seq(Tx \X Members)
      /\ worker \in Seq(Tx)
      /\ forging \in (SUBSET Tx) \cup {None}
      /\ mishaps \in [Kinds -> SUBSET Tx]
      /\ \A q \in {bundled, queued, multisignature, unconfirmed} : \A t \in In(q) :
           q[t].sigs # <<>> => q[t].array

(***************************************************************************)
(* A signature is kept once, by whatever ways it comes: a second one makes *)
(* the transaction refused when it is to be applied, and with it every     *)
(* signature is lost.  Unless the same signature passed its check while it *)
(* was still to be stored: the check is not part of the task that stores;  *)
(* or the transaction was gone, and has come again with that signature.    *)
(***************************************************************************)
SignedOnce ==
  \A t \in Tx : \A q \in {multisignature, unconfirmed} :
    q[t] # None /\ ~IsInjective(q[t].sigs) => Excepts({"raced", "again"}, t)

(***************************************************************************)
(* `ready' is up to date: fillPool takes what is complete, and no more.    *)
(* It is only written with a signature.  So it is not for a transaction    *)
(* that came with signatures, which waits for another or for its expiry,   *)
(* or with a `ready' of the peer's making, nor after the block that        *)
(* registers the group was deleted.                                        *)
(***************************************************************************)
ReadyExact ==
  \A t \in In(multisignature) :
    \/ multisignature[t].ready = Ready(t, multisignature[t], Account)
    \/ Excepts({"elsewhere", "believed", "deleted"}, t)

(***************************************************************************)
(* The unconfirmed queue has only what a block can take: it is there that  *)
(* nobody can sign any more.  A transaction that was under way when the    *)
(* group was registered gets there all the same; a registration with a     *)
(* signature twice has one too many; and what a peer sends as ready is     *)
(* believed to be.                                                         *)
(***************************************************************************)
NothingUnsigned ==
  \A t \in In(unconfirmed) :
    \/ Ready(t, unconfirmed[t], Account)
    \/ Excepts({"changed", "raced", "again", "believed"}, t)

(***************************************************************************)
(* So what is complete leaves the queue of signatures, and nothing else.   *)
(***************************************************************************)
SignaturesComplete == ReadyExact /\ NothingUnsigned

(***************************************************************************)
(* The node's own block verifies, although generateBlock does not look at  *)
(* the outcome of its own verification: else the slot is lost, and every   *)
(* slot until the transaction expires.  Unless it has a signature twice,   *)
(* or the block that registered the group of its signatures was deleted:   *)
(* deleting a block does not verify the queues again.                      *)
(***************************************************************************)
OwnBlockVerifies ==
  forging # None =>
    \A t \in forging :
      Verifies(t, unconfirmed[t], Account) \/ Excepts({"raced", "again", "deleted"}, t)

(***************************************************************************)
(* What is confirmed has been signed by as many members as its account     *)
(* asked for, by every one of them if it registers the group.              *)
(***************************************************************************)
GroupAgreed ==
  \A a \in agreed :
    /\ a.group => Cardinality(ToSet(a.sigs)) >= MinSigs
    /\ a.t = "reg" => ToSet(a.sigs) = Members

(***************************************************************************)
(* A transaction is applied to the unconfirmed balance once, however often *)
(* it comes and by whatever way: a second time is never undone.  Unless it *)
(* came again while it lay at the first place of a queue, or was being     *)
(* verified, where transactionInPool does not see it; or expired.          *)
(***************************************************************************)
AppliedOnce ==
  \A t \in Tx : applied[t] \in {0, 1} \/ Excepts({"again", "expired"}, t)

(***************************************************************************)
(* The copies in the queues are such as the code makes, with each signature *)
(* once.                                                                   *)
(***************************************************************************)
CopiesOK == TypeOK /\ SignedOnce
=============================================================================
