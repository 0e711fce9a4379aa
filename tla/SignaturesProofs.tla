--------------------------- MODULE SignaturesProofs ---------------------------
(***************************************************************************)
(* For any group and any number of calls, copies of peers, blocks and      *)
(* deletions: what is confirmed has been signed by as many members as its  *)
(* account asked for; a signature is kept once; what is complete leaves    *)
(* the queue of signatures, and nothing else; the node's own block         *)
(* verifies; a transaction is applied once.                                *)
(*                                                                         *)
(* First what a block confirms.  A block of the node is made of what is    *)
(* ready and verified later, and signatures are pushed without a check     *)
(* meanwhile: the invariant is that the block being made has its           *)
(* transactions where they were, with enough signatures; whether they are  *)
(* different the verification says.                                        *)
(*                                                                         *)
(* Then the rest, one part of the invariant after the other: where a       *)
(* transaction is, what the worker has still to apply, what signatures     *)
(* there are and are still to be stored, and whether the account has the   *)
(* group that it had when the transaction was read with it.                *)
(*                                                                         *)
(* A block with a transaction that is not ready makes the process exit:    *)
(* nothing waits then, and the whole invariant holds again.                *)
(***************************************************************************)
EXTENDS Signatures, FiniteSetTheorems, TLAPS

Copy == {c \in [sigs : Seq(Members), array : BOOLEAN, ready : BOOLEAN] :
           c.sigs # <<>> => c.array}
Verification == [t : Tx, copy : Copy, sender : [group : BOOLEAN, second : BOOLEAN]]
Bundle == [Tx -> Copy \cup {None}]
Queue == [Tx -> Copy \cup {None}]
Tasks == [do : {"create"}, t : Tx, of : {None}]
         \cup [do : {"receive", "bundle"}, t : Tx, of : Copy]
         \cup [do : {"sign", "store"}, t : Tx, of : Members]

VerifiedTyped(v) == v # None => v \in Verification

Typed ==
  /\ bundled \in Bundle /\ queued \in Queue
  /\ multisignature \in Queue /\ unconfirmed \in Queue
  /\ line \in Seq(Tasks)
  /\ storing => line # <<>> /\ Head(line).do = "store"
  /\ receiver # None => line # <<>>
  /\ VerifiedTyped(receiver) /\ VerifiedTyped(bundler)
  /\ checking \in Seq(Tx \X Members)

\* The signatures that a block asks for, but that they are different
Enough(t, copy) ==
  /\ Account.group => Len(copy.sigs) >= MinSigs
  /\ t = "reg" /\ ~Account.group => Len(copy.sigs) >= Cardinality(Members)

ForgingEnough ==
  forging # None =>
    /\ worker = <<>>
    /\ \A t \in forging :
         t \in Tx /\ unconfirmed[t] \in Copy /\ Enough(t, unconfirmed[t])

IInv == Typed /\ ForgingEnough /\ GroupAgreed

-----------------------------------------------------------------------------
(* Copies and the queues *)

LEMMA BegunCopy ==
  ASSUME NEW t \in Tx, NEW copy \in Copy
  PROVE  /\ Begins(t, copy).t = t /\ Begins(t, copy).sender = Account
         /\ Begins(t, copy).copy \in Copy
         /\ Begins(t, copy).copy.sigs = copy.sigs /\ Begins(t, copy).copy.ready = copy.ready
         /\ Begins(t, copy).copy.array <=> copy.array \/ Account.group
<1> DEFINE begun == [copy EXCEPT !.array = @ \/ Account.group]
<1>1. (copy.array \/ Account.group) \in BOOLEAN
  OBVIOUS
<1>2. begun \in Copy /\ begun.sigs = copy.sigs /\ begun.ready = copy.ready
      /\ (begun.array <=> copy.array \/ Account.group)
  BY <1>1 DEF Copy
<1>3. Begins(t, copy) = [t |-> t, copy |-> begun, sender |-> Account]
  BY DEF Begins
<1> HIDE DEF begun
<1> QED
  BY <1>1, <1>2, <1>3

LEMMA BegunSent ==
  ASSUME NEW t \in Tx, NEW copy \in Copy
  PROVE  Begins(t, copy) \in Verification
<1>1. Begins(t, copy) = [t |-> t, copy |-> Begins(t, copy).copy, sender |-> Account]
  BY DEF Begins
<1>2. Begins(t, copy).copy \in Copy
  BY BegunCopy
<1>3. Account \in [group : BOOLEAN, second : BOOLEAN]
  BY DEF Account
<1> HIDE DEF Account
<1> QED
  BY <1>1, <1>2, <1>3 DEF Verification

LEMMA SentCopies == PeerCopies \cup BlockCopies \subseteq Copy
  BY SignaturesAssumption DEF Copy

LEMMA SignedCopy ==
  ASSUME NEW t \in Tx, NEW copy \in Copy, NEW k \in Members
  PROVE  Signed(t, copy, k) \in Copy /\ Signed(t, copy, k).sigs = Append(copy.sigs, k)
<1> DEFINE more == [copy EXCEPT !.sigs = Append(@, k), !.array = TRUE]
           longer == Append(copy.sigs, k)
<1>0. longer \in Seq(Members)
  BY DEF Copy
<1>1. more \in Copy /\ more.sigs = longer
  <2>1. more = [copy EXCEPT !.sigs = longer, !.array = TRUE]
    OBVIOUS
  <2> HIDE DEF longer, more
  <2>2. more = [sigs |-> longer, array |-> TRUE, ready |-> copy.ready]
    BY <2>1 DEF Copy
  <2> QED
    BY <1>0, <2>2 DEF Copy
<1> HIDE DEF more
<1>2. Ready(t, more, Account) \in BOOLEAN
  BY DEF Ready, RegistrationReady, TransferReady, Account
<1>3. [more EXCEPT !.ready = Ready(t, more, Account)] \in Copy
      /\ [more EXCEPT !.ready = Ready(t, more, Account)].sigs = more.sigs
  BY <1>1, <1>2 DEF Copy
<1> QED
  BY <1>1, <1>3 DEF Signed, more

LEMMA DroppedQueue ==
  ASSUME NEW q \in Queue, NEW S
  PROVE  Drop(q, S) \in Queue /\ \A t \in Tx \ S : Drop(q, S)[t] = q[t]
  BY DEF Drop, Queue

LEMMA PutQueue ==
  ASSUME NEW q \in Queue, NEW t \in Tx, NEW copy \in Copy
  PROVE  Put(q, t, copy) \in Queue
  BY DEF Put, Queue

\* Different signatures of the group are as many as there are entries.
LEMMA DifferentSignatures ==
  ASSUME NEW s \in Seq(Members), IsInjective(s)
  PROVE  /\ Cardinality(ToSet(s)) = Len(s)
         /\ Len(s) >= Cardinality(Members) => ToSet(s) = Members
<1>1. Len(s) \in Nat /\ s \in [1..Len(s) -> Members] /\ DOMAIN s = 1..Len(s)
  OBVIOUS
<1>2. ToSet(s) \subseteq Members /\ s \in [1..Len(s) -> ToSet(s)]
  BY <1>1 DEF ToSet
<1>3. s \in Bijection(1..Len(s), ToSet(s))
  BY <1>1, <1>2 DEF Bijection, Injection, Surjection, IsInjective, ToSet
<1>4. Cardinality(ToSet(s)) = Len(s)
  BY <1>1, <1>3, FS_CountingElements DEF ExistsBijection
<1>5. Len(s) >= Cardinality(Members) => ToSet(s) = Members
  BY <1>1, <1>2, <1>4, FS_Subset, FS_CardinalityType, SignaturesAssumption
<1> QED
  BY <1>4, <1>5

-----------------------------------------------------------------------------
(* What is confirmed *)

\* Enough signatures that verify are those that GroupAgreed asks for.
LEMMA EnoughAgreed ==
  ASSUME NEW t \in Tx, NEW copy \in Copy, Enough(t, copy), Verifies(t, copy, Account)
  PROVE  /\ Account.group => Cardinality(ToSet(copy.sigs)) >= MinSigs
         /\ t = "reg" => ToSet(copy.sigs) = Members
<1>1. copy.sigs \in Seq(Members) /\ IsInjective(copy.sigs)
  BY DEF Copy, Verifies, SignaturesVerify
<1>2. t = "reg" => ~Account.group
  BY DEF Verifies, MultisignatureVerifies
<1> QED
  BY <1>1, <1>2, DifferentSignatures DEF Enough

LEMMA ReadyEnough ==
  ASSUME NEW t \in Tx, NEW copy \in Copy, Ready(t, copy, Account)
  PROVE  Enough(t, copy)
<1>1. Cardinality(Members) \in Nat
  BY FS_CardinalityType, SignaturesAssumption
<1>2. Len(copy.sigs) \in Nat
  BY DEF Copy
<1> QED
  BY <1>1, <1>2, SignaturesAssumption DEF Ready, RegistrationReady, TransferReady, Enough

LEMMA ConfirmsAgreed ==
  ASSUME IInv, NEW S, S \subseteq Tx, NEW copies, Confirms(S, copies),
         \A t \in S : copies[t] \in Copy /\ Enough(t, copies[t])
                      /\ Verifies(t, copies[t], Account)
  PROVE  /\ GroupAgreed'
         /\ queued' \in Queue /\ multisignature' \in Queue /\ unconfirmed' \in Queue
<1>1. agreed' = agreed \cup {[t |-> t, sigs |-> copies[t].sigs, group |-> Account.group] : t \in S}
  BY DEF Confirms
<1>2. ASSUME NEW t \in S
      PROVE  /\ Account.group => Cardinality(ToSet(copies[t].sigs)) >= MinSigs
             /\ t = "reg" => ToSet(copies[t].sigs) = Members
  BY EnoughAgreed
<1>3. GroupAgreed'
  BY <1>1, <1>2 DEF GroupAgreed, IInv
<1> QED
  BY <1>3, DroppedQueue DEF Confirms, IInv, Typed

-----------------------------------------------------------------------------
(* The steps *)

LEMMA AddsTyped ==
  ASSUME Typed, NEW task \in Tasks, Adds(task)
  PROVE  /\ line' \in Seq(Tasks)
         /\ line' # <<>>
         /\ storing' = storing => (storing' => Head(line').do = "store")
<1>1. line' = Append(line, task) /\ line \in Seq(Tasks)
  BY DEF Adds, Typed
<1>2. line # <<>> => line' # <<>> /\ Head(line') = Head(line)
  BY <1>1
<1> QED
  BY <1>1, <1>2 DEF Typed

LEMMA EndsTyped ==
  ASSUME Typed, line # <<>>, Ends
  PROVE  line' \in Seq(Tasks) /\ ~storing' /\ receiver' = None /\ VerifiedTyped(receiver')
  BY DEF Ends, Typed, VerifiedTyped

LEMMA HeadTask ==
  ASSUME Typed, line # <<>>
  PROVE  /\ Head(line).t \in Tx
         /\ Head(line).do \in {"receive", "bundle"} => Head(line).of \in Copy
         /\ Head(line).do \in {"sign", "store"} => Head(line).of \in Members
<1>1. Head(line) \in Tasks
  BY DEF Typed
<1> QED
  BY <1>1 DEF Tasks

\* What leaves the chain, the unconfirmed queue, the worker and the block alone
LEMMA Keeps ==
  ASSUME IInv, Typed', chain' = chain, unconfirmed' = unconfirmed, worker' = worker,
         forging' = forging, agreed' = agreed
  PROVE  IInv'
  BY DEF IInv, ForgingEnough, Enough, Account, Confirmed, GroupAgreed

LEMMA VerifiedQueued ==
  ASSUME Typed, NEW v, v # None, VerifiedTyped(v), QueueVerified(v)
  PROVE  queued' \in Queue /\ multisignature' \in Queue
  BY PutQueue DEF QueueVerified, QueueTransaction, VerifiedTyped, Verification, Typed

LEMMA SubmitKeeps ==
  ASSUME IInv, NEW t \in Tx, Submit(t)
  PROVE  IInv'
<1>1. Task("create", t, None) \in Tasks
  BY DEF Task, Tasks
<1>2. Typed'
  BY <1>1, AddsTyped DEF Submit, Typed, pool, IInv, VerifiedTyped
<1> QED
  BY <1>2, Keeps DEF Submit, pool

LEMMA ReceiveKeeps ==
  ASSUME IInv, NEW t \in Tx, NEW copy \in PeerCopies, NEW do \in {"receive", "bundle"},
         Receive(do, t, copy)
  PROVE  IInv'
<1>1. Task(do, t, copy) \in Tasks
  BY SentCopies DEF Task, Tasks
<1>2. Typed'
  BY <1>1, AddsTyped DEF Receive, Typed, pool, IInv, VerifiedTyped
<1> QED
  BY <1>2, Keeps DEF Receive, pool

LEMMA SignCalledKeeps ==
  ASSUME IInv, NEW t \in Tx, NEW k \in Members, SignCalled(t, k)
  PROVE  IInv'
<1>1. Task("sign", t, k) \in Tasks
  BY DEF Task, Tasks
<1>2. Typed'
  BY <1>1, AddsTyped DEF SignCalled, Typed, pool, IInv, VerifiedTyped
<1> QED
  BY <1>2, Keeps DEF SignCalled, pool

LEMMA CheckSignatureKeeps ==
  ASSUME IInv, NEW t \in Tx, NEW k \in Members, CheckSignature(t, k)
  PROVE  IInv'
<1>1. Task("store", t, k) \in Tasks
  BY DEF Task, Tasks
<1>2. Typed'
  <2>1. CASE t = "reg"
    <3>1. /\ Adds(Task("store", t, k))
          /\ UNCHANGED <<bundled, queued, multisignature, unconfirmed, receiver, storing,
                         bundler, checking>>
      BY <2>1 DEF CheckSignature, Stores, pool
    <3> QED
      BY <1>1, <3>1, AddsTyped DEF Typed, IInv, VerifiedTyped
  <2>2. CASE t # "reg"
    <3>1. /\ checking' = Append(checking, <<t, k>>) /\ line' = line
          /\ UNCHANGED <<bundled, queued, multisignature, unconfirmed, receiver, storing,
                         bundler>>
      BY <2>2 DEF CheckSignature, pool
    <3>2. checking' \in Seq(Tx \X Members)
      BY <3>1 DEF IInv, Typed
    <3> QED
      BY <3>1, <3>2 DEF Typed, IInv, VerifiedTyped
  <2> QED
    BY <2>1, <2>2
<1> QED
  BY <1>2, Keeps DEF CheckSignature, pool

LEMMA PartTyped ==
  ASSUME NEW S, NEW s \in Seq(S), NEW m \in 1..Len(s) + 1, NEW n \in 0..Len(s)
  PROVE  SubSeq(s, m, n) \in Seq(S)
<1>1. \A j \in m..n : s[j] \in S
  OBVIOUS
<1> QED
  BY <1>1

LEMMA SignatureCheckedKeeps ==
  ASSUME IInv, NEW i \in DOMAIN checking, SignatureChecked(i)
  PROVE  IInv'
<1> DEFINE t == checking[i][1]
           k == checking[i][2]
<1>1. t \in Tx /\ k \in Members
  BY DEF IInv, Typed
<1>2. Task("store", t, k) \in Tasks
  BY <1>1 DEF Task, Tasks
<1>3. checking' \in Seq(Tx \X Members)
  <2>1. checking' = RemoveAt(checking, i) /\ checking \in Seq(Tx \X Members)
    BY DEF SignatureChecked, IInv, Typed
  <2> DEFINE n == Len(checking)
  <2>2. n \in Nat /\ i \in 1..n
    BY <2>1
  <2>3. /\ SubSeq(checking, 1, i - 1) \in Seq(Tx \X Members)
        /\ SubSeq(checking, i + 1, n) \in Seq(Tx \X Members)
    BY <2>1, <2>2, PartTyped
  <2> QED
    BY <2>1, <2>3 DEF RemoveAt
<1>4. \/ Stores(t, k) /\ UNCHANGED <<receiver, storing>>
      \/ UNCHANGED turn
  BY DEF SignatureChecked, turn
<1> HIDE DEF t, k
<1>5. line' \in Seq(Tasks) /\ storing' = storing /\ (receiver' # None => line' # <<>>)
      /\ (storing' => line' # <<>> /\ Head(line').do = "store")
  <2>1. CASE Stores(t, k) /\ UNCHANGED <<receiver, storing>>
    BY <1>2, <2>1, AddsTyped DEF Stores, IInv
  <2>2. CASE UNCHANGED turn
    BY <2>2 DEF turn, IInv, Typed
  <2> QED
    BY <1>4, <2>1, <2>2
<1>6. Typed'
  BY <1>3, <1>5 DEF SignatureChecked, Typed, pool, IInv, VerifiedTyped
<1> QED
  BY <1>6, Keeps DEF SignatureChecked, pool

LEMMA CreateKeeps ==
  ASSUME IInv, NEW t \in Tx, Create(t)
  PROVE  IInv'
<1>1. UNCHANGED <<bundled, queued, multisignature, unconfirmed, bundler, checking>>
      /\ line # <<>> /\ ~storing
  BY DEF Create, pool, Starts
<1>2. /\ line' \in Seq(Tasks) /\ ~storing'
      /\ VerifiedTyped(receiver') /\ (receiver' # None => line' # <<>>)
  <2>1. CASE receiver' = Begins(t, Plain) /\ UNCHANGED <<line, storing>>
    <3>1. Plain \in Copy
      BY DEF Plain, Copy
    <3>2. Begins(t, Plain) \in Verification
      BY <3>1, BegunSent
    <3> QED
      BY <1>1, <2>1, <3>2 DEF VerifiedTyped, IInv, Typed
  <2>2. CASE Ends
    BY <1>1, <2>2, EndsTyped DEF IInv
  <2> QED
    BY <2>1, <2>2 DEF Create
<1>3. Typed'
  BY <1>1, <1>2 DEF Typed, IInv, VerifiedTyped
<1> QED
  BY <1>3, Keeps DEF Create, pool

LEMMA ReceiveTasksKeep ==
  ASSUME IInv, ReceiveKnown \/ ReceiveTransaction \/ ReceiveBundledTransaction \/ Received
  PROVE  IInv'
<1>1. CASE ReceiveKnown
  <2>1. line # <<>> /\ Ends
    BY <1>1 DEF ReceiveKnown, Starts
  <2>2. Typed'
    BY <1>1, <2>1, EndsTyped DEF ReceiveKnown, Typed, IInv, pool, VerifiedTyped
  <2> QED
    BY <1>1, <2>2, Keeps DEF ReceiveKnown, pool
<1>2. CASE ReceiveTransaction
  <2>1. line # <<>> /\ Head(line).do = "receive" /\ ~storing
    BY <1>2 DEF ReceiveTransaction, Starts
  <2>2. Head(line).t \in Tx /\ Head(line).of \in Copy
    BY <2>1, HeadTask DEF IInv
  <2>3. VerifiedTyped(receiver')
    <3>1. receiver' = Begins(Head(line).t, Head(line).of)
      BY <1>2 DEF ReceiveTransaction
    <3> QED
      BY <2>2, <3>1, BegunSent DEF VerifiedTyped
  <2>4. Typed'
    BY <1>2, <2>1, <2>3 DEF ReceiveTransaction, Typed, IInv, pool, VerifiedTyped
  <2> QED
    BY <1>2, <2>4, Keeps DEF ReceiveTransaction, pool
<1>3. CASE ReceiveBundledTransaction
  <2>1. line # <<>> /\ Head(line).do = "bundle" /\ Ends
        /\ bundled' = Put(bundled, Head(line).t, Head(line).of)
    BY <1>3 DEF ReceiveBundledTransaction, Starts
  <2>2. bundled' \in Bundle
    BY <2>1, HeadTask DEF IInv, Typed, Put, Bundle
  <2>3. Typed'
    BY <1>3, <2>1, <2>2, EndsTyped DEF ReceiveBundledTransaction, Typed, IInv, VerifiedTyped
  <2> QED
    BY <1>3, <2>3, Keeps DEF ReceiveBundledTransaction
<1>4. CASE Received
  <2>1. receiver # None /\ QueueVerified(receiver) /\ Ends
    BY <1>4 DEF Received
  <2>2. queued' \in Queue /\ multisignature' \in Queue
    BY <2>1, VerifiedQueued DEF IInv, Typed
  <2>3. /\ line' \in Seq(Tasks) /\ ~storing'
        /\ receiver' = None /\ VerifiedTyped(receiver')
    BY <2>1, EndsTyped DEF IInv, Typed
  <2>4. Typed'
    BY <1>4, <2>2, <2>3 DEF Received, Typed, IInv, VerifiedTyped
  <2> QED
    BY <1>4, <2>4, Keeps DEF Received
<1> QED
  BY <1>1, <1>2, <1>3, <1>4

LEMMA SignKeeps ==
  ASSUME IInv, Sign
  PROVE  IInv'
<1>1. line # <<>> /\ Head(line).do = "sign" /\ Ends
  BY DEF Sign, Starts
<1>2. Head(line).t \in Tx /\ Head(line).of \in Members
  BY <1>1, HeadTask DEF IInv
<1>3. multisignature' \in Queue
  <2>1. CASE multisignature' = multisignature
    BY <2>1 DEF IInv, Typed
  <2>2. CASE /\ multisignature[Head(line).t] # None
             /\ multisignature' = [multisignature EXCEPT
                  ![Head(line).t] = Signed(Head(line).t, @, Head(line).of)]
    <3>1. multisignature \in Queue /\ multisignature[Head(line).t] \in Copy
      BY <1>2, <2>2 DEF IInv, Typed, Queue
    <3>2. Signed(Head(line).t, multisignature[Head(line).t], Head(line).of) \in Copy
      BY <1>2, <3>1, SignedCopy
    <3> QED
      BY <1>2, <2>2, <3>1, <3>2 DEF Queue
  <2> QED
    BY <2>1, <2>2 DEF Sign
<1>4. Typed'
  BY <1>1, <1>3, EndsTyped DEF Sign, Typed, IInv, VerifiedTyped
<1> QED
  BY <1>4, Keeps DEF Sign

LEMMA StoreBeginsKeeps ==
  ASSUME IInv, StoreBegins
  PROVE  IInv'
<1>1. line # <<>> /\ Head(line).do = "store"
  BY DEF StoreBegins, Starts
<1>2. /\ line' \in Seq(Tasks) /\ VerifiedTyped(receiver')
      /\ receiver' # None => line' # <<>>
      /\ storing' => line' # <<>> /\ Head(line').do = "store"
  <2>1. CASE Ends
    BY <1>1, <2>1, EndsTyped DEF IInv
  <2>2. CASE storing' = TRUE /\ UNCHANGED <<line, receiver>>
    BY <1>1, <2>2 DEF IInv, Typed, VerifiedTyped
  <2> QED
    BY <2>1, <2>2 DEF StoreBegins
<1>3. Typed'
  BY <1>2 DEF StoreBegins, Typed, IInv, pool, VerifiedTyped
<1> QED
  BY <1>3, Keeps DEF StoreBegins, pool

\* A signature that comes when its transaction is in the block being made is one more.
LEMMA StoreSignatureKeeps ==
  ASSUME IInv, StoreSignature
  PROVE  IInv'
<1> DEFINE t == Head(line).t
           k == Head(line).of
           signed(q) == IF q[t] = None THEN q ELSE [q EXCEPT ![t] = Signed(t, @, k)]
<1>1. /\ line # <<>> /\ Ends
      /\ multisignature' = signed(multisignature)
      /\ unconfirmed' = IF multisignature[t] = None THEN signed(unconfirmed) ELSE unconfirmed
      /\ UNCHANGED <<chain, bundled, queued, bundler, checking, worker, forging, agreed>>
  BY DEF StoreSignature, IInv, Typed
<1>2. t \in Tx /\ k \in Members
  BY HeadTask DEF StoreSignature, IInv, Typed
<1> HIDE DEF t, k
<1>3. ASSUME NEW q \in Queue
      PROVE  /\ signed(q) \in Queue
             /\ \A u \in Tx : q[u] \in Copy =>
                  signed(q)[u] \in Copy /\ Len(signed(q)[u].sigs) >= Len(q[u].sigs)
  <2>1. CASE q[t] = None
    BY <2>1 DEF Queue, Copy
  <2>2. CASE q[t] # None
    <3>1. q[t] \in Copy
      BY <1>2, <2>2 DEF Queue
    <3>2. Signed(t, q[t], k) \in Copy /\ Signed(t, q[t], k).sigs = Append(q[t].sigs, k)
      BY <1>2, <3>1, SignedCopy
    <3>3. q[t].sigs \in Seq(Members)
      BY <3>1 DEF Copy
    <3>4. Len(Append(q[t].sigs, k)) >= Len(q[t].sigs)
      BY <1>2, <3>3
    <3>5. \A u \in Tx : q[u] \in Copy => Len(q[u].sigs) \in Nat
      BY DEF Queue, Copy
    <3>6. signed(q) = [q EXCEPT ![t] = Signed(t, q[t], k)]
      BY <2>2
    <3>7. /\ \A u \in Tx \ {t} : signed(q)[u] = q[u]
          /\ signed(q)[t] = Signed(t, q[t], k)
          /\ signed(q) \in Queue
      BY <1>2, <3>2, <3>6 DEF Queue
    <3> HIDE DEF signed
    <3> QED
      BY <3>2, <3>4, <3>5, <3>7
  <2> QED
    BY <2>1, <2>2
<1> HIDE DEF signed
<1>4. multisignature' \in Queue /\ unconfirmed' \in Queue
  BY <1>1, <1>3 DEF IInv, Typed
<1>5. Typed'
  BY <1>1, <1>4, EndsTyped DEF Typed, IInv, VerifiedTyped
<1>6. ASSUME NEW u \in Tx, unconfirmed[u] \in Copy
      PROVE  unconfirmed'[u] \in Copy /\ Len(unconfirmed'[u].sigs) >= Len(unconfirmed[u].sigs)
             /\ Len(unconfirmed'[u].sigs) \in Nat /\ Len(unconfirmed[u].sigs) \in Nat
  <2>1. unconfirmed \in Queue /\ unconfirmed[u] \in Copy
    BY <1>6 DEF IInv, Typed
  <2>2. CASE multisignature[t] = None
    BY <1>1, <1>3, <1>6, <2>1, <2>2 DEF Copy
  <2>3. CASE multisignature[t] # None
    BY <1>1, <2>1, <2>3 DEF Copy
  <2> QED
    BY <2>2, <2>3
<1>7. ForgingEnough'
  <2>1. Cardinality(Members) \in Nat /\ MinSigs \in Nat
    BY FS_CardinalityType, SignaturesAssumption
  <2>2. Account' = Account
    BY <1>1 DEF Account, Confirmed
  <2>3. ASSUME NEW u \in Tx, unconfirmed[u] \in Copy, Enough(u, unconfirmed[u])
        PROVE  Enough(u, unconfirmed[u])' /\ unconfirmed'[u] \in Copy
    BY <1>6, <2>1, <2>2, <2>3 DEF Enough
  <2> QED
    BY <1>1, <2>3 DEF ForgingEnough, IInv
<1> QED
  BY <1>1, <1>5, <1>7 DEF IInv, GroupAgreed

LEMMA BundledKeeps ==
  ASSUME IInv, BundledVerified \/ \E t \in Tx : BundledNext(t)
  PROVE  IInv'
<1>1. CASE BundledVerified
  <2>1. queued' \in Queue /\ multisignature' \in Queue
    BY <1>1, VerifiedQueued DEF BundledVerified, IInv, Typed
  <2>2. Typed'
    BY <1>1, <2>1 DEF BundledVerified, Typed, IInv, VerifiedTyped, turn
  <2> QED
    BY <1>1, <2>2, Keeps DEF BundledVerified
<1>2. ASSUME NEW t \in Tx, BundledNext(t) PROVE IInv'
  <2>1. bundled[t] \in Copy /\ bundled' = Drop(bundled, {t}) /\ bundler' = Begins(t, bundled[t])
    BY <1>2 DEF BundledNext, IInv, Typed, Bundle
  <2>2. bundled' \in Bundle /\ VerifiedTyped(bundler')
    BY <2>1, BegunSent DEF IInv, Typed, VerifiedTyped, Drop, Bundle
  <2>3. Typed'
    BY <1>2, <2>2 DEF BundledNext, Typed, IInv, VerifiedTyped, turn
  <2> QED
    BY <1>2, <2>3, Keeps DEF BundledNext
<1> QED
  BY <1>1, <1>2

\* The worker fills the queue while no block is made.
LEMMA FillPoolKeeps ==
  ASSUME IInv, FillPool
  PROVE  IInv'
<1>1. unconfirmed' \in Queue
  <2>1. unconfirmed' = [t \in Tx |->
          IF unconfirmed[t] # None THEN unconfirmed[t]
          ELSE IF t \in Complete THEN multisignature[t]
          ELSE queued[t]]
    BY DEF FillPool
  <2>2. unconfirmed \in Queue /\ multisignature \in Queue /\ queued \in Queue
    BY DEF IInv, Typed
  <2> QED
    BY <2>1, <2>2 DEF Queue
<1>2. Typed'
  BY <1>1, DroppedQueue DEF FillPool, IInv, Typed, VerifiedTyped, turn
<1> QED
  BY <1>2 DEF FillPool, Resting, IInv, ForgingEnough, GroupAgreed

LEMMA ApplyNextKeeps ==
  ASSUME IInv, ApplyNext
  PROVE  IInv'
<1> DEFINE t == Head(worker)
           v == Begins(t, unconfirmed[t])
<1>1. /\ queued' \in Queue /\ multisignature' \in Queue /\ unconfirmed' \in Queue
      /\ UNCHANGED <<bundled, turn, bundler, checking>>
  <2>1. \/ UNCHANGED <<unconfirmed, queued, multisignature>>
        \/ /\ unconfirmed[t] # None /\ unconfirmed' = [unconfirmed EXCEPT ![t] = v.copy]
           /\ UNCHANGED <<queued, multisignature>>
        \/ /\ unconfirmed' = Drop(unconfirmed, {t}) /\ queued' = Drop(queued, {t})
           /\ multisignature' = Drop(multisignature, {t})
    BY DEF ApplyNext
  <2>2. UNCHANGED <<bundled, turn, bundler, checking>>
    BY DEF ApplyNext
  <2>3. /\ unconfirmed \in Queue /\ multisignature \in Queue /\ queued \in Queue
    BY DEF IInv, Typed
  <2>4. ASSUME t \in Tx, unconfirmed[t] # None PROVE v.copy \in Copy
    BY <2>3, <2>4, BegunCopy DEF Queue
  <2> HIDE DEF t, v
  <2>5. CASE unconfirmed[t] # None /\ unconfirmed' = [unconfirmed EXCEPT ![t] = v.copy]
             /\ UNCHANGED <<queued, multisignature>>
    <3>1. CASE t \in Tx
      BY <2>2, <2>3, <2>4, <2>5, <3>1 DEF Queue
    <3>2. CASE t \notin Tx
      BY <2>2, <2>3, <2>5, <3>2 DEF Queue
    <3> QED
      BY <3>1, <3>2
  <2> QED
    BY <2>1, <2>2, <2>3, <2>5, DroppedQueue
<1>2. Typed'
  BY <1>1 DEF IInv, Typed, VerifiedTyped, turn
<1> QED
  BY <1>2 DEF ApplyNext, IInv, ForgingEnough, GroupAgreed

LEMMA GenerateBlockKeeps ==
  ASSUME IInv, GenerateBlock
  PROVE  IInv'
<1>1. Typed'
  BY DEF GenerateBlock, IInv, Typed, VerifiedTyped, turn, pool
<1>2. ForgingEnough'
  <2>1. /\ forging' = {t \in In(unconfirmed) : Ready(t, unconfirmed[t], Account)}
        /\ worker' = <<>> /\ unconfirmed' = unconfirmed /\ Account' = Account
    BY DEF GenerateBlock, Resting, pool, Account, Confirmed
  <2>2. ASSUME NEW t \in forging'
        PROVE  t \in Tx /\ unconfirmed[t] \in Copy /\ Enough(t, unconfirmed[t])
    BY <2>1, ReadyEnough DEF In, IInv, Typed, Queue
  <2> QED
    BY <2>1, <2>2 DEF ForgingEnough, Enough
<1> QED
  BY <1>1, <1>2 DEF GenerateBlock, IInv, GroupAgreed

LEMMA BlockGeneratedKeeps ==
  ASSUME IInv, BlockGenerated
  PROVE  IInv'
<1>1. CASE \A t \in forging : Verifies(t, unconfirmed[t], Account)
  <2>1. /\ Confirms(forging, unconfirmed)
        /\ forging \subseteq Tx
        /\ \A t \in forging : unconfirmed[t] \in Copy /\ Enough(t, unconfirmed[t])
    BY <1>1 DEF BlockGenerated, IInv, ForgingEnough
  <2>2. /\ GroupAgreed'
        /\ queued' \in Queue /\ multisignature' \in Queue /\ unconfirmed' \in Queue
    BY <1>1, <2>1, ConfirmsAgreed
  <2>3. Typed'
    BY <2>2 DEF BlockGenerated, IInv, Typed, VerifiedTyped, turn
  <2> QED
    BY <2>2, <2>3 DEF BlockGenerated, IInv, ForgingEnough
<1>2. CASE ~\A t \in forging : Verifies(t, unconfirmed[t], Account)
  <2>1. UNCHANGED <<queued, multisignature, unconfirmed, agreed, bundled, turn, bundler, checking>>
        /\ forging' = None
    BY <1>2 DEF BlockGenerated
  <2>2. Typed'
    BY <2>1 DEF IInv, Typed, VerifiedTyped, turn
  <2> QED
    BY <2>1, <2>2 DEF IInv, ForgingEnough, GroupAgreed
<1> QED
  BY <1>1, <1>2

LEMMA ApplyBlockKeeps ==
  ASSUME IInv, NEW t \in Tx, NEW copy \in BlockCopies, ApplyBlock(t, copy)
  PROVE  IInv'
<1> DEFINE copies == [u \in {t} |-> copy]
<1>1. /\ Verifies(t, copy, Account) /\ Ready(t, copy, Account)
      /\ Confirms({t}, copies)
      /\ forging = None
      /\ UNCHANGED <<bundled, turn, bundler, checking, forging>>
  BY DEF ApplyBlock, ReceiveBlock, Resting
<1>2. copy \in Copy
  BY SentCopies
<1>3. Enough(t, copy)
  BY <1>1, <1>2, ReadyEnough
<1>4. \A u \in {t} : copies[u] \in Copy /\ Enough(u, copies[u]) /\ Verifies(u, copies[u], Account)
  BY <1>1, <1>2, <1>3
<1> HIDE DEF copies
<1>5. /\ GroupAgreed'
      /\ queued' \in Queue /\ multisignature' \in Queue /\ unconfirmed' \in Queue
  BY <1>1, <1>4, ConfirmsAgreed
<1>6. Typed'
  BY <1>1, <1>5 DEF IInv, Typed, VerifiedTyped, turn
<1> QED
  BY <1>1, <1>5, <1>6 DEF IInv, ForgingEnough

LEMMA DeleteKeeps ==
  ASSUME IInv, DeleteLastBlock
  PROVE  IInv'
<1>1. Typed'
  BY DEF DeleteLastBlock, IInv, Typed, VerifiedTyped, turn, pool
<1> QED
  BY <1>1 DEF DeleteLastBlock, Resting, IInv, ForgingEnough, GroupAgreed

LEMMA ExpireKeeps ==
  ASSUME IInv, NEW t \in Tx, Expire(t)
  PROVE  IInv'
<1>1. /\ unconfirmed' = Drop(unconfirmed, {t}) /\ queued' = Drop(queued, {t})
      /\ multisignature' = Drop(multisignature, {t})
      /\ forging # None => t \notin forging
      /\ UNCHANGED <<chain, bundled, turn, bundler, checking, worker, forging, agreed>>
  BY DEF Expire
<1>2. Typed'
  BY <1>1, DroppedQueue DEF IInv, Typed, VerifiedTyped, turn
<1>3. \A u \in Tx \ {t} : unconfirmed'[u] = unconfirmed[u]
  BY <1>1, DroppedQueue DEF IInv, Typed
<1>4. ForgingEnough'
  BY <1>1, <1>3 DEF IInv, ForgingEnough, Enough, Account, Confirmed
<1> QED
  BY <1>1, <1>2, <1>4 DEF IInv, GroupAgreed

-----------------------------------------------------------------------------
LEMMA StepIInv == IInv /\ [Step]_vars => IInv'
<1> SUFFICES ASSUME IInv, [Step]_vars PROVE IInv'
  OBVIOUS
<1>1. CASE AddTransactions \/ AddSignature \/ AddMultisignature
  BY <1>1, SubmitKeeps DEF AddTransactions, AddSignature, AddMultisignature, Tx
<1>2. ASSUME NEW t \in Tx, NEW copy \in PeerCopies,
             PostTransaction(t, copy) \/ PostTransactions(t, copy) \/ LoadTransactions(t, copy)
      PROVE  IInv'
  BY <1>2, ReceiveKeeps DEF PostTransaction, PostTransactions, LoadTransactions
<1>3. ASSUME NEW t \in Tx, NEW copy \in BlockCopies, ApplyBlock(t, copy) PROVE IInv'
  BY <1>3, ApplyBlockKeeps
<1>4. ASSUME NEW t \in Tx, NEW k \in Members,
             SignCalled(t, k) \/ LoadSignature(t, k) \/ PostSignature(t, k)
      PROVE  IInv'
  BY <1>4, SignCalledKeeps, CheckSignatureKeeps DEF LoadSignature, PostSignature
<1>5. ASSUME NEW t \in Tx, BundledNext(t) PROVE IInv'
  BY <1>5, BundledKeeps
<1>6. ASSUME NEW t \in Tx, Expire(t) PROVE IInv'
  BY <1>6, ExpireKeeps
<1>7. ASSUME NEW i \in DOMAIN checking, SignatureChecked(i) PROVE IInv'
  BY <1>7, SignatureCheckedKeeps
<1>8. CASE CreateTransaction \/ CreateSignature \/ CreateMultisignature
  BY <1>8, CreateKeeps DEF CreateTransaction, CreateSignature, CreateMultisignature, Tx
<1>9. CASE ReceiveKnown \/ ReceiveTransaction \/ ReceiveBundledTransaction \/ Received
  BY <1>9, ReceiveTasksKeep
<1>10. CASE Sign \/ StoreBegins \/ StoreSignature
  BY <1>10, SignKeeps, StoreBeginsKeeps, StoreSignatureKeeps
<1>11. CASE BundledVerified
  BY <1>11, BundledKeeps
<1>12. CASE FillPool \/ ApplyNext
  BY <1>12, FillPoolKeeps, ApplyNextKeeps
<1>13. CASE GenerateBlock \/ BlockGenerated \/ DeleteLastBlock
  BY <1>13, GenerateBlockKeeps, BlockGeneratedKeeps, DeleteKeeps
<1>14. CASE UNCHANGED vars
  <2>1. Typed'
    BY <1>14 DEF vars, pool, turn, IInv, Typed, VerifiedTyped
  <2> QED
    BY <1>14, <2>1, Keeps DEF vars, pool
<1> QED
  BY <1>1, <1>2, <1>3, <1>4, <1>5, <1>6, <1>7, <1>8, <1>9, <1>10, <1>11, <1>12, <1>13, <1>14
     DEF Step

-----------------------------------------------------------------------------
(* The variables that the invariant above does not need *)

LEMMA SetSequence ==
  ASSUME NEW S, S \subseteq Tx
  PROVE  SetToSeq(S) \in Seq(S) /\ IsInjective(SetToSeq(S)) /\ ToSet(SetToSeq(S)) = S
<1>1. IsFiniteSet(S)
  <2>1. Tx = (({} \cup {"reg"}) \cup {"sec"}) \cup {"pay"}
    BY DEF Tx
  <2>2. IsFiniteSet(Tx)
    BY <2>1, FS_EmptySet, FS_AddElement, Zenon
  <2> QED
    BY <2>2, FS_Subset
<1> DEFINE n == Cardinality(S)
           f == SetToSeq(S)
<1>2. n \in Nat /\ ExistsBijection(1..n, S)
  BY <1>1, FS_CardinalityType
<1>3. \E g \in [1..n -> S] : IsInjective(g)
  BY <1>2 DEF ExistsBijection, Bijection, Injection, IsInjective
<1>4. f \in [1..n -> S] /\ IsInjective(f)
  BY <1>3 DEF SetToSeq
<1> HIDE DEF f
<1>5. f \in Injection(1..n, S)
  BY <1>4 DEF Injection, IsInjective
<1>6. Cardinality(1..n) = n
  BY <1>2, FS_Interval
<1>7. f \in Surjection(1..n, S)
  BY <1>1, <1>5, <1>6, FS_Injection
<1>8. f \in Seq(S) /\ DOMAIN f = 1..n
  BY <1>2, <1>4
<1>9. ToSet(f) = S
  BY <1>7, <1>8 DEF ToSet, Surjection
<1> QED
  BY <1>4, <1>8, <1>9 DEF f

RestTyped ==
  /\ chain \in Seq(SUBSET Tx)
  /\ applied \in [Tx -> Int]
  /\ storing \in BOOLEAN
  /\ worker \in Seq(Tx)
  /\ forging \in (SUBSET Tx) \cup {None}
  /\ mishaps \in [Kinds -> SUBSET Tx]

\* What has happened is not forgotten.
Remembers ==
  /\ mishaps' \in [Kinds -> SUBSET Tx]
  /\ \A kind \in Kinds : mishaps[kind] \subseteq mishaps'[kind]

LEMMA HappensRemembered ==
  ASSUME RestTyped, NEW kind \in Kinds, NEW S, S \subseteq Tx, Happens(kind, S)
  PROVE  Remembers /\ S \subseteq mishaps'[kind]
  BY DEF RestTyped, Remembers, Happens

LEMMA SameRemembered ==
  ASSUME RestTyped, UNCHANGED mishaps
  PROVE  Remembers
  BY DEF RestTyped, Remembers

LEMMA ExceptsRemembered ==
  ASSUME Remembers, NEW kinds, kinds \subseteq Kinds, NEW t, Excepts(kinds, t)
  PROVE  Excepts(kinds, t)'
  BY DEF Remembers, Excepts

LEMMA UnderWayTyped ==
  ASSUME Typed
  PROVE  UnderWay \subseteq Tx
<1>1. \A i \in DOMAIN line : line[i].t \in Tx
  BY DEF Typed, Tasks
<1>2. \A v \in {receiver, bundler} \ {None} : v.t \in Tx
  BY DEF Typed, VerifiedTyped, Verification
<1>3. {line[i].t : i \in {j \in DOMAIN line : line[j].do = "store"}} \subseteq Tx
  BY <1>1
<1>4. {v.t : v \in {receiver, bundler} \ {None}} \subseteq Tx
  BY <1>2
<1>5. In(queued) \cup In(multisignature) \cup In(unconfirmed) \subseteq Tx
  BY DEF In
<1> QED
  BY <1>3, <1>4, <1>5 DEF UnderWay

LEMMA StepRemembers ==
  ASSUME IInv, RestTyped, [Step]_vars
  PROVE  Remembers
<1>0. Typed
  BY DEF IInv
<1> USE DEF Kinds
<1>1. CASE AddTransactions \/ AddSignature \/ AddMultisignature
  BY <1>1, SameRemembered DEF AddTransactions, AddSignature, AddMultisignature, Submit
<1>2. ASSUME NEW t \in Tx, NEW copy \in PeerCopies,
             PostTransaction(t, copy) \/ PostTransactions(t, copy) \/ LoadTransactions(t, copy)
      PROVE  Remembers
  <2>1. PICK elsewhere \in SUBSET Tx, believed \in SUBSET Tx :
          mishaps' = [mishaps EXCEPT !["elsewhere"] = @ \cup elsewhere,
                                     !["believed"] = @ \cup believed]
    BY <1>2 DEF PostTransaction, PostTransactions, LoadTransactions, Receive
  <2> QED
    BY <2>1 DEF RestTyped, Remembers
<1>3. ASSUME NEW S, S \subseteq Tx, NEW copies, Confirms(S, copies) PROVE Remembers
  BY <1>0, <1>3, SameRemembered, HappensRemembered, UnderWayTyped DEF Confirms
<1>4. ASSUME NEW t \in Tx, NEW copy \in BlockCopies, ApplyBlock(t, copy) PROVE Remembers
  BY <1>3, <1>4 DEF ApplyBlock, ReceiveBlock
<1>5. ASSUME NEW t \in Tx, NEW k \in Members,
             SignCalled(t, k) \/ LoadSignature(t, k) \/ PostSignature(t, k)
      PROVE  Remembers
  BY <1>5, SameRemembered, HappensRemembered
     DEF SignCalled, LoadSignature, PostSignature, CheckSignature, Stores
<1>6. ASSUME NEW t \in Tx, BundledNext(t) PROVE Remembers
  BY <1>6, SameRemembered DEF BundledNext
<1>7. ASSUME NEW t \in Tx, Expire(t) PROVE Remembers
  BY <1>7, HappensRemembered DEF Expire
<1>8. ASSUME NEW i \in DOMAIN checking, SignatureChecked(i) PROVE Remembers
  <2>1. checking[i][1] \in Tx
    BY <1>0 DEF Typed
  <2> QED
    BY <1>8, <2>1, SameRemembered, HappensRemembered DEF SignatureChecked, Stores
<1>9. CASE CreateTransaction \/ CreateSignature \/ CreateMultisignature
  BY <1>9, SameRemembered DEF CreateTransaction, CreateSignature, CreateMultisignature, Create
<1>10. CASE ReceiveKnown \/ Sign \/ StoreBegins \/ StoreSignature
  BY <1>10, SameRemembered DEF ReceiveKnown, Sign, StoreBegins, StoreSignature
<1>11. CASE ReceiveTransaction \/ ReceiveBundledTransaction
  <2>1. Head(line).t \in Tx /\ Again(Head(line).t)
    BY <1>0, <1>11, HeadTask DEF ReceiveTransaction, ReceiveBundledTransaction, Starts
  <2> QED
    BY <2>1, SameRemembered, HappensRemembered DEF Again
<1>12. ASSUME NEW v \in Verification, QueueVerified(v) PROVE Remembers
  BY <1>12, SameRemembered, HappensRemembered DEF QueueVerified, Verification
<1>13. CASE Received \/ BundledVerified
  BY <1>0, <1>12, <1>13 DEF Received, BundledVerified, Typed, VerifiedTyped
<1>14. CASE FillPool \/ ApplyNext \/ GenerateBlock
  BY <1>14, SameRemembered DEF FillPool, ApplyNext, GenerateBlock
<1>15. CASE BlockGenerated
  BY <1>3, <1>15, SameRemembered DEF BlockGenerated, IInv, ForgingEnough
<1>16. CASE DeleteLastBlock
  BY <1>0, <1>16, SameRemembered, HappensRemembered, UnderWayTyped DEF DeleteLastBlock
<1>17. CASE UNCHANGED vars
  BY <1>17, SameRemembered DEF vars
<1> QED
  BY <1>1, <1>2, <1>4, <1>5, <1>6, <1>7, <1>8, <1>9, <1>10, <1>11, <1>13, <1>14, <1>15,
     <1>16, <1>17 DEF Step

LEMMA ConfirmsTyped ==
  ASSUME RestTyped, NEW S, S \subseteq Tx, NEW copies, Confirms(S, copies)
  PROVE  chain' \in Seq(SUBSET Tx) /\ applied' \in [Tx -> Int] /\ worker' \in Seq(Tx)
<1>1. chain' \in Seq(SUBSET Tx)
  BY DEF Confirms, RestTyped
<1>2. applied' \in [Tx -> Int]
  BY DEF Confirms, RestTyped
<1>3. In(unconfirmed) \subseteq Tx
  BY DEF In
<1> QED
  BY <1>1, <1>2, <1>3, SetSequence DEF Confirms

LEMMA FrontTyped ==
  ASSUME NEW S, NEW s \in Seq(S), s # <<>>
  PROVE  Front(s) \in Seq(S) /\ ToSet(Front(s)) \subseteq ToSet(s)
         /\ ToSet(s) = ToSet(Front(s)) \cup {Last(s)}
<1> DEFINE n == Len(s)
<1>1. n \in Nat \ {0} /\ \A i \in 1..n : s[i] \in S
  OBVIOUS
<1>2. Front(s) = SubSeq(s, 1, n - 1)
  BY DEF Front
<1>3. Front(s) \in Seq(S)
  BY <1>1, <1>2, PartTyped
<1>4. Len(Front(s)) = n - 1 /\ \A i \in 1..n - 1 : Front(s)[i] = s[i]
  <2>1. n \in Nat /\ n = Len(s) /\ n > 0
    BY <1>1
  <2> HIDE DEF n
  <2> QED
    BY <1>2, <2>1
<1>5. ToSet(Front(s)) = {s[i] : i \in 1..n - 1}
  BY <1>3, <1>4 DEF ToSet
<1>6. ToSet(s) = {s[i] : i \in 1..n}
  BY DEF ToSet
<1>7. Last(s) = s[n]
  BY DEF Last
<1>8. 1..n = (1..n - 1) \cup {n}
  BY <1>1
<1> HIDE DEF n
<1> QED
  BY <1>3, <1>5, <1>6, <1>7, <1>8

LEMMA RestStep ==
  ASSUME IInv, RestTyped, [Step]_vars
  PROVE  RestTyped'
<1>0. mishaps' \in [Kinds -> SUBSET Tx]
  BY StepRemembers DEF Remembers
<1>1. CASE AddTransactions \/ AddSignature \/ AddMultisignature
  BY <1>0, <1>1 DEF AddTransactions, AddSignature, AddMultisignature, Submit, RestTyped
<1>2. ASSUME NEW t \in Tx, NEW copy \in PeerCopies,
             PostTransaction(t, copy) \/ PostTransactions(t, copy) \/ LoadTransactions(t, copy)
      PROVE  RestTyped'
  BY <1>0, <1>2 DEF PostTransaction, PostTransactions, LoadTransactions, Receive, RestTyped
<1>3. ASSUME NEW t \in Tx, NEW copy \in BlockCopies, ApplyBlock(t, copy) PROVE RestTyped'
  <2>1. {t} \subseteq Tx
    OBVIOUS
  <2> QED
    BY <1>0, <1>3, <2>1, ConfirmsTyped DEF ApplyBlock, ReceiveBlock, turn, RestTyped
<1>4. ASSUME NEW t \in Tx, NEW k \in Members,
             SignCalled(t, k) \/ LoadSignature(t, k) \/ PostSignature(t, k)
      PROVE  RestTyped'
  BY <1>0, <1>4 DEF SignCalled, LoadSignature, PostSignature, CheckSignature, RestTyped
<1>5. ASSUME NEW t \in Tx, BundledNext(t) \/ Expire(t) PROVE RestTyped'
  BY <1>0, <1>5 DEF BundledNext, Expire, turn, RestTyped
<1>6. ASSUME NEW i \in DOMAIN checking, SignatureChecked(i) PROVE RestTyped'
  BY <1>0, <1>6 DEF SignatureChecked, RestTyped
<1>7. CASE CreateTransaction \/ CreateSignature \/ CreateMultisignature
  BY <1>0, <1>7 DEF CreateTransaction, CreateSignature, CreateMultisignature, Create, Ends,
                    RestTyped
<1>8. CASE ReceiveKnown \/ Sign \/ StoreBegins \/ StoreSignature
  BY <1>0, <1>8 DEF ReceiveKnown, Sign, StoreBegins, StoreSignature, Ends, RestTyped
<1>9. CASE ReceiveTransaction \/ ReceiveBundledTransaction \/ Received \/ BundledVerified
  BY <1>0, <1>9 DEF ReceiveTransaction, ReceiveBundledTransaction, Received, BundledVerified,
                    Ends, turn, RestTyped
<1>10. CASE FillPool
  <2>1. worker' \in Seq(Tx)
    <3>1. SetToSeq(Complete) \in Seq(Tx) /\ SetToSeq(In(queued) \ Complete) \in Seq(Tx)
      <4>1. Complete \subseteq Tx /\ In(queued) \ Complete \subseteq Tx
        BY DEF Complete, In
      <4>2. SetToSeq(Complete) \in Seq(Complete)
            /\ SetToSeq(In(queued) \ Complete) \in Seq(In(queued) \ Complete)
        BY <4>1, SetSequence
      <4> QED
        BY <4>1, <4>2
    <3> QED
      BY <1>10, <3>1 DEF FillPool
  <2> QED
    BY <1>0, <1>10, <2>1 DEF FillPool, turn, RestTyped
<1>11. CASE ApplyNext
  <2>1. worker # <<>> /\ worker' = Tail(worker)
    BY <1>11 DEF ApplyNext
  <2>2. worker' \in Seq(Tx) /\ Head(worker) \in Tx
    BY <2>1 DEF RestTyped
  <2>3. applied' = applied \/ applied' = [applied EXCEPT ![Head(worker)] = @ + 1]
    BY <1>11 DEF ApplyNext
  <2>4. applied' \in [Tx -> Int]
    BY <2>2, <2>3 DEF RestTyped
  <2> QED
    BY <1>0, <1>11, <2>2, <2>4 DEF ApplyNext, turn, RestTyped
<1>12. CASE GenerateBlock
  BY <1>0, <1>12 DEF GenerateBlock, turn, RestTyped, In
<1>13. CASE BlockGenerated
  <2>1. forging \subseteq Tx
    BY <1>13 DEF BlockGenerated, IInv, ForgingEnough
  <2>2. chain' \in Seq(SUBSET Tx) /\ applied' \in [Tx -> Int] /\ worker' \in Seq(Tx)
    <3>1. CASE Confirms(forging, unconfirmed)
      BY <2>1, <3>1, ConfirmsTyped
    <3>2. CASE UNCHANGED <<chain, applied, worker>>
      BY <3>2 DEF RestTyped
    <3> QED
      BY <1>13, <3>1, <3>2 DEF BlockGenerated
  <2> QED
    BY <1>0, <1>13, <2>2 DEF BlockGenerated, turn, RestTyped
<1>14. CASE DeleteLastBlock
  BY <1>0, <1>14, FrontTyped DEF DeleteLastBlock, turn, RestTyped
<1>15. CASE UNCHANGED vars
  BY <1>0, <1>15 DEF vars, turn, RestTyped
<1> QED
  BY <1>1, <1>2, <1>3, <1>4, <1>5, <1>6, <1>7, <1>8, <1>9, <1>10, <1>11, <1>12, <1>13, <1>14,
     <1>15 DEF Step

-----------------------------------------------------------------------------
(* What the steps do to the queues *)

\* A verified transaction goes to the queue of its kind, unless there is one.
LEMMA VerifiedEffect ==
  ASSUME Typed, NEW v \in Verification, QueueVerified(v)
  PROVE  /\ \A u \in Tx \ {v.t} : queued'[u] = queued[u] /\ multisignature'[u] = multisignature[u]
         /\ \/ queued'[v.t] = queued[v.t] /\ multisignature'[v.t] = multisignature[v.t]
            \/ /\ Verifies(v.t, v.copy, v.sender) /\ (v.t = "reg" \/ v.copy.array)
               /\ queued'[v.t] = queued[v.t]
               /\ multisignature[v.t] = None /\ multisignature'[v.t] = v.copy
            \/ /\ Verifies(v.t, v.copy, v.sender) /\ v.t # "reg" /\ ~v.copy.array
               /\ multisignature'[v.t] = multisignature[v.t]
               /\ queued[v.t] = None /\ queued'[v.t] = v.copy
<1>1. queued \in Queue /\ multisignature \in Queue /\ v.t \in Tx
  BY DEF Typed, Verification
<1>2. CASE ~Verifies(v.t, v.copy, v.sender)
  BY <1>2 DEF QueueVerified
<1>3. CASE Verifies(v.t, v.copy, v.sender)
  <2>1. QueueTransaction(v.t, v.copy)
    BY <1>3 DEF QueueVerified
  <2>2. CASE v.t = "reg" \/ v.copy.array
    <3>1. multisignature' = Put(multisignature, v.t, v.copy) /\ queued' = queued
      BY <2>1, <2>2 DEF QueueTransaction
    <3> QED
      BY <1>1, <1>3, <2>2, <3>1 DEF Put, Queue
  <2>3. CASE ~(v.t = "reg" \/ v.copy.array)
    <3>1. queued' = Put(queued, v.t, v.copy) /\ multisignature' = multisignature
      BY <2>1, <2>3 DEF QueueTransaction
    <3> QED
      BY <1>1, <1>3, <2>3, <3>1 DEF Put, Queue
  <2> QED
    BY <2>2, <2>3
<1> QED
  BY <1>2, <1>3

LEMMA FillEffect ==
  ASSUME Typed, FillPool, NEW t \in Tx
  PROVE  /\ queued'[t] = None
         /\ t \in Complete => multisignature[t] # None /\ multisignature'[t] = None
         /\ t \notin Complete => multisignature'[t] = multisignature[t]
         /\ \/ unconfirmed'[t] = unconfirmed[t] /\ unconfirmed[t] # None
            \/ t \in Complete /\ unconfirmed[t] = None /\ unconfirmed'[t] = multisignature[t]
            \/ t \notin Complete /\ unconfirmed[t] = None /\ unconfirmed'[t] = queued[t]
<1>1. queued'[t] = None
  BY DEF FillPool, Drop, In
<1>2. /\ t \in Complete => multisignature[t] # None /\ multisignature'[t] = None
      /\ t \notin Complete => multisignature'[t] = multisignature[t]
  BY DEF FillPool, Drop, In, Complete
<1>3. unconfirmed'[t] = IF unconfirmed[t] # None THEN unconfirmed[t]
                        ELSE IF t \in Complete THEN multisignature[t] ELSE queued[t]
  BY DEF FillPool
<1>4. CASE unconfirmed[t] # None
  <2>1. unconfirmed'[t] = unconfirmed[t]
    BY <1>3, <1>4
  <2> QED
    BY <1>1, <1>2, <1>4, <2>1
<1>5. CASE unconfirmed[t] = None /\ t \in Complete
  <2>1. unconfirmed'[t] = multisignature[t]
    BY <1>3, <1>5
  <2> QED
    BY <1>1, <1>2, <1>5, <2>1
<1>6. CASE unconfirmed[t] = None /\ t \notin Complete
  <2>1. unconfirmed'[t] = queued[t]
    BY <1>3, <1>6
  <2> QED
    BY <1>1, <1>2, <1>6, <2>1
<1> QED
  BY <1>4, <1>5, <1>6

\* The one that is applied, or removed; the others stay.
LEMMA ApplyEffect ==
  ASSUME Typed, RestTyped, ApplyNext, NEW t, t = Head(worker)
  PROVE  /\ t \in Tx /\ worker # <<>> /\ worker' = Tail(worker)
         /\ \A u \in Tx \ {t} : /\ unconfirmed'[u] = unconfirmed[u] /\ queued'[u] = queued[u]
                              /\ multisignature'[u] = multisignature[u]
                              /\ applied'[u] = applied[u]
         /\ \/ /\ unconfirmed[t] = None /\ unconfirmed'[t] = None /\ queued'[t] = queued[t]
               /\ multisignature'[t] = multisignature[t] /\ applied'[t] = applied[t]
            \/ /\ unconfirmed[t] \in Copy
               /\ unconfirmed'[t] = Begins(t, unconfirmed[t]).copy
               /\ Verifies(t, unconfirmed'[t], Account)
               /\ queued'[t] = queued[t] /\ multisignature'[t] = multisignature[t]
               /\ applied'[t] = applied[t] + 1
            \/ /\ unconfirmed'[t] = None /\ queued'[t] = None /\ multisignature'[t] = None
               /\ applied'[t] = applied[t]
<1>1. t \in Tx /\ worker # <<>> /\ worker' = Tail(worker)
  BY DEF ApplyNext, RestTyped
<1> DEFINE v == Begins(t, unconfirmed[t])
<1>2. \/ /\ unconfirmed[t] = None
         /\ UNCHANGED <<unconfirmed, queued, multisignature, applied>>
      \/ /\ unconfirmed[t] # None /\ Verifies(t, v.copy, v.sender)
         /\ unconfirmed' = [unconfirmed EXCEPT ![t] = v.copy]
         /\ applied' = [applied EXCEPT ![t] = applied[t] + 1]
         /\ UNCHANGED <<queued, multisignature>>
      \/ /\ unconfirmed' = Drop(unconfirmed, {t}) /\ queued' = Drop(queued, {t})
         /\ multisignature' = Drop(multisignature, {t})
         /\ UNCHANGED applied
  BY DEF ApplyNext
<1>3. /\ unconfirmed \in Queue /\ queued \in Queue /\ multisignature \in Queue
      /\ applied \in [Tx -> Int]
  BY DEF Typed, RestTyped
<1>4. unconfirmed[t] # None => unconfirmed[t] \in Copy /\ v.sender = Account
  BY <1>1, <1>3, BegunCopy DEF Queue
<1> HIDE DEF v
<1>5. CASE /\ unconfirmed[t] = None
           /\ UNCHANGED <<unconfirmed, queued, multisignature, applied>>
  BY <1>1, <1>5
<1>6. CASE /\ unconfirmed[t] # None /\ Verifies(t, v.copy, v.sender)
           /\ unconfirmed' = [unconfirmed EXCEPT ![t] = v.copy]
           /\ applied' = [applied EXCEPT ![t] = applied[t] + 1]
           /\ UNCHANGED <<queued, multisignature>>
  <2>1. unconfirmed'[t] = v.copy /\ \A u \in Tx \ {t} : unconfirmed'[u] = unconfirmed[u]
    BY <1>1, <1>3, <1>6 DEF Queue
  <2>2. applied'[t] = applied[t] + 1 /\ \A u \in Tx \ {t} : applied'[u] = applied[u]
    BY <1>1, <1>3, <1>6
  <2> QED
    BY <1>1, <1>4, <1>6, <2>1, <2>2 DEF v
<1>7. CASE /\ unconfirmed' = Drop(unconfirmed, {t}) /\ queued' = Drop(queued, {t})
           /\ multisignature' = Drop(multisignature, {t})
           /\ UNCHANGED applied
  BY <1>1, <1>7 DEF Drop
<1> QED
  BY <1>2, <1>5, <1>6, <1>7

\* The signature goes to the copy that waits for signatures, else to the other.
LEMMA StoreEffect ==
  ASSUME Typed, StoreSignature, NEW t, t = Head(line).t, NEW k, k = Head(line).of
  PROVE  /\ line # <<>> /\ Head(line).do = "store" /\ t \in Tx /\ k \in Members /\ Ends
         /\ \A u \in Tx \ {t} : /\ multisignature'[u] = multisignature[u]
                              /\ unconfirmed'[u] = unconfirmed[u]
         /\ \/ /\ multisignature[t] \in Copy /\ multisignature[t] # None
               /\ multisignature'[t] = Signed(t, multisignature[t], k)
               /\ unconfirmed'[t] = unconfirmed[t]
            \/ /\ multisignature[t] = None /\ multisignature'[t] = None
               /\ unconfirmed[t] \in Copy /\ unconfirmed[t] # None
               /\ unconfirmed'[t] = Signed(t, unconfirmed[t], k)
            \/ /\ multisignature[t] = None /\ multisignature'[t] = None
               /\ unconfirmed[t] = None /\ unconfirmed'[t] = None
<1>1. line # <<>> /\ Head(line).do = "store" /\ Ends
  BY DEF StoreSignature, Typed
<1>2. t \in Tx /\ k \in Members
  BY <1>1, HeadTask
<1> DEFINE signed(q) == IF q[t] = None THEN q ELSE [q EXCEPT ![t] = Signed(t, @, k)]
<1>3. /\ multisignature' = signed(multisignature)
      /\ unconfirmed' = IF multisignature[t] = None THEN signed(unconfirmed) ELSE unconfirmed
  BY DEF StoreSignature
<1>4. ASSUME NEW q \in Queue
      PROVE  /\ \A u \in Tx \ {t} : signed(q)[u] = q[u]
             /\ q[t] = None => signed(q)[t] = None
             /\ q[t] # None => q[t] \in Copy /\ signed(q)[t] = Signed(t, q[t], k)
  BY <1>2 DEF Queue
<1>5. multisignature \in Queue /\ unconfirmed \in Queue
  BY DEF Typed
<1> HIDE DEF signed
<1>6. CASE multisignature[t] = None
  BY <1>1, <1>2, <1>3, <1>4, <1>5, <1>6
<1>7. CASE multisignature[t] # None
  BY <1>1, <1>2, <1>3, <1>4, <1>5, <1>7
<1> QED
  BY <1>6, <1>7

-----------------------------------------------------------------------------
(* Where a transaction is *)

Receiving(t) == receiver # None /\ receiver.t = t

\* At one place only, on its way from being received to the unconfirmed queue
Alone(t) ==
  /\ Receiving(t) => /\ ~Verifying(t) /\ bundled[t] = None /\ queued[t] = None
                     /\ multisignature[t] = None /\ unconfirmed[t] = None
  /\ Verifying(t) => /\ bundled[t] = None /\ queued[t] = None
                     /\ multisignature[t] = None /\ unconfirmed[t] = None
  /\ bundled[t] # None => /\ queued[t] = None /\ multisignature[t] = None
                         /\ unconfirmed[t] = None
  /\ queued[t] # None => multisignature[t] = None /\ unconfirmed[t] = None
  /\ multisignature[t] # None => unconfirmed[t] = None

OnePlace == \A t \in Tx : Alone(t) \/ Excepts({"again"}, t)

\* What is anywhere exists: a new transaction is none of them.
Exists ==
  /\ \A t \in Tx : Receiving(t) \/ Verifying(t) \/ t \in Pooled => t \in offered
  /\ \A i \in DOMAIN line : line[i].do \in {"receive", "bundle"} => line[i].t \in offered

\* No transaction is where it was not.
Stays(t) ==
  /\ Receiving(t)' => Receiving(t)
  /\ Verifying(t)' => Verifying(t)
  /\ bundled'[t] # None => bundled[t] # None
  /\ queued'[t] # None => queued[t] # None
  /\ multisignature'[t] # None => multisignature[t] # None
  /\ unconfirmed'[t] # None => unconfirmed[t] # None

LEMMA AloneStays ==
  ASSUME NEW t \in Tx, Alone(t), Stays(t)
  PROVE  Alone(t)'
  BY DEF Alone, Stays

\* One that is received is put nowhere else while it is received.
LEMMA NowhereAlone ==
  ASSUME NEW t \in Tx, t \notin Pooled, ~Verifying(t), UNCHANGED <<pool, bundler>>
  PROVE  Alone(t)'
  BY DEF Alone, Pooled, In, Verifying, pool

LEMMA CopyIsSome == None \notin Copy
  BY SignaturesAssumption DEF Copy

\* None of the steps that move no transaction
LEMMA StaysThere ==
  ASSUME Typed, RestTyped, NEW u \in Tx,
         \/ UNCHANGED <<pool, bundler>> /\ (receiver' = None \/ UNCHANGED receiver)
         \/ Sign \/ StoreSignature \/ ApplyNext \/ DeleteLastBlock
         \/ \E t \in Tx : Expire(t)
         \/ \E t \in Tx, copy \in BlockCopies : ApplyBlock(t, copy)
         \/ BlockGenerated
  PROVE  Stays(u)
<1>1. CASE UNCHANGED <<pool, bundler>> /\ (receiver' = None \/ UNCHANGED receiver)
  BY <1>1 DEF Stays, pool, Receiving, Verifying
<1>2. CASE Sign
  <2>1. line # <<>> /\ Head(line).do = "sign" /\ Ends
    BY <1>2 DEF Sign, Starts
  <2>2. multisignature'[u] # None => multisignature[u] # None
    <3> DEFINE t == Head(line).t
    <3>1. t \in Tx
      BY <2>1, HeadTask
    <3>2. \/ multisignature' = multisignature
          \/ /\ multisignature[t] # None
             /\ multisignature' = [multisignature EXCEPT ![t] = Signed(t, @, Head(line).of)]
      BY <1>2 DEF Sign
    <3>3. multisignature \in Queue
      BY DEF Typed
    <3> HIDE DEF t
    <3> QED
      BY <3>1, <3>2, <3>3 DEF Queue
  <2> QED
    BY <1>2, <2>1, <2>2 DEF Sign, Stays, Ends, Receiving, Verifying
<1>3. CASE StoreSignature
  <2>1. UNCHANGED <<bundled, queued, bundler>> /\ receiver' = None
    BY <1>3 DEF StoreSignature, Ends
  <2>2. /\ multisignature'[u] # None => multisignature[u] # None
        /\ unconfirmed'[u] # None => unconfirmed[u] # None
    BY <1>3, StoreEffect
  <2> QED
    BY <2>1, <2>2 DEF Stays, Receiving, Verifying
<1>4. CASE ApplyNext
  <2>1. UNCHANGED <<bundled, turn, bundler>>
    BY <1>4 DEF ApplyNext
  <2>2. /\ multisignature'[u] # None => multisignature[u] # None
        /\ queued'[u] # None => queued[u] # None
        /\ unconfirmed'[u] # None => unconfirmed[u] # None
    BY <1>4, CopyIsSome, ApplyEffect
  <2> QED
    BY <2>1, <2>2 DEF Stays, Receiving, Verifying, turn
<1>5. CASE DeleteLastBlock
  BY <1>5 DEF DeleteLastBlock, Stays, Receiving, Verifying, turn, pool
<1>6. CASE \E t \in Tx : Expire(t)
  BY <1>6 DEF Expire, Drop, Stays, Receiving, Verifying, turn
<1>7. ASSUME NEW S, NEW copies, Confirms(S, copies), UNCHANGED <<bundled, turn, bundler>>
      PROVE  Stays(u)
  BY <1>7 DEF Confirms, Drop, Stays, Receiving, Verifying, turn
<1>8. CASE \E t \in Tx, copy \in BlockCopies : ApplyBlock(t, copy)
  BY <1>7, <1>8 DEF ApplyBlock, ReceiveBlock
<1>9. CASE BlockGenerated
  <2>1. CASE Confirms(forging, unconfirmed)
    BY <1>7, <1>9, <2>1 DEF BlockGenerated
  <2>2. CASE UNCHANGED <<queued, multisignature, unconfirmed>>
    BY <1>9, <2>2 DEF BlockGenerated, Stays, Receiving, Verifying, turn
  <2> QED
    BY <1>9, <2>1, <2>2 DEF BlockGenerated
<1> QED
  BY <1>1, <1>2, <1>3, <1>4, <1>5, <1>6, <1>8, <1>9

LEMMA OnePlaceStep ==
  ASSUME IInv, RestTyped, OnePlace, Exists, [Step]_vars
  PROVE  OnePlace'
<1> SUFFICES ASSUME NEW u \in Tx, ~Excepts({"again"}, u)' PROVE Alone(u)'
  BY DEF OnePlace
<1>0. Typed /\ ~Excepts({"again"}, u) /\ Alone(u)
  BY StepRemembers, ExceptsRemembered DEF IInv, Kinds, OnePlace
<1>1. CASE Stays(u)
  BY <1>0, <1>1, AloneStays
<1>2. CASE UNCHANGED <<pool, bundler>> /\ (receiver' = None \/ UNCHANGED receiver)
  BY <1>0, <1>1, <1>2, StaysThere
<1>3. ASSUME NEW t \in Tx, Create(t) PROVE Alone(u)'
  <2>1. CASE Ends
    BY <1>2, <1>3, <2>1 DEF Create, Ends
  <2>2. CASE t \notin offered /\ receiver' = Begins(t, Plain)
    <3>1. UNCHANGED <<pool, bundler>>
      BY <1>3 DEF Create
    <3>2. Receiving(u)' => u = t
      BY <2>2 DEF Receiving, Begins
    <3>3. t \notin Pooled /\ ~Verifying(t)
      BY <2>2 DEF Exists
    <3>4. u = t => Alone(u)'
      BY <3>1, <3>3, NowhereAlone
    <3>5. u # t => Stays(u)
      BY <3>1, <3>2 DEF Stays, Verifying, pool
    <3> QED
      BY <1>1, <3>4, <3>5
  <2> QED
    BY <1>3, <2>1, <2>2 DEF Create
<1>4. CASE ReceiveTransaction
  <2>1. receiver' = Begins(Head(line).t, Head(line).of) /\ Again(Head(line).t)
        /\ UNCHANGED <<pool, bundler>> /\ Head(line).t \in Tx
    BY <1>0, <1>4, HeadTask DEF ReceiveTransaction, Starts
  <2>2. Receiving(u)' => u = Head(line).t
    BY <2>1 DEF Receiving, Begins
  <2>3. CASE u = Head(line).t /\ (u \in Pooled \/ Verifying(u))
    <3>1. Happens("again", {u})
      BY <2>1, <2>3 DEF Again
    <3> QED
      BY <3>1 DEF Happens, Excepts, RestTyped, Kinds
  <2>4. CASE u = Head(line).t /\ u \notin Pooled /\ ~Verifying(u)
    BY <2>1, <2>4, NowhereAlone
  <2>5. CASE u # Head(line).t
    BY <1>1, <2>1, <2>2, <2>5 DEF Stays, Verifying, pool
  <2> QED
    BY <2>3, <2>4, <2>5
<1>5. CASE ReceiveBundledTransaction
  <2> DEFINE t == Head(line).t
  <2>1. /\ bundled' = Put(bundled, t, Head(line).of) /\ Again(t) /\ receiver' = None
        /\ UNCHANGED <<queued, multisignature, unconfirmed, bundler>> /\ t \in Tx
    BY <1>0, <1>5, HeadTask DEF ReceiveBundledTransaction, Starts, Ends
  <2>2. CASE u = t /\ (u \in Pooled \/ Verifying(u))
    <3>1. Happens("again", {u})
      BY <2>1, <2>2 DEF Again
    <3> QED
      BY <3>1 DEF Happens, Excepts, RestTyped, Kinds
  <2>3. CASE u = t /\ u \notin Pooled /\ ~Verifying(u)
    BY <2>1, <2>3 DEF Alone, Pooled, In, Verifying, Receiving
  <2>4. CASE u # t
    <3>1. bundled'[u] = bundled[u]
      BY <1>0, <2>1, <2>4 DEF Put, Typed, Bundle
    <3> QED
      BY <1>1, <2>1, <3>1 DEF Stays, Verifying, Receiving
  <2> QED
    BY <2>2, <2>3, <2>4
<1>6. CASE Received
  <2>1. receiver \in Verification /\ receiver # None /\ QueueVerified(receiver)
        /\ receiver' = None /\ UNCHANGED <<bundled, unconfirmed, bundler>>
    BY <1>0, <1>6 DEF Received, Ends, Typed, VerifiedTyped
  <2>2. CASE u = receiver.t
    <3>1. /\ ~Verifying(u) /\ bundled[u] = None /\ queued[u] = None
          /\ multisignature[u] = None /\ unconfirmed[u] = None
      BY <1>0, <2>1, <2>2 DEF Alone, Receiving
    <3>2. queued'[u] = None \/ multisignature'[u] = None
      BY <1>0, <2>1, <2>2, <3>1, VerifiedEffect
    <3> QED
      BY <2>1, <3>1, <3>2 DEF Alone, Receiving, Verifying
  <2>3. CASE u # receiver.t
    <3>1. queued'[u] = queued[u] /\ multisignature'[u] = multisignature[u]
      BY <1>0, <2>1, <2>3, VerifiedEffect
    <3> QED
      BY <1>1, <2>1, <3>1 DEF Stays, Verifying, Receiving
  <2> QED
    BY <2>2, <2>3
<1>7. CASE BundledVerified
  <2>1. bundler \in Verification /\ bundler # None /\ QueueVerified(bundler)
        /\ bundler' = None /\ UNCHANGED <<bundled, unconfirmed, receiver>>
    BY <1>0, <1>7 DEF BundledVerified, turn, Typed, VerifiedTyped
  <2>2. CASE u = bundler.t
    <3>1. /\ ~Receiving(u) /\ bundled[u] = None /\ queued[u] = None
          /\ multisignature[u] = None /\ unconfirmed[u] = None
      BY <1>0, <2>1, <2>2 DEF Alone, Verifying
    <3>2. queued'[u] = None \/ multisignature'[u] = None
      BY <1>0, <2>1, <2>2, <3>1, VerifiedEffect
    <3> QED
      BY <2>1, <3>1, <3>2 DEF Alone, Receiving, Verifying
  <2>3. CASE u # bundler.t
    <3>1. queued'[u] = queued[u] /\ multisignature'[u] = multisignature[u]
      BY <1>0, <2>1, <2>3, VerifiedEffect
    <3> QED
      BY <1>1, <2>1, <3>1 DEF Stays, Verifying, Receiving
  <2> QED
    BY <2>2, <2>3
<1>8. ASSUME NEW t \in Tx, BundledNext(t) PROVE Alone(u)'
  <2>1. /\ bundled[t] # None /\ bundled' = Drop(bundled, {t}) /\ bundler' = Begins(t, bundled[t])
        /\ UNCHANGED <<queued, multisignature, unconfirmed, receiver>>
    BY <1>8 DEF BundledNext, turn
  <2>2. (Verifying(u)' => u = t) /\ bundled'[t] = None
        /\ (u # t => bundled'[u] = bundled[u])
    BY <2>1 DEF Verifying, Begins, Drop
  <2>3. CASE u = t
    BY <1>0, <2>1, <2>2, <2>3 DEF Alone, Receiving
  <2>4. CASE u # t
    BY <1>1, <2>1, <2>2, <2>4 DEF Stays, Verifying, Receiving
  <2> QED
    BY <2>3, <2>4
<1>9. CASE FillPool
  <2>1. UNCHANGED <<bundled, bundler, receiver>>
    BY <1>9 DEF FillPool, turn
  <2>2. /\ queued'[u] = None
        /\ multisignature'[u] # None => multisignature'[u] = multisignature[u] /\ u \notin Complete
        /\ unconfirmed'[u] # None => unconfirmed[u] # None \/ multisignature[u] # None
                                     \/ queued[u] # None
        /\ u \notin Complete =>
             \/ unconfirmed'[u] = unconfirmed[u] /\ unconfirmed[u] # None
             \/ unconfirmed'[u] = queued[u]
    BY <1>0, <1>9, FillEffect
  <2> QED
    BY <1>0, <2>1, <2>2 DEF Alone, Receiving, Verifying
<1>10. CASE \/ Sign \/ StoreSignature \/ ApplyNext \/ DeleteLastBlock \/ BlockGenerated
            \/ \E t \in Tx : Expire(t)
            \/ \E t \in Tx, copy \in BlockCopies : ApplyBlock(t, copy)
  BY <1>0, <1>1, <1>10, StaysThere
<1>11. CASE AddTransactions \/ AddSignature \/ AddMultisignature
  BY <1>2, <1>11 DEF AddTransactions, AddSignature, AddMultisignature, Submit
<1>12. ASSUME NEW t \in Tx, NEW copy \in PeerCopies,
             PostTransaction(t, copy) \/ PostTransactions(t, copy) \/ LoadTransactions(t, copy)
      PROVE  Alone(u)'
  BY <1>2, <1>12 DEF PostTransaction, PostTransactions, LoadTransactions, Receive
<1>13. ASSUME NEW t \in Tx, NEW k \in Members,
             SignCalled(t, k) \/ LoadSignature(t, k) \/ PostSignature(t, k)
      PROVE  Alone(u)'
  BY <1>2, <1>13 DEF SignCalled, LoadSignature, PostSignature, CheckSignature
<1>14. ASSUME NEW i \in DOMAIN checking, SignatureChecked(i) PROVE Alone(u)'
  BY <1>2, <1>14 DEF SignatureChecked
<1>15. CASE ReceiveKnown \/ StoreBegins \/ GenerateBlock \/ UNCHANGED vars
  BY <1>2, <1>15 DEF ReceiveKnown, StoreBegins, GenerateBlock, Ends, turn, vars
<1> QED
  BY <1>3, <1>4, <1>5, <1>6, <1>7, <1>8, <1>9, <1>10, <1>11, <1>12, <1>13, <1>14, <1>15
     DEF Step, CreateTransaction, CreateSignature, CreateMultisignature, Tx

LEMMA AddedTasks ==
  ASSUME Typed, NEW task \in Tasks, Adds(task)
  PROVE  /\ DOMAIN line' = DOMAIN line \cup {Len(line) + 1} /\ Len(line) + 1 \notin DOMAIN line
         /\ \A i \in DOMAIN line : line'[i] = line[i]
         /\ line'[Len(line) + 1] = task
  BY DEF Adds, Typed

LEMMA EndedTasks ==
  ASSUME Typed, line # <<>>, Ends
  PROVE  \A i \in DOMAIN line' : i + 1 \in DOMAIN line /\ line'[i] = line[i + 1]
  BY DEF Ends, Typed

\* What has an array for signatures before its account is read comes from
\* elsewhere, and what is ready then is believed to be.
ComesFromElsewhere(t, copy) ==
  /\ copy.array => Excepts({"elsewhere"}, t)
  /\ copy.ready => Excepts({"believed"}, t)

\* A task in line was there before, or is as it is added.
FromBefore(task) == \E j \in DOMAIN line : task = line[j]
NewTask(task) ==
  \/ /\ task.do \in {"receive", "bundle"} /\ task.t \in offered
     /\ ComesFromElsewhere(task.t, task.of)
  \/ task.do \in {"create", "sign"}
  \/ task.do = "store" /\ (task.t = "reg" \/ Account.group)

LEMMA TasksStep ==
  ASSUME IInv, RestTyped, [Step]_vars, NEW i \in DOMAIN line'
  PROVE  FromBefore(line'[i]) \/ NewTask(line[i])'
<1>0. Typed
  BY DEF IInv
<1>1. CASE UNCHANGED line
  BY <1>1 DEF FromBefore
<1>2. ASSUME line # <<>>, Ends PROVE FromBefore(line'[i])
  BY <1>0, <1>2, EndedTasks DEF FromBefore
<1>3. ASSUME NEW task \in Tasks, Adds(task)
      PROVE  FromBefore(line'[i]) \/ line'[i] = task
  BY <1>0, <1>3, AddedTasks DEF FromBefore
<1>4. ASSUME NEW t \in Tx, Submit(t) PROVE NewTask(line[i])' \/ FromBefore(line'[i])
  <2>1. Task("create", t, None) \in Tasks
    BY DEF Task, Tasks
  <2> QED
    BY <1>3, <1>4, <2>1 DEF Submit, NewTask, Task
<1>5. ASSUME NEW t \in Tx, NEW copy \in PeerCopies, NEW do \in {"receive", "bundle"},
             Receive(do, t, copy)
      PROVE  NewTask(line[i])' \/ FromBefore(line'[i])
  <2>1. Task(do, t, copy) \in Tasks
    BY SentCopies DEF Task, Tasks
  <2>2. /\ copy.array => Excepts({"elsewhere"}, t)'
        /\ copy.ready => Excepts({"believed"}, t)'
    BY <1>5 DEF Receive, Excepts, RestTyped, Kinds
  <2>3. t \in offered' /\ Adds(Task(do, t, copy))
    BY <1>5 DEF Receive
  <2> QED
    BY <1>3, <2>1, <2>2, <2>3 DEF NewTask, Task, ComesFromElsewhere
<1>6. ASSUME NEW t \in Tx, NEW k \in Members, SignCalled(t, k)
      PROVE  NewTask(line[i])' \/ FromBefore(line'[i])
  <2>1. Task("sign", t, k) \in Tasks
    BY DEF Task, Tasks
  <2> QED
    BY <1>3, <1>6, <2>1 DEF SignCalled, NewTask, Task
<1>7. ASSUME NEW t \in Tx, NEW k \in Members, Stores(t, k), t = "reg" \/ Account'.group
      PROVE  NewTask(line[i])' \/ FromBefore(line'[i])
  <2>1. Task("store", t, k) \in Tasks
    BY DEF Task, Tasks
  <2> QED
    BY <1>3, <1>7, <2>1 DEF Stores, NewTask, Task
<1>8. ASSUME NEW t \in Tx, NEW k \in Members, CheckSignature(t, k)
      PROVE  NewTask(line[i])' \/ FromBefore(line'[i])
  BY <1>1, <1>7, <1>8 DEF CheckSignature
<1>9. ASSUME NEW j \in DOMAIN checking, SignatureChecked(j)
      PROVE  NewTask(line[i])' \/ FromBefore(line'[i])
  <2>1. checking[j][1] \in Tx /\ checking[j][2] \in Members
    BY <1>0 DEF Typed
  <2>2. \/ Account.group /\ Stores(checking[j][1], checking[j][2])
        \/ UNCHANGED line
    BY <1>9 DEF SignatureChecked
  <2>3. Account' = Account
    BY <1>9 DEF SignatureChecked, Account, Confirmed
  <2> QED
    BY <1>1, <1>7, <2>1, <2>2, <2>3
<1>10. ASSUME NEW t \in Tx, Create(t)
       PROVE  NewTask(line[i])' \/ FromBefore(line'[i])
  <2>1. line # <<>> /\ (Ends \/ UNCHANGED line)
    BY <1>10 DEF Create, Starts
  <2> QED
    BY <1>1, <1>2, <2>1
<1>11. CASE ReceiveKnown \/ ReceiveBundledTransaction \/ Sign \/ StoreBegins
  BY <1>1, <1>2, <1>11 DEF ReceiveKnown, ReceiveBundledTransaction, Sign, StoreBegins, Starts
<1>12. CASE Received \/ StoreSignature
  BY <1>0, <1>2, <1>12 DEF Received, StoreSignature, Typed
<1>13. CASE \/ ReceiveTransaction \/ BundledVerified \/ FillPool \/ ApplyNext \/ GenerateBlock
            \/ BlockGenerated \/ DeleteLastBlock \/ UNCHANGED vars
            \/ \E t \in Tx : BundledNext(t) \/ Expire(t)
            \/ \E t \in Tx, copy \in BlockCopies : ApplyBlock(t, copy)
  BY <1>1, <1>13 DEF ReceiveTransaction, BundledVerified, FillPool, ApplyNext, GenerateBlock,
     BlockGenerated, DeleteLastBlock, BundledNext, Expire, ApplyBlock, ReceiveBlock, turn, vars
<1> QED
  BY <1>4, <1>5, <1>6, <1>8, <1>9, <1>10, <1>11, <1>12, <1>13
     DEF Step, AddTransactions, AddSignature, AddMultisignature, PostTransaction,
         PostTransactions, LoadTransactions, LoadSignature, PostSignature,
         CreateTransaction, CreateSignature, CreateMultisignature, Tx

LEMMA OfferedStep ==
  ASSUME [Step]_vars
  PROVE  offered \subseteq offered'
  BY DEF Step, AddTransactions, AddSignature, AddMultisignature, Submit, PostTransaction,
     PostTransactions, LoadTransactions, Receive, ApplyBlock, ReceiveBlock, SignCalled, LoadSignature,
     PostSignature, CheckSignature, BundledNext, Expire, SignatureChecked, CreateTransaction,
     CreateSignature, CreateMultisignature, Create, ReceiveKnown, ReceiveTransaction,
     ReceiveBundledTransaction, Received, Sign, StoreBegins, StoreSignature, BundledVerified,
     FillPool, ApplyNext, GenerateBlock, BlockGenerated, DeleteLastBlock, vars

LEMMA ExistsStep ==
  ASSUME IInv, RestTyped, Exists, [Step]_vars
  PROVE  Exists'
<1>0. Typed
  BY DEF IInv
<1>1. ASSUME NEW i \in DOMAIN line', line'[i].do \in {"receive", "bundle"}
      PROVE  line'[i].t \in offered'
  BY <1>1, OfferedStep, TasksStep DEF FromBefore, NewTask, Exists
<1> SUFFICES ASSUME NEW u \in Tx, Receiving(u)' \/ Verifying(u)' \/ u \in Pooled'
             PROVE  u \in offered'
  BY <1>1 DEF Exists
<1> DEFINE There == Receiving(u) \/ Verifying(u) \/ u \in Pooled
<1>2. CASE There
  BY <1>2, OfferedStep DEF Exists
<1>3. CASE Stays(u)
  <2>1. There
    BY <1>3 DEF Stays, Pooled, In
  <2> QED
    BY <1>2, <2>1
<1>4. CASE UNCHANGED <<pool, bundler>> /\ (receiver' = None \/ UNCHANGED receiver)
  BY <1>0, <1>3, <1>4, StaysThere
<1>5. ASSUME NEW t \in Tx, Create(t) PROVE u \in offered'
  <2>1. CASE Ends
    BY <1>4, <1>5, <2>1 DEF Create, Ends
  <2>2. CASE t \in offered' /\ receiver' = Begins(t, Plain)
    <3>1. u = t \/ There
      BY <1>5, <2>2 DEF Create, Receiving, Begins, Verifying, Pooled, In, pool
    <3> QED
      BY <1>2, <2>2, <3>1
  <2> QED
    BY <1>5, <2>1, <2>2 DEF Create
<1>6. CASE ReceiveTransaction \/ ReceiveBundledTransaction
  <2>1. line # <<>> /\ Head(line).do \in {"receive", "bundle"}
    BY <1>6 DEF ReceiveTransaction, ReceiveBundledTransaction, Starts
  <2>2. Head(line) = line[1] /\ 1 \in DOMAIN line /\ Head(line).t \in Tx
    BY <1>0, <2>1, HeadTask DEF Typed
  <2>3. Head(line).t \in offered'
    BY <2>1, <2>2, OfferedStep DEF Exists
  <2>4. u = Head(line).t \/ There
    <3>1. CASE ReceiveTransaction
      BY <3>1 DEF ReceiveTransaction, Receiving, Begins, Verifying, Pooled, In, pool
    <3>2. CASE ReceiveBundledTransaction
      <4>1. u # Head(line).t => bundled'[u] = bundled[u]
        BY <1>0, <2>2, <3>2 DEF ReceiveBundledTransaction, Put, Typed, Bundle
      <4> QED
        BY <3>2, <4>1 DEF ReceiveBundledTransaction, Ends, Receiving, Verifying, Pooled, In
    <3> QED
      BY <1>6, <3>1, <3>2
  <2> QED
    BY <1>2, <2>3, <2>4
<1>7. CASE Received
  <2>1. receiver \in Verification /\ receiver # None /\ QueueVerified(receiver)
        /\ receiver' = None /\ UNCHANGED <<bundled, unconfirmed, bundler>>
    BY <1>0, <1>7 DEF Received, Ends, Typed, VerifiedTyped
  <2>2. u # receiver.t => queued'[u] = queued[u] /\ multisignature'[u] = multisignature[u]
    BY <1>0, <2>1, VerifiedEffect
  <2>3. There
    BY <2>1, <2>2 DEF Receiving, Verifying, Pooled, In
  <2> QED
    BY <1>2, <2>3
<1>8. CASE BundledVerified
  <2>1. bundler \in Verification /\ bundler # None /\ QueueVerified(bundler)
        /\ bundler' = None /\ UNCHANGED <<bundled, unconfirmed, receiver>>
    BY <1>0, <1>8 DEF BundledVerified, turn, Typed, VerifiedTyped
  <2>2. u # bundler.t => queued'[u] = queued[u] /\ multisignature'[u] = multisignature[u]
    BY <1>0, <2>1, VerifiedEffect
  <2>3. There
    BY <2>1, <2>2 DEF Receiving, Verifying, Pooled, In
  <2> QED
    BY <1>2, <2>3
<1>9. ASSUME NEW t \in Tx, BundledNext(t) PROVE u \in offered'
  <2>1. There
    BY <1>9 DEF BundledNext, turn, Receiving, Verifying, Begins, Pooled, In, Drop
  <2> QED
    BY <1>2, <2>1
<1>10. CASE FillPool
  <2>1. UNCHANGED <<bundled, bundler, receiver>>
    BY <1>10 DEF FillPool, turn
  <2>2. /\ queued'[u] = None
        /\ multisignature'[u] # None => multisignature[u] # None
        /\ unconfirmed'[u] # None => \/ unconfirmed[u] # None \/ multisignature[u] # None
                                     \/ queued[u] # None
    BY <1>0, <1>10, FillEffect
  <2>3. There
    BY <2>1, <2>2 DEF Receiving, Verifying, Pooled, In
  <2> QED
    BY <1>2, <2>3
<1>11. CASE \/ Sign \/ StoreSignature \/ ApplyNext \/ DeleteLastBlock \/ BlockGenerated
            \/ \E t \in Tx : Expire(t)
            \/ \E t \in Tx, copy \in BlockCopies : ApplyBlock(t, copy)
  BY <1>0, <1>3, <1>11, StaysThere
<1>12. CASE AddTransactions \/ AddSignature \/ AddMultisignature
  BY <1>4, <1>12 DEF AddTransactions, AddSignature, AddMultisignature, Submit
<1>13. ASSUME NEW t \in Tx, NEW copy \in PeerCopies,
             PostTransaction(t, copy) \/ PostTransactions(t, copy) \/ LoadTransactions(t, copy)
      PROVE  u \in offered'
  BY <1>4, <1>13 DEF PostTransaction, PostTransactions, LoadTransactions, Receive
<1>14. ASSUME NEW t \in Tx, NEW k \in Members,
             SignCalled(t, k) \/ LoadSignature(t, k) \/ PostSignature(t, k)
      PROVE  u \in offered'
  BY <1>4, <1>14 DEF SignCalled, LoadSignature, PostSignature, CheckSignature
<1>15. ASSUME NEW i \in DOMAIN checking, SignatureChecked(i) PROVE u \in offered'
  BY <1>4, <1>15 DEF SignatureChecked
<1>16. CASE ReceiveKnown \/ StoreBegins \/ GenerateBlock \/ UNCHANGED vars
  BY <1>4, <1>16 DEF ReceiveKnown, StoreBegins, GenerateBlock, Ends, turn, vars
<1> QED
  BY <1>5, <1>6, <1>7, <1>8, <1>9, <1>10, <1>11, <1>12, <1>13, <1>14, <1>15, <1>16
     DEF Step, CreateTransaction, CreateSignature, CreateMultisignature, Tx

-----------------------------------------------------------------------------
(* What is applied to the unconfirmed balance *)

WorkerOnce == IsInjective(worker)

\* What is in the unconfirmed queue, but for what is still to be applied
Counted(t) == applied[t] = IF unconfirmed[t] # None /\ t \notin ToSet(worker) THEN 1 ELSE 0

Applied == \A t \in Tx : Counted(t) \/ Excepts({"again", "expired"}, t)

LEMMA JoinedOnce ==
  ASSUME NEW S, NEW s \in Seq(S), NEW r \in Seq(S), IsInjective(s), IsInjective(r),
         ToSet(s) \cap ToSet(r) = {}
  PROVE  IsInjective(s \o r) /\ ToSet(s \o r) = ToSet(s) \cup ToSet(r)
<1> DEFINE m == Len(s)
           n == Len(r)
           j == s \o r
<1>1. /\ m \in Nat /\ n \in Nat /\ DOMAIN s = 1..m /\ DOMAIN r = 1..n /\ DOMAIN j = 1..m + n
      /\ \A i \in 1..m + n : j[i] = IF i <= m THEN s[i] ELSE r[i - m]
  OBVIOUS
<1> HIDE DEF m, n, j
<1>2. \A i \in 1..m : i \in 1..m + n /\ j[i] = s[i]
  BY <1>1
<1>3. \A i \in 1..n : m + i \in 1..m + n /\ j[m + i] = r[i]
  BY <1>1
<1>4. \A i \in 1..m + n : i \notin 1..m => i - m \in 1..n /\ j[i] = r[i - m]
  BY <1>1
<1>5. ToSet(j) = ToSet(s) \cup ToSet(r)
  <2>1. ToSet(s) = {s[i] : i \in 1..m} /\ ToSet(r) = {r[i] : i \in 1..n}
        /\ ToSet(j) = {j[i] : i \in 1..m + n}
    BY <1>1 DEF ToSet
  <2>2. ToSet(j) \subseteq ToSet(s) \cup ToSet(r)
    BY <1>2, <1>4, <2>1
  <2>3. ToSet(s) \cup ToSet(r) \subseteq ToSet(j)
    BY <1>2, <1>3, <2>1
  <2> QED
    BY <2>2, <2>3
<1>6. ASSUME NEW a \in 1..m + n, NEW b \in 1..m + n, j[a] = j[b] PROVE a = b
  <2>1. CASE a \in 1..m /\ b \in 1..m
    BY <1>1, <1>2, <1>6, <2>1 DEF IsInjective
  <2>2. CASE a \notin 1..m /\ b \notin 1..m
    <3>1. a - m = b - m
      BY <1>1, <1>4, <1>6, <2>2 DEF IsInjective
    <3> QED
      BY <1>1, <3>1
  <2>3. CASE (a \in 1..m) # (b \in 1..m)
    <3>1. \A i \in 1..m : s[i] \in ToSet(s)
      BY <1>1 DEF ToSet
    <3>2. \A i \in 1..n : r[i] \in ToSet(r)
      BY <1>1 DEF ToSet
    <3>3. CASE a \in 1..m /\ b \notin 1..m
      BY <1>2, <1>4, <1>6, <3>1, <3>2, <3>3
    <3>4. CASE a \notin 1..m /\ b \in 1..m
      BY <1>2, <1>4, <1>6, <3>1, <3>2, <3>4
    <3> QED
      BY <2>3, <3>3, <3>4
  <2> QED
    BY <2>1, <2>2, <2>3
<1>7. IsInjective(j)
  BY <1>1, <1>6 DEF IsInjective
<1> QED
  BY <1>5, <1>7 DEF j

LEMMA TailOnce ==
  ASSUME NEW S, NEW s \in Seq(S), s # <<>>, IsInjective(s)
  PROVE  /\ Tail(s) \in Seq(S) /\ IsInjective(Tail(s))
         /\ ToSet(Tail(s)) = ToSet(s) \ {Head(s)} /\ Head(s) \in ToSet(s)
<1> DEFINE n == Len(s)
<1>1. /\ n \in Nat \ {0} /\ DOMAIN s = 1..n /\ Tail(s) \in Seq(S) /\ Head(s) = s[1]
      /\ DOMAIN Tail(s) = 1..n - 1 /\ \A i \in 1..n - 1 : Tail(s)[i] = s[i + 1]
  OBVIOUS
<1> HIDE DEF n
<1>2. \A i \in 1..n - 1 : i + 1 \in 1..n /\ i + 1 # 1
  BY <1>1
<1>3. \A i \in 1..n : i # 1 => i - 1 \in 1..n - 1 /\ Tail(s)[i - 1] = s[i]
  BY <1>1
<1>4. 1 \in 1..n
  BY <1>1
<1>5. IsInjective(Tail(s))
  <2> SUFFICES ASSUME NEW a \in 1..n - 1, NEW b \in 1..n - 1, Tail(s)[a] = Tail(s)[b]
               PROVE  a = b
    BY <1>1 DEF IsInjective
  <2>1. a + 1 = b + 1
    BY <1>1, <1>2 DEF IsInjective
  <2> QED
    BY <1>1, <2>1
<1>6. ToSet(s) = {s[i] : i \in 1..n} /\ ToSet(Tail(s)) = {Tail(s)[i] : i \in 1..n - 1}
  BY <1>1 DEF ToSet
<1>7. ToSet(Tail(s)) \subseteq ToSet(s) \ {Head(s)}
  BY <1>1, <1>2, <1>4, <1>6 DEF IsInjective
<1>8. ToSet(s) \ {Head(s)} \subseteq ToSet(Tail(s))
  BY <1>1, <1>3, <1>6
<1> QED
  BY <1>1, <1>4, <1>5, <1>6, <1>7, <1>8

LEMMA CountedStays ==
  ASSUME NEW u, Counted(u), UNCHANGED <<applied, worker>>,
         (unconfirmed'[u] # None) <=> (unconfirmed[u] # None)
  PROVE  Counted(u)'
  BY DEF Counted

\* fillPool puts nothing into the worker's list twice, confirming neither.
LEMMA FilledWorker ==
  ASSUME FillPool
  PROVE  IsInjective(worker') /\ ToSet(worker') = Complete \cup In(queued)
<1> DEFINE R == In(queued) \ Complete
<1>1. Complete \subseteq Tx /\ R \subseteq Tx
  BY DEF Complete, In
<1>2. /\ SetToSeq(Complete) \in Seq(Complete) /\ SetToSeq(R) \in Seq(R)
      /\ IsInjective(SetToSeq(Complete)) /\ IsInjective(SetToSeq(R))
      /\ ToSet(SetToSeq(Complete)) = Complete /\ ToSet(SetToSeq(R)) = R
  BY <1>1, SetSequence
<1>3. worker' = SetToSeq(Complete) \o SetToSeq(R)
  BY DEF FillPool
<1>4. Complete \cap R = {} /\ Complete \cup R = Complete \cup In(queued)
  OBVIOUS
<1> HIDE DEF R
<1>5. SetToSeq(Complete) \in Seq(Tx) /\ SetToSeq(R) \in Seq(Tx)
  BY <1>1, <1>2
<1> QED
  BY <1>2, <1>3, <1>4, <1>5, JoinedOnce

LEMMA ConfirmedWorker ==
  ASSUME NEW S, NEW copies, Confirms(S, copies)
  PROVE  IsInjective(worker') /\ ToSet(worker') = In(unconfirmed)
<1>1. In(unconfirmed) \subseteq Tx
  BY DEF In
<1> QED
  BY <1>1, SetSequence DEF Confirms

LEMMA WorkerOnceStep ==
  ASSUME IInv, RestTyped, WorkerOnce, [Step]_vars
  PROVE  WorkerOnce'
<1>1. CASE UNCHANGED worker
  BY <1>1 DEF WorkerOnce
<1>2. CASE FillPool
  BY <1>2, FilledWorker DEF WorkerOnce
<1>3. CASE ApplyNext
  BY <1>3, TailOnce DEF ApplyNext, RestTyped, WorkerOnce
<1>4. ASSUME NEW S, NEW copies, Confirms(S, copies) PROVE WorkerOnce'
  BY <1>4, ConfirmedWorker DEF WorkerOnce
<1>5. CASE BlockGenerated \/ \E t \in Tx, copy \in BlockCopies : ApplyBlock(t, copy)
  BY <1>1, <1>4, <1>5 DEF BlockGenerated, ApplyBlock, ReceiveBlock
<1>6. FillPool \/ ApplyNext \/ BlockGenerated \/ UNCHANGED worker
      \/ \E t \in Tx, copy \in BlockCopies : ApplyBlock(t, copy)
  BY DEF Step, AddTransactions, AddSignature, AddMultisignature, Submit, PostTransaction,
     PostTransactions, LoadTransactions, Receive, SignCalled, LoadSignature,
     PostSignature, CheckSignature, BundledNext, Expire, SignatureChecked, CreateTransaction,
     CreateSignature, CreateMultisignature, Create, ReceiveKnown, ReceiveTransaction,
     ReceiveBundledTransaction, Received, Sign, StoreBegins, StoreSignature, BundledVerified,
     GenerateBlock, DeleteLastBlock, vars
<1> QED
  BY <1>1, <1>2, <1>3, <1>5, <1>6

LEMMA AppliedStep ==
  ASSUME IInv, RestTyped, OnePlace, WorkerOnce, Applied, [Step]_vars
  PROVE  Applied'
<1> SUFFICES ASSUME NEW u \in Tx, ~Excepts({"again", "expired"}, u)' PROVE Counted(u)'
  BY DEF Applied
<1>0. Typed /\ ~Excepts({"again", "expired"}, u) /\ Counted(u) /\ Alone(u)
  <2>1. ~Excepts({"again", "expired"}, u)
    BY StepRemembers, ExceptsRemembered DEF Kinds
  <2>2. ~Excepts({"again"}, u)
    BY <2>1 DEF Excepts
  <2> QED
    BY <2>1, <2>2 DEF IInv, Applied, OnePlace
<1>1. CASE UNCHANGED <<unconfirmed, applied, worker>>
  BY <1>0, <1>1, CountedStays
<1>2. CASE StoreSignature
  <2>1. (unconfirmed'[u] # None) <=> (unconfirmed[u] # None)
    <3>1. /\ Head(line).t \in Tx /\ Head(line).of \in Members
      BY <1>0, <1>2, StoreEffect
    <3>2. \A copy \in Copy : Signed(Head(line).t, copy, Head(line).of) # None
      BY <3>1, SignedCopy, CopyIsSome
    <3> QED
      BY <1>0, <1>2, <3>2, StoreEffect
  <2> QED
    BY <1>0, <1>2, <2>1, CountedStays DEF StoreSignature
<1>3. CASE FillPool
  <2>1. worker = <<>> /\ ToSet(worker) = {} /\ applied' = applied
    BY <1>3 DEF FillPool, Resting, ToSet
  <2>2. ToSet(worker') = Complete \cup In(queued)
    BY <1>3, FilledWorker
  <2>3. CASE u \in Complete \cup In(queued)
    <3>1. unconfirmed[u] = None
      BY <1>0, <2>3 DEF Alone, Complete, In
    <3> QED
      BY <1>0, <2>1, <2>2, <2>3, <3>1 DEF Counted
  <2>4. CASE u \notin Complete \cup In(queued)
    <3>1. queued[u] = None
      BY <2>4 DEF In
    <3>2. (unconfirmed'[u] # None) <=> (unconfirmed[u] # None)
      BY <1>0, <1>3, <2>4, <3>1, FillEffect
    <3> QED
      BY <1>0, <2>1, <2>2, <2>4, <3>2 DEF Counted
  <2> QED
    BY <2>3, <2>4
<1>4. CASE ApplyNext
  <2> DEFINE t == Head(worker)
  <2>1. /\ ToSet(worker') = ToSet(worker) \ {t} /\ t \in ToSet(worker)
    BY <1>4, TailOnce DEF ApplyNext, RestTyped, WorkerOnce
  <2>2. CASE u # t
    <3>1. unconfirmed'[u] = unconfirmed[u] /\ applied'[u] = applied[u]
      BY <1>0, <1>4, <2>2, ApplyEffect
    <3> QED
      BY <1>0, <2>1, <2>2, <3>1 DEF Counted
  <2>3. CASE u = t
    <3>1. applied[u] = 0
      BY <1>0, <2>1, <2>3 DEF Counted
    <3>2. \/ unconfirmed'[u] = None /\ applied'[u] = applied[u]
          \/ unconfirmed'[u] # None /\ applied'[u] = applied[u] + 1
      <4>1. \A copy \in Copy : Begins(u, copy).copy # None
        BY BegunCopy, CopyIsSome
      <4> QED
        BY <1>0, <1>4, <2>3, <4>1, ApplyEffect
    <3> QED
      BY <2>1, <2>3, <3>1, <3>2 DEF Counted
  <2> QED
    BY <2>2, <2>3
<1>5. ASSUME NEW S, NEW copies, Confirms(S, copies), worker = <<>> PROVE Counted(u)'
  <2>1. ToSet(worker') = In(unconfirmed) /\ ToSet(worker) = {}
    BY <1>5, ConfirmedWorker DEF ToSet
  <2>2. applied'[u] = applied[u] - (IF unconfirmed[u] # None THEN 1 ELSE 0)
    BY <1>5 DEF Confirms, In
  <2>3. unconfirmed'[u] # None => unconfirmed[u] # None
    BY <1>5 DEF Confirms, Drop
  <2>4. applied[u] = IF unconfirmed[u] # None THEN 1 ELSE 0
    BY <1>0, <2>1 DEF Counted
  <2>5. applied'[u] = 0
    BY <2>2, <2>4
  <2> QED
    BY <2>1, <2>3, <2>5 DEF Counted, In
<1>6. CASE BlockGenerated
  BY <1>1, <1>5, <1>6 DEF BlockGenerated, IInv, ForgingEnough
<1>7. CASE \E t \in Tx, copy \in BlockCopies : ApplyBlock(t, copy)
  BY <1>5, <1>7 DEF ApplyBlock, ReceiveBlock, Resting
<1>8. ASSUME NEW t \in Tx, Expire(t) PROVE Counted(u)'
  <2>1. u # t
    BY <1>8 DEF Expire, Happens, Excepts, RestTyped, Kinds
  <2>2. unconfirmed'[u] = unconfirmed[u]
    BY <1>8, <2>1 DEF Expire, Drop
  <2> QED
    BY <1>0, <1>8, <2>2, CountedStays DEF Expire
<1>9. \/ FillPool \/ ApplyNext \/ BlockGenerated \/ StoreSignature
      \/ UNCHANGED <<unconfirmed, applied, worker>>
      \/ \E t \in Tx : Expire(t)
      \/ \E t \in Tx, copy \in BlockCopies : ApplyBlock(t, copy)
  BY DEF Step, AddTransactions, AddSignature, AddMultisignature, Submit, PostTransaction,
     PostTransactions, LoadTransactions, Receive, SignCalled, LoadSignature,
     PostSignature, CheckSignature, BundledNext, SignatureChecked, CreateTransaction,
     CreateSignature, CreateMultisignature, Create, ReceiveKnown, ReceiveTransaction,
     ReceiveBundledTransaction, Received, Sign, StoreBegins, BundledVerified,
     GenerateBlock, DeleteLastBlock, pool, vars
<1> QED
  BY <1>1, <1>2, <1>3, <1>4, <1>6, <1>7, <1>8, <1>9

-----------------------------------------------------------------------------
(* What signatures there are, and what is to be stored *)

\* The signature of k is among those of the transaction.
Has(t, k) ==
  \E q \in {multisignature, unconfirmed} : q[t] # None /\ k \in ToSet(q[t].sigs)

\* A signature that is to be stored is new when its turn comes.
NewSignature(i) ==
  /\ ~Has(line[i].t, line[i].of)
  /\ \A j \in DOMAIN line :
       j < i /\ line[j].do \in {"sign", "store"} =>
         line[j].t # line[i].t \/ line[j].of # line[i].of

SignaturesNew ==
  \A i \in DOMAIN line :
    line[i].do = "store" => NewSignature(i) \/ Excepts({"raced", "again"}, line[i].t)

\* What needs no signatures has no place for them.
QueuedBare == \A t \in In(queued) : t # "reg" /\ ~queued[t].array

\* A step leaves the line alone, or its first task ends, or one is added.
LEMMA LineMoves ==
  ASSUME IInv, RestTyped, OnePlace, [Step]_vars
  PROVE  \/ UNCHANGED line
         \/ line # <<>> /\ Ends
         \/ \E task \in Tasks :
              /\ Adds(task) /\ UNCHANGED pool
              /\ task.do = "store" /\ ~Excepts({"raced", "again"}, task.t)' =>
                   ~Storing(task.t, task.of) /\ ~Has(task.t, task.of)
<1> DEFINE Added == \E task \in Tasks :
              /\ Adds(task) /\ UNCHANGED pool
              /\ task.do = "store" /\ ~Excepts({"raced", "again"}, task.t)' =>
                   ~Storing(task.t, task.of) /\ ~Has(task.t, task.of)
<1> SUFFICES Added \/ UNCHANGED line \/ (line # <<>> /\ Ends)
  OBVIOUS
<1>0. Typed
  BY DEF IInv
<1>1. ASSUME NEW t \in Tx, Submit(t) PROVE Added
  <2>1. Task("create", t, None) \in Tasks /\ Task("create", t, None).do # "store"
    BY DEF Task, Tasks
  <2> QED
    BY <1>1, <2>1 DEF Submit
<1>2. ASSUME NEW t \in Tx, NEW copy \in PeerCopies, NEW do \in {"receive", "bundle"},
             Receive(do, t, copy)
      PROVE  Added
  <2>1. Task(do, t, copy) \in Tasks /\ Task(do, t, copy).do # "store"
    BY SentCopies DEF Task, Tasks
  <2> QED
    BY <1>2, <2>1 DEF Receive
<1>3. ASSUME NEW t \in Tx, NEW k \in Members, SignCalled(t, k) PROVE Added
  <2>1. Task("sign", t, k) \in Tasks /\ Task("sign", t, k).do # "store"
    BY DEF Task, Tasks
  <2> QED
    BY <1>3, <2>1 DEF SignCalled
<1>4. ASSUME NEW t \in Tx, NEW k \in Members, Stores(t, k), UNCHANGED pool,
             Alone(t) => ~Has(t, k)
      PROVE  Added
  <2>1. /\ Task("store", t, k) \in Tasks /\ Task("store", t, k).t = t
        /\ Task("store", t, k).of = k /\ Adds(Task("store", t, k))
    BY <1>4 DEF Task, Tasks, Stores
  <2>2. ASSUME ~Excepts({"raced", "again"}, t)' PROVE ~Storing(t, k) /\ ~Has(t, k)
    <3>1. ~Storing(t, k)
      BY <1>4, <2>2 DEF Stores, Happens, Excepts, RestTyped, Kinds
    <3>2. ~Excepts({"again"}, t)
      BY <2>2, StepRemembers, ExceptsRemembered DEF Excepts, Kinds
    <3> QED
      BY <1>4, <3>1, <3>2 DEF OnePlace
  <2> QED
    BY <1>4, <2>1, <2>2
<1>5. ASSUME NEW t \in Tx, NEW k \in Members, CheckSignature(t, k)
      PROVE  Added \/ UNCHANGED line
  <2>1. CASE t = "reg"
    <3>1. Stores(t, k) /\ UNCHANGED pool /\ multisignature[t] # None
          /\ k \notin ToSet(multisignature[t].sigs)
      BY <1>5, <2>1 DEF CheckSignature
    <3>2. Alone(t) => ~Has(t, k)
      BY <3>1 DEF Alone, Has
    <3> QED
      BY <1>4, <3>1, <3>2
  <2>2. CASE t # "reg"
    BY <1>5, <2>2 DEF CheckSignature
  <2> QED
    BY <2>1, <2>2
<1>6. ASSUME NEW i \in DOMAIN checking, SignatureChecked(i) PROVE Added \/ UNCHANGED line
  <2> DEFINE t == checking[i][1]
             k == checking[i][2]
  <2>1. t \in Tx /\ k \in Members
    BY <1>0 DEF Typed
  <2>2. UNCHANGED pool /\ (\/ /\ Held(t) # None => k \notin ToSet(Held(t).sigs)
                            /\ Stores(t, k)
                         \/ UNCHANGED line)
    BY <1>6 DEF SignatureChecked
  <2> HIDE DEF t, k
  <2>3. (Held(t) # None => k \notin ToSet(Held(t).sigs)) => (Alone(t) => ~Has(t, k))
    BY DEF Held, Alone, Has
  <2> QED
    BY <1>4, <2>1, <2>2, <2>3
<1>7. ASSUME NEW t \in Tx, Create(t) PROVE UNCHANGED line \/ (line # <<>> /\ Ends)
  BY <1>7 DEF Create, Starts
<1>8. CASE ReceiveKnown \/ ReceiveBundledTransaction \/ Sign \/ StoreBegins
  BY <1>8 DEF ReceiveKnown, ReceiveBundledTransaction, Sign, StoreBegins, Starts
<1>9. CASE Received \/ StoreSignature
  BY <1>0, <1>9 DEF Received, StoreSignature, Typed
<1>10. CASE \/ ReceiveTransaction \/ BundledVerified \/ FillPool \/ ApplyNext \/ GenerateBlock
            \/ BlockGenerated \/ DeleteLastBlock \/ UNCHANGED vars
            \/ \E t \in Tx : BundledNext(t) \/ Expire(t)
            \/ \E t \in Tx, copy \in BlockCopies : ApplyBlock(t, copy)
  BY <1>10 DEF ReceiveTransaction, BundledVerified, FillPool, ApplyNext, GenerateBlock,
     BlockGenerated, DeleteLastBlock, BundledNext, Expire, ApplyBlock, ReceiveBlock, turn, vars
<1> HIDE DEF Added
<1> QED
  BY <1>1, <1>2, <1>3, <1>5, <1>6, <1>7, <1>8, <1>9, <1>10
     DEF Step, AddTransactions, AddSignature, AddMultisignature, PostTransaction,
         PostTransactions, LoadTransactions, LoadSignature, PostSignature,
         CreateTransaction, CreateSignature, CreateMultisignature, Tx

\* Whence the signatures of a copy after a step
Origin(u, sigs) ==
  \/ \E q \in {multisignature, unconfirmed} : q[u] # None /\ sigs = q[u].sigs
  \/ sigs = <<>>
  \/ IsInjective(sigs) /\ \A k \in ToSet(sigs) : Storing(u, k) => Excepts({"raced"}, u)'
  \/ \E q \in {multisignature, unconfirmed} :
       /\ q[u] # None /\ q[u] \in Copy
       /\ line # <<>> /\ Ends /\ Head(line).t = u /\ Head(line).of \in Members
       /\ sigs = Append(q[u].sigs, Head(line).of)
       /\ \/ Head(line).do = "store"
          \/ Head(line).do = "sign" /\ Head(line).of \notin ToSet(q[u].sigs)

LEMMA VerifiedOrigin ==
  ASSUME Typed, RestTyped, NEW v \in Verification, QueueVerified(v), UNCHANGED unconfirmed,
         NEW u \in Tx, NEW q \in {multisignature', unconfirmed'}, q[u] # None
  PROVE  Origin(u, q[u].sigs)
<1>1. CASE q = unconfirmed' \/ u # v.t
  <2>1. q = unconfirmed' => q[u] = unconfirmed[u]
    OBVIOUS
  <2>2. q = multisignature' /\ u # v.t => q[u] = multisignature[u]
    BY VerifiedEffect
  <2> QED
    BY <1>1, <2>1, <2>2 DEF Origin
<1>2. CASE q = multisignature' /\ u = v.t
  <2>1. CASE q[u] = multisignature[u]
    BY <2>1 DEF Origin
  <2>2. CASE q[u] = v.copy /\ Verifies(v.t, v.copy, v.sender)
    <3>1. IsInjective(v.copy.sigs)
      BY <2>2 DEF Verifies, SignaturesVerify
    <3>2. ASSUME NEW k \in ToSet(v.copy.sigs), Storing(u, k) PROVE Excepts({"raced"}, u)'
      <4>1. Happens("raced", {u})
        BY <1>2, <3>2 DEF QueueVerified
      <4> QED
        BY <4>1 DEF Happens, Excepts, RestTyped, Kinds
    <3> QED
      BY <2>2, <3>1, <3>2 DEF Origin
  <2> QED
    BY <1>2, <2>1, <2>2, VerifiedEffect
<1> QED
  BY <1>1, <1>2

LEMMA SignatureOrigin ==
  ASSUME IInv, RestTyped, QueuedBare, [Step]_vars, NEW u \in Tx,
         NEW q \in {multisignature', unconfirmed'}, q[u] # None
  PROVE  Origin(u, q[u].sigs)
<1>0. Typed
  BY DEF IInv
<1> DEFINE Same == /\ multisignature'[u] # None => multisignature'[u] = multisignature[u]
                   /\ unconfirmed'[u] # None => unconfirmed'[u] = unconfirmed[u]
<1>1. CASE Same
  BY <1>1 DEF Origin
<1>2. CASE Received
  <2>1. receiver \in Verification /\ QueueVerified(receiver) /\ UNCHANGED unconfirmed
    BY <1>0, <1>2 DEF Received, Typed, VerifiedTyped
  <2> QED
    BY <1>0, <2>1, VerifiedOrigin
<1>3. CASE BundledVerified
  <2>1. bundler \in Verification /\ QueueVerified(bundler) /\ UNCHANGED unconfirmed
    BY <1>0, <1>3 DEF BundledVerified, Typed, VerifiedTyped
  <2> QED
    BY <1>0, <2>1, VerifiedOrigin
<1>4. CASE Sign
  <2> DEFINE t == Head(line).t
             k == Head(line).of
  <2>1. line # <<>> /\ Head(line).do = "sign" /\ Ends /\ UNCHANGED unconfirmed
    BY <1>4 DEF Sign, Starts
  <2>2. t \in Tx /\ k \in Members
    BY <1>0, <2>1, HeadTask
  <2>3. \/ multisignature' = multisignature
        \/ /\ multisignature[t] # None /\ k \notin ToSet(multisignature[t].sigs)
           /\ multisignature' = [multisignature EXCEPT ![t] = Signed(t, multisignature[t], k)]
    BY <1>4 DEF Sign
  <2> HIDE DEF t, k
  <2>4. CASE u = t /\ multisignature[t] # None /\ k \notin ToSet(multisignature[t].sigs)
             /\ multisignature' = [multisignature EXCEPT ![t] = Signed(t, multisignature[t], k)]
             /\ q = multisignature'
    <3>1. multisignature \in Queue /\ multisignature[u] \in Copy
      BY <1>0, <2>2, <2>4 DEF Typed, Queue
    <3>2. Signed(t, multisignature[t], k).sigs = Append(multisignature[t].sigs, k)
      BY <2>2, <2>4, <3>1, SignedCopy
    <3>3. q[u] = Signed(t, multisignature[t], k)
      BY <2>4, <3>1 DEF Queue
    <3> QED
      BY <2>1, <2>2, <2>4, <3>1, <3>2, <3>3 DEF Origin, t, k
  <2>5. CASE u # t \/ multisignature' = multisignature
    <3>1. multisignature'[u] = multisignature[u]
      BY <1>0, <2>3, <2>5 DEF Typed, Queue
    <3> QED
      BY <1>1, <2>1, <3>1
  <2>6. CASE q = unconfirmed'
    BY <2>1, <2>6 DEF Origin
  <2> QED
    BY <2>3, <2>4, <2>5, <2>6
<1>5. CASE StoreSignature
  <2> DEFINE t == Head(line).t
             k == Head(line).of
  <2>1. /\ line # <<>> /\ Head(line).do = "store" /\ Ends /\ t \in Tx /\ k \in Members
    BY <1>0, <1>5, StoreEffect
  <2>2. CASE u # t
    BY <1>0, <1>1, <1>5, <2>2, StoreEffect
  <2>3. CASE u = t /\ Same
    BY <1>1, <2>3
  <2>4. ASSUME NEW old \in {multisignature, unconfirmed}, old[t] \in Copy, old[t] # None,
               u = t, q[u] = Signed(t, old[t], k)
        PROVE  Origin(u, q[u].sigs)
    <3>1. q[u].sigs = Append(old[t].sigs, k)
      BY <2>1, <2>4, SignedCopy
    <3> QED
      BY <2>1, <2>4, <3>1 DEF Origin
  <2>5. CASE u = t /\ ~Same
    <3>1. \/ /\ multisignature[t] \in Copy /\ multisignature[t] # None
             /\ multisignature'[t] = Signed(t, multisignature[t], k)
             /\ unconfirmed'[t] = unconfirmed[t]
          \/ /\ multisignature'[t] = None
             /\ unconfirmed[t] \in Copy /\ unconfirmed[t] # None
             /\ unconfirmed'[t] = Signed(t, unconfirmed[t], k)
      BY <1>0, <1>5, <2>5, StoreEffect
    <3>2. CASE q = unconfirmed' /\ unconfirmed'[t] = unconfirmed[t]
      BY <2>5, <3>2 DEF Origin
    <3> QED
      BY <2>4, <2>5, <3>1, <3>2
  <2> QED
    BY <2>2, <2>3, <2>5
<1>6. CASE FillPool
  <2>1. queued[u] # None => queued[u].sigs = <<>>
    BY <1>0 DEF QueuedBare, In, Typed, Queue, Copy
  <2> QED
    BY <1>0, <1>6, <2>1, FillEffect DEF Origin
<1>7. CASE ApplyNext
  <2>1. multisignature'[u] # None => multisignature'[u] = multisignature[u]
    BY <1>0, <1>7, ApplyEffect
  <2>2. unconfirmed'[u] # None => unconfirmed[u] # None /\ unconfirmed'[u].sigs = unconfirmed[u].sigs
    <3>1. \A copy \in Copy : Begins(u, copy).copy.sigs = copy.sigs
      BY BegunCopy
    <3> QED
      BY <1>0, <1>7, <3>1, ApplyEffect, CopyIsSome
  <2> QED
    BY <2>1, <2>2 DEF Origin
<1>8. ASSUME NEW S, NEW copies, Confirms(S, copies) PROVE Same
  BY <1>8 DEF Confirms, Drop
<1>9. CASE BlockGenerated \/ \E t \in Tx, copy \in BlockCopies : ApplyBlock(t, copy)
  BY <1>1, <1>8, <1>9 DEF BlockGenerated, ApplyBlock, ReceiveBlock
<1>10. CASE \E t \in Tx : Expire(t)
  BY <1>1, <1>10 DEF Expire, Drop
<1>11. CASE UNCHANGED <<multisignature, unconfirmed>>
  BY <1>1, <1>11
<1>12. \/ FillPool \/ ApplyNext \/ BlockGenerated \/ StoreSignature \/ Sign \/ Received
       \/ BundledVerified \/ UNCHANGED <<multisignature, unconfirmed>>
       \/ \E t \in Tx : Expire(t)
       \/ \E t \in Tx, copy \in BlockCopies : ApplyBlock(t, copy)
  BY DEF Step, AddTransactions, AddSignature, AddMultisignature, Submit, PostTransaction,
     PostTransactions, LoadTransactions, Receive, SignCalled, LoadSignature,
     PostSignature, CheckSignature, BundledNext, SignatureChecked, CreateTransaction,
     CreateSignature, CreateMultisignature, Create, ReceiveKnown, ReceiveTransaction,
     ReceiveBundledTransaction, StoreBegins, GenerateBlock, DeleteLastBlock, pool, vars
<1> QED
  BY <1>2, <1>3, <1>4, <1>5, <1>6, <1>7, <1>9, <1>10, <1>11, <1>12

LEMMA AppendedOnce ==
  ASSUME NEW S, NEW s \in Seq(S), NEW k \in S
  PROVE  /\ ToSet(Append(s, k)) = ToSet(s) \cup {k}
         /\ IsInjective(s) /\ k \notin ToSet(s) => IsInjective(Append(s, k))
<1> DEFINE n == Len(s)
           a == Append(s, k)
<1>1. /\ n \in Nat /\ DOMAIN s = 1..n /\ DOMAIN a = 1..n + 1
      /\ a[n + 1] = k /\ \A i \in 1..n : a[i] = s[i]
  OBVIOUS
<1> HIDE DEF n, a
<1>2. 1..n + 1 = (1..n) \cup {n + 1} /\ n + 1 \notin 1..n
  BY <1>1
<1>3. ToSet(s) = {s[i] : i \in 1..n} /\ ToSet(a) = {a[i] : i \in 1..n + 1}
  BY <1>1 DEF ToSet
<1>4. ToSet(a) = ToSet(s) \cup {k}
  BY <1>1, <1>2, <1>3
<1>5. ASSUME IsInjective(s), k \notin ToSet(s) PROVE IsInjective(a)
  BY <1>1, <1>2, <1>3, <1>5 DEF IsInjective
<1> QED
  BY <1>4, <1>5 DEF a

LEMMA SignedOnceStep ==
  ASSUME IInv, RestTyped, QueuedBare, SignaturesNew, SignedOnce, [Step]_vars
  PROVE  SignedOnce'
<1>0. Typed
  BY DEF IInv
<1> SUFFICES ASSUME NEW u \in Tx, NEW q \in {multisignature', unconfirmed'}, q[u] # None,
                    ~Excepts({"raced", "again"}, u)'
             PROVE  IsInjective(q[u].sigs)
  BY DEF SignedOnce
<1>1. ~Excepts({"raced", "again"}, u) /\ ~Excepts({"raced"}, u)'
  <2>1. ~Excepts({"raced", "again"}, u)
    BY StepRemembers, ExceptsRemembered DEF Kinds
  <2> QED
    BY <2>1 DEF Excepts
<1>2. Origin(u, q[u].sigs)
  BY SignatureOrigin
<1>3. ASSUME NEW old \in {multisignature, unconfirmed}, old[u] # None
      PROVE  IsInjective(old[u].sigs)
  BY <1>1, <1>3 DEF SignedOnce
<1>4. ASSUME NEW old \in {multisignature, unconfirmed}, old[u] # None, old[u] \in Copy,
             line # <<>>, Head(line).t = u, Head(line).of \in Members,
             q[u].sigs = Append(old[u].sigs, Head(line).of),
             \/ Head(line).do = "store"
             \/ Head(line).do = "sign" /\ Head(line).of \notin ToSet(old[u].sigs)
      PROVE  IsInjective(q[u].sigs)
  <2>1. Head(line) = line[1] /\ 1 \in DOMAIN line
    BY <1>0, <1>4 DEF Typed
  <2>2. Head(line).of \notin ToSet(old[u].sigs)
    BY <1>1, <1>4, <2>1 DEF SignaturesNew, NewSignature, Has
  <2>3. old[u].sigs \in Seq(Members)
    BY <1>4 DEF Copy
  <2> QED
    BY <1>3, <1>4, <2>2, <2>3, AppendedOnce
<1>5. IsInjective(<<>>)
  BY DEF IsInjective
<1> QED
  BY <1>1, <1>2, <1>3, <1>4, <1>5 DEF Origin

LEMMA SignaturesNewStep ==
  ASSUME IInv, RestTyped, OnePlace, QueuedBare, SignaturesNew, [Step]_vars
  PROVE  SignaturesNew'
<1>0. Typed
  BY DEF IInv
<1> DEFINE Earlier(i, t, k) ==
             \A j \in DOMAIN line' :
               j < i /\ line'[j].do \in {"sign", "store"} => line'[j].t # t \/ line'[j].of # k
<1> SUFFICES ASSUME NEW i \in DOMAIN line', line'[i].do = "store",
                    NEW u, u = line'[i].t, NEW k, k = line'[i].of,
                    ~Excepts({"raced", "again"}, u)'
             PROVE  ~Has(u, k)' /\ Earlier(i, u, k)
  BY DEF SignaturesNew, NewSignature
<1>1. ~Excepts({"raced", "again"}, u) /\ ~Excepts({"raced"}, u)'
  <2>1. ~Excepts({"raced", "again"}, u)
    BY StepRemembers, ExceptsRemembered DEF Kinds
  <2> QED
    BY <2>1 DEF Excepts
\* A signature to be stored before and after the step
<1>2. ASSUME NEW j \in DOMAIN line, line[j] = line'[i], u \in Tx, Has(u, k)'
      PROVE  /\ line # <<>> /\ Ends /\ Head(line).do \in {"sign", "store"}
             /\ Head(line).t = u /\ Head(line).of = k
  <2>1. PICK q \in {multisignature', unconfirmed'} : q[u] # None /\ k \in ToSet(q[u].sigs)
    BY <1>2 DEF Has
  <2>2. Origin(u, q[u].sigs)
    BY <1>2, <2>1, SignatureOrigin
  <2>3. ~Has(u, k)
    BY <1>1, <1>2 DEF SignaturesNew, NewSignature
  <2>4. Storing(u, k)
    BY <1>2 DEF Storing
  <2>5. ToSet(<<>>) = {}
    BY DEF ToSet
  <2>6. PICK old \in {multisignature, unconfirmed} :
          /\ old[u] # None /\ old[u] \in Copy
          /\ line # <<>> /\ Ends /\ Head(line).t = u /\ Head(line).of \in Members
          /\ q[u].sigs = Append(old[u].sigs, Head(line).of)
          /\ Head(line).do \in {"sign", "store"}
    BY <1>1, <2>1, <2>2, <2>3, <2>4, <2>5 DEF Origin, Has
  <2>7. old[u].sigs \in Seq(Members)
    BY <2>6 DEF Copy
  <2>8. ToSet(q[u].sigs) = ToSet(old[u].sigs) \cup {Head(line).of}
    BY <2>6, <2>7, AppendedOnce
  <2>9. k \notin ToSet(old[u].sigs)
    BY <2>3, <2>6 DEF Has
  <2> QED
    BY <2>1, <2>6, <2>8, <2>9
<1>3. CASE UNCHANGED line
  <2>1. i \in DOMAIN line /\ line[i] = line'[i] /\ u \in Tx
    BY <1>0, <1>3 DEF Typed, Tasks
  <2>2. ~(line # <<>> /\ Ends)
    BY <1>0, <1>3 DEF Ends, Typed
  <2>3. ~Has(u, k)'
    BY <1>2, <2>1, <2>2
  <2>4. NewSignature(i)
    BY <1>1, <1>3, <2>1 DEF SignaturesNew
  <2> QED
    BY <1>3, <2>1, <2>3, <2>4 DEF NewSignature
<1>4. CASE line # <<>> /\ Ends
  <2>1. \A j \in DOMAIN line' : j + 1 \in DOMAIN line /\ line'[j] = line[j + 1]
    BY <1>0, <1>4, EndedTasks
  <2>2. u \in Tx /\ i \in Nat \ {0} /\ DOMAIN line \subseteq Nat /\ DOMAIN line' \subseteq Nat
    BY <1>0, <1>4, <2>1, EndsTyped DEF Typed, Tasks
  <2>3. NewSignature(i + 1)
    BY <1>1, <2>1 DEF SignaturesNew
  <2>4. Head(line) = line[1] /\ 1 \in DOMAIN line
    BY <1>0, <1>4 DEF Typed
  <2>5. 1 < i + 1
    BY <2>2
  <2>6. ~Has(u, k)'
    BY <1>2, <2>1, <2>2, <2>3, <2>4, <2>5 DEF NewSignature
  <2>7. ASSUME NEW j \in DOMAIN line', j < i, line'[j].do \in {"sign", "store"}
        PROVE  line'[j].t # u \/ line'[j].of # k
    <3>1. j + 1 < i + 1
      BY <2>2, <2>7
    <3> QED
      BY <2>1, <2>3, <2>7, <3>1 DEF NewSignature
  <2> QED
    BY <2>6, <2>7 DEF NewSignature
<1>5. ASSUME NEW task \in Tasks, Adds(task), UNCHANGED pool,
             task.do = "store" /\ ~Excepts({"raced", "again"}, task.t)' =>
               ~Storing(task.t, task.of) /\ ~Has(task.t, task.of)
      PROVE  ~Has(u, k)' /\ Earlier(i, u, k)
  <2>1. /\ DOMAIN line' = DOMAIN line \cup {Len(line) + 1} /\ Len(line) + 1 \notin DOMAIN line
        /\ \A j \in DOMAIN line : line'[j] = line[j]
        /\ line'[Len(line) + 1] = task
    BY <1>0, <1>5, AddedTasks
  <2>2. DOMAIN line = 1..Len(line) /\ Len(line) \in Nat
    BY <1>0 DEF Typed
  <2>3. \A t, l : Has(t, l)' => Has(t, l)
    BY <1>5 DEF Has, pool
  <2>4. CASE i \in DOMAIN line
    <3>1. NewSignature(i)
      BY <1>1, <2>1, <2>4 DEF SignaturesNew
    <3>2. \A j \in DOMAIN line' : j < i => j \in DOMAIN line
      BY <2>1, <2>2, <2>4
    <3> QED
      BY <2>1, <2>3, <2>4, <3>1, <3>2 DEF NewSignature
  <2>5. CASE i = Len(line) + 1
    <3>1. line'[i] = task
      BY <2>1, <2>5
    <3>2. ~Storing(u, k) /\ ~Has(u, k)
      BY <1>5, <3>1
    <3>3. \A j \in DOMAIN line' : j < i => j \in DOMAIN line /\ line'[j] = line[j]
      BY <2>1, <2>2, <2>5
    <3> QED
      BY <2>3, <3>2, <3>3 DEF NewSignature, Storing
  <2> QED
    BY <2>1, <2>4, <2>5
<1> QED
  BY <1>3, <1>4, <1>5, LineMoves

LEMMA QueuedBareStep ==
  ASSUME IInv, RestTyped, QueuedBare, [Step]_vars
  PROVE  QueuedBare'
<1>0. Typed
  BY DEF IInv
<1> SUFFICES ASSUME NEW u \in Tx, queued'[u] # None
             PROVE  u # "reg" /\ ~queued'[u].array
  BY DEF QueuedBare, In
<1>1. CASE queued'[u] = queued[u]
  BY <1>1 DEF QueuedBare, In
<1>2. ASSUME NEW v \in Verification, QueueVerified(v)
      PROVE  u # "reg" /\ ~queued'[u].array
  BY <1>0, <1>1, <1>2, VerifiedEffect
<1>3. CASE Received \/ BundledVerified
  BY <1>0, <1>2, <1>3 DEF Received, BundledVerified, Typed, VerifiedTyped
<1>4. CASE ApplyNext
  BY <1>0, <1>1, <1>4, ApplyEffect
<1>5. CASE FillPool
  BY <1>0, <1>5, FillEffect
<1>6. ASSUME NEW S, NEW copies, Confirms(S, copies) PROVE queued'[u] = queued[u]
  BY <1>6 DEF Confirms, Drop
<1>7. CASE BlockGenerated \/ \E t \in Tx, copy \in BlockCopies : ApplyBlock(t, copy)
  BY <1>1, <1>6, <1>7 DEF BlockGenerated, ApplyBlock, ReceiveBlock
<1>8. CASE \E t \in Tx : Expire(t)
  BY <1>1, <1>8 DEF Expire, Drop
<1>9. \/ FillPool \/ ApplyNext \/ BlockGenerated \/ Received \/ BundledVerified
      \/ UNCHANGED queued
      \/ \E t \in Tx : Expire(t)
      \/ \E t \in Tx, copy \in BlockCopies : ApplyBlock(t, copy)
  BY DEF Step, AddTransactions, AddSignature, AddMultisignature, Submit, PostTransaction,
     PostTransactions, LoadTransactions, Receive, SignCalled, LoadSignature,
     PostSignature, CheckSignature, BundledNext, SignatureChecked, CreateTransaction,
     CreateSignature, CreateMultisignature, Create, ReceiveKnown, ReceiveTransaction,
     ReceiveBundledTransaction, StoreBegins, GenerateBlock, DeleteLastBlock, StoreSignature,
     Sign, pool, vars
<1> QED
  BY <1>1, <1>3, <1>4, <1>5, <1>7, <1>8, <1>9

-----------------------------------------------------------------------------
(* The account that a transaction has been read with, and that of now *)

LEMMA ConfirmsChain ==
  ASSUME RestTyped, NEW S, S \subseteq Tx, NEW copies, Confirms(S, copies)
  PROVE  /\ Confirmed' = Confirmed \cup S
         /\ "reg" \in S => Happens("changed", UnderWay)
<1>1. chain' = Append(chain, S) /\ chain \in Seq(SUBSET Tx)
  BY DEF Confirms, RestTyped
<1>2. ToSet(chain') = ToSet(chain) \cup {S}
  BY <1>1, AppendedOnce
<1> QED
  BY <1>2 DEF Confirms, Confirmed

LEMMA GroupStep ==
  ASSUME IInv, RestTyped, [Step]_vars
  PROVE  /\ Account'.group /\ ~Account.group => \A t \in UnderWay : Excepts({"changed"}, t)'
         /\ Account.group /\ ~Account'.group => \A t \in UnderWay : Excepts({"deleted"}, t)'
         /\ \A t \in Confirmed' : \/ t \in Confirmed
                                  \/ /\ queued'[t] = None /\ multisignature'[t] = None
                                     /\ unconfirmed'[t] = None
         /\ \/ UNCHANGED chain
            \/ DeleteLastBlock
            \/ \A t \in In(unconfirmed)' : t \in ToSet(worker')
<1>0. /\ Account.group <=> "reg" \in Confirmed
      /\ Account'.group <=> "reg" \in Confirmed'
  BY DEF Account
<1>1. CASE UNCHANGED chain
  <2>1. Confirmed' = Confirmed
    BY <1>1 DEF Confirmed
  <2> QED
    BY <1>0, <1>1, <2>1
<1>2. ASSUME NEW S, S \subseteq Tx, NEW copies, Confirms(S, copies)
      PROVE  /\ Account'.group /\ ~Account.group => \A t \in UnderWay : Excepts({"changed"}, t)'
             /\ Account.group /\ ~Account'.group => \A t \in UnderWay : Excepts({"deleted"}, t)'
             /\ \A t \in Confirmed' : \/ t \in Confirmed
                                      \/ /\ queued'[t] = None /\ multisignature'[t] = None
                                         /\ unconfirmed'[t] = None
             /\ \A t \in In(unconfirmed)' : t \in ToSet(worker')
  <2>1. /\ Confirmed' = Confirmed \cup S
        /\ "reg" \in S => Happens("changed", UnderWay)
    BY <1>2, ConfirmsChain
  <2>2. Happens("changed", UnderWay) => \A t \in UnderWay : Excepts({"changed"}, t)'
    BY DEF Happens, Excepts, RestTyped, Kinds
  <2>3. \A t \in S : /\ queued'[t] = None /\ multisignature'[t] = None
                     /\ unconfirmed'[t] = None
    BY <1>2 DEF Confirms, Drop
  <2>4. ToSet(worker') = In(unconfirmed)
    BY <1>2, ConfirmedWorker
  <2>5. In(unconfirmed)' \subseteq In(unconfirmed)
    BY <1>2 DEF Confirms, Drop, In
  <2> QED
    BY <1>0, <2>1, <2>2, <2>3, <2>4, <2>5
<1>3. CASE BlockGenerated
  BY <1>1, <1>2, <1>3 DEF BlockGenerated, IInv, ForgingEnough
<1>4. CASE \E t \in Tx, copy \in BlockCopies : ApplyBlock(t, copy)
  <2>1. PICK t \in Tx, copy \in BlockCopies : ApplyBlock(t, copy)
    BY <1>4
  <2>2. {t} \subseteq Tx /\ Confirms({t}, [w \in {t} |-> copy])
    BY <2>1 DEF ApplyBlock, ReceiveBlock
  <2> QED
    BY <1>2, <2>2
<1>5. CASE DeleteLastBlock
  <2>1. chain \in Seq(SUBSET Tx) /\ chain # <<>> /\ chain' = Front(chain)
    BY <1>5 DEF DeleteLastBlock, RestTyped
  <2>2. ToSet(chain) = ToSet(chain') \cup {Last(chain)}
    BY <2>1, FrontTyped
  <2>3. Confirmed' \subseteq Confirmed /\ Confirmed \subseteq Confirmed' \cup Last(chain)
    BY <2>2 DEF Confirmed
  <2>4. "reg" \in Last(chain) => \A t \in UnderWay : Excepts({"deleted"}, t)'
    BY <1>5 DEF DeleteLastBlock, Happens, Excepts, RestTyped, Kinds
  <2> QED
    BY <1>0, <1>5, <2>3, <2>4
<1>6. BlockGenerated \/ DeleteLastBlock \/ UNCHANGED chain
      \/ \E t \in Tx, copy \in BlockCopies : ApplyBlock(t, copy)
  BY DEF Step, AddTransactions, AddSignature, AddMultisignature, Submit, PostTransaction,
     PostTransactions, LoadTransactions, Receive, SignCalled, LoadSignature,
     PostSignature, CheckSignature, BundledNext, SignatureChecked, CreateTransaction,
     CreateSignature, CreateMultisignature, Create, ReceiveKnown, ReceiveTransaction,
     ReceiveBundledTransaction, Received, BundledVerified, Sign, StoreBegins, StoreSignature,
     FillPool, ApplyNext, GenerateBlock, Expire, vars
<1> QED
  BY <1>1, <1>3, <1>4, <1>5, <1>6

\* A copy whose account is still to be read.
ArrivedBare ==
  /\ \A t \in In(bundled) : ComesFromElsewhere(t, bundled[t])
  /\ \A i \in DOMAIN line :
       line[i].do \in {"receive", "bundle"} => ComesFromElsewhere(line[i].t, line[i].of)

\* While it is verified, it has one if its account has a group.
ArrayForGroup(v) ==
  /\ Account.group /\ ~v.copy.array => Excepts({"changed"}, v.t)
  /\ v.copy.array => Account.group \/ Excepts({"elsewhere", "deleted"}, v.t)
  /\ v.copy.sigs # <<>> => Excepts({"elsewhere"}, v.t)
  /\ v.copy.ready => Excepts({"believed"}, v.t)

VerifiedForGroup == \A v \in {receiver, bundler} \ {None} : ArrayForGroup(v)

LEMMA ArrivedBareStep ==
  ASSUME IInv, RestTyped, ArrivedBare, [Step]_vars
  PROVE  ArrivedBare'
<1>0. Typed
  BY DEF IInv
<1>1. \A t, copy : ComesFromElsewhere(t, copy) => ComesFromElsewhere(t, copy)'
  BY StepRemembers, ExceptsRemembered DEF Kinds, ComesFromElsewhere
<1>2. ASSUME NEW i \in DOMAIN line', line'[i].do \in {"receive", "bundle"}
      PROVE  ComesFromElsewhere(line[i].t, line[i].of)'
  <2>1. CASE FromBefore(line'[i])
    <3>1. PICK j \in DOMAIN line : line'[i] = line[j]
      BY <2>1 DEF FromBefore
    <3>2. PICK t, copy : t = line[j].t /\ copy = line[j].of
      OBVIOUS
    <3>3. ComesFromElsewhere(t, copy)
      BY <1>2, <3>1, <3>2 DEF ArrivedBare
    <3>4. ComesFromElsewhere(t, copy)'
      BY <1>1, <3>3
    <3> QED
      BY <3>1, <3>2, <3>4 DEF ComesFromElsewhere
  <2>2. CASE NewTask(line[i])'
    BY <1>2, <2>2 DEF NewTask
  <2> QED
    BY <2>1, <2>2, TasksStep
<1>3. ASSUME NEW t \in Tx, bundled'[t] # None
      PROVE  ComesFromElsewhere(t, bundled[t])'
  <2>1. CASE bundled'[t] = bundled[t]
    BY <1>1, <1>3, <2>1 DEF ArrivedBare, In
  <2>2. CASE ReceiveBundledTransaction
    <3>1. line # <<>> /\ Head(line).do = "bundle"
          /\ bundled' = Put(bundled, Head(line).t, Head(line).of)
      BY <2>2 DEF ReceiveBundledTransaction, Starts
    <3>2. Head(line) = line[1] /\ 1 \in DOMAIN line /\ Head(line).t \in Tx
      BY <1>0, <3>1, HeadTask DEF Typed
    <3>3. bundled'[t] = bundled[t] \/ (t = Head(line).t /\ bundled'[t] = Head(line).of)
      BY <1>0, <3>1, <3>2 DEF Put, Typed, Bundle
    <3> QED
      BY <1>1, <1>3, <2>1, <3>1, <3>2, <3>3 DEF ArrivedBare
  <2>3. CASE \E u \in Tx : BundledNext(u)
    BY <1>3, <2>1, <2>3 DEF BundledNext, Drop
  <2>4. ReceiveBundledTransaction \/ UNCHANGED bundled \/ \E u \in Tx : BundledNext(u)
    BY DEF Step, AddTransactions, AddSignature, AddMultisignature, Submit, PostTransaction,
       PostTransactions, LoadTransactions, Receive, SignCalled, LoadSignature,
       PostSignature, CheckSignature, SignatureChecked, CreateTransaction,
       CreateSignature, CreateMultisignature, Create, ReceiveKnown, ReceiveTransaction,
       Received, BundledVerified, Sign, StoreBegins, StoreSignature, ApplyBlock, ReceiveBlock,
       FillPool, ApplyNext, GenerateBlock, BlockGenerated, DeleteLastBlock, Expire, pool, vars
  <2> QED
    BY <2>1, <2>2, <2>3, <2>4
<1> QED
  BY <1>2, <1>3 DEF ArrivedBare, In

\* The account is read: its group is that of the account, the array too.
LEMMA BegunForGroup ==
  ASSUME RestTyped, NEW t \in Tx, NEW copy \in Copy, UNCHANGED chain,
         copy.array => Excepts({"elsewhere"}, t)', copy.ready => Excepts({"believed"}, t)',
         NEW v, v = Begins(t, copy)
  PROVE  ArrayForGroup(v)'
<1>1. /\ v.t = t /\ v.copy.sigs = copy.sigs /\ v.copy.ready = copy.ready
      /\ (v.copy.array <=> copy.array \/ Account.group) /\ copy \in Copy
  BY BegunCopy
<1>2. Account' = Account
  BY DEF Account, Confirmed
<1>3. copy.sigs # <<>> => copy.array
  BY <1>1 DEF Copy
<1>4. Excepts({"elsewhere"}, t)' => Excepts({"elsewhere", "deleted"}, t)'
  BY DEF Excepts
<1> QED
  BY <1>1, <1>2, <1>3, <1>4 DEF ArrayForGroup

LEMMA VerifiedForGroupStep ==
  ASSUME IInv, RestTyped, ArrivedBare, VerifiedForGroup, [Step]_vars
  PROVE  VerifiedForGroup'
<1>0. Typed
  BY DEF IInv
<1> SUFFICES ASSUME NEW v, v \in {receiver', bundler'}, v # None
             PROVE  ArrayForGroup(v)'
  BY DEF VerifiedForGroup
<1>1. \A t, kinds : kinds \subseteq Kinds /\ Excepts(kinds, t) => Excepts(kinds, t)'
  BY StepRemembers, ExceptsRemembered
<1>2. CASE v \in {receiver, bundler}
  <2>1. ArrayForGroup(v) /\ v.t \in UnderWay
    BY <1>2 DEF VerifiedForGroup, UnderWay
  <2>2. /\ Excepts({"changed"}, v.t) => Excepts({"changed"}, v.t)'
        /\ Excepts({"elsewhere"}, v.t) => Excepts({"elsewhere"}, v.t)'
        /\ Excepts({"believed"}, v.t) => Excepts({"believed"}, v.t)'
        /\ Excepts({"elsewhere", "deleted"}, v.t) => Excepts({"elsewhere", "deleted"}, v.t)'
    BY <1>1 DEF Kinds
  <2>3. /\ Account'.group /\ ~Account.group => Excepts({"changed"}, v.t)'
        /\ Account.group /\ ~Account'.group => Excepts({"deleted"}, v.t)'
    BY <2>1, GroupStep
  <2>4. Excepts({"deleted"}, v.t)' => Excepts({"elsewhere", "deleted"}, v.t)'
    BY DEF Excepts
  <2> QED
    BY <2>1, <2>2, <2>3, <2>4 DEF ArrayForGroup
<1>3. ASSUME NEW t \in Tx, Create(t) PROVE ArrayForGroup(v)'
  <2>1. UNCHANGED <<chain, bundler>>
    BY <1>3 DEF Create
  <2>2. CASE receiver' = Begins(t, Plain)
    <3>1. Plain \in Copy /\ ~Plain.array /\ ~Plain.ready
      BY DEF Plain, Copy
    <3> QED
      BY <1>2, <2>1, <2>2, <3>1, BegunForGroup
  <2>3. CASE receiver' = None
    BY <1>2, <2>1, <2>3
  <2> QED
    BY <1>3, <2>2, <2>3 DEF Create, Ends
<1>4. CASE ReceiveTransaction
  <2>1. line # <<>> /\ Head(line).do = "receive"
        /\ receiver' = Begins(Head(line).t, Head(line).of) /\ UNCHANGED <<chain, bundler>>
    BY <1>4 DEF ReceiveTransaction, Starts
  <2>2. PICK t \in Tx, copy \in Copy : t = Head(line).t /\ copy = Head(line).of
    BY <1>0, <2>1, HeadTask
  <2>3. Head(line) = line[1] /\ 1 \in DOMAIN line
    BY <1>0, <2>1 DEF Typed
  <2>4. ComesFromElsewhere(t, copy)
    BY <2>1, <2>2, <2>3 DEF ArrivedBare
  <2>5. (copy.array => Excepts({"elsewhere"}, t)') /\ (copy.ready => Excepts({"believed"}, t)')
    BY <1>1, <2>4 DEF Kinds, ComesFromElsewhere
  <2> QED
    BY <1>2, <2>1, <2>2, <2>5, BegunForGroup
<1>5. ASSUME NEW t \in Tx, BundledNext(t) PROVE ArrayForGroup(v)'
  <2>1. bundled[t] # None /\ bundler' = Begins(t, bundled[t]) /\ UNCHANGED <<chain, receiver>>
    BY <1>5 DEF BundledNext, turn
  <2>2. bundled[t] \in Copy
    BY <1>0, <2>1 DEF Typed, Bundle
  <2>3. /\ bundled[t].array => Excepts({"elsewhere"}, t)'
        /\ bundled[t].ready => Excepts({"believed"}, t)'
    BY <1>1, <2>1 DEF ArrivedBare, ComesFromElsewhere, In, Kinds
  <2> QED
    BY <1>2, <2>1, <2>2, <2>3, BegunForGroup
<1>6. \/ ReceiveTransaction
      \/ \E t \in Tx : BundledNext(t) \/ Create(t)
      \/ (receiver' = None \/ UNCHANGED receiver) /\ (bundler' = None \/ UNCHANGED bundler)
  BY DEF Step, AddTransactions, AddSignature, AddMultisignature, Submit, PostTransaction,
       PostTransactions, LoadTransactions, Receive, SignCalled, LoadSignature,
       PostSignature, CheckSignature, SignatureChecked, CreateTransaction, Ends, Tx,
       CreateSignature, CreateMultisignature, ReceiveKnown, ReceiveBundledTransaction,
       Received, BundledVerified, Sign, StoreBegins, StoreSignature, ApplyBlock, ReceiveBlock,
       FillPool, ApplyNext, GenerateBlock, BlockGenerated, DeleteLastBlock, Expire, turn, vars
<1> QED
  BY <1>2, <1>3, <1>4, <1>5, <1>6

\* A copy comes from a verification that has ended well.
Verified(u, copy) ==
  \E v \in {receiver, bundler} :
    /\ v # None /\ v \in Verification /\ v.t = u /\ copy = v.copy
    /\ Verifies(u, v.copy, v.sender)
    /\ UNCHANGED chain

\* A copy gets one signature more, which is the first task's.
Signs(u, old, copy) ==
  /\ old \in Copy /\ old # None
  /\ line # <<>> /\ Head(line).t = u /\ Head(line).of \in Members
  /\ copy = Signed(u, old, Head(line).of)
  /\ UNCHANGED <<chain, worker>>

LEMMA QueuedOrigin ==
  ASSUME IInv, RestTyped, [Step]_vars, NEW u \in Tx, queued'[u] # None
  PROVE  \/ queued'[u] = queued[u]
         \/ Verified(u, queued'[u]) /\ ~queued'[u].array
<1>0. Typed
  BY DEF IInv
<1>1. ASSUME NEW v \in {receiver, bundler}, v # None, v \in Verification, QueueVerified(v),
             UNCHANGED chain
      PROVE  queued'[u] = queued[u] \/ (Verified(u, queued'[u]) /\ ~queued'[u].array)
  BY <1>0, <1>1, VerifiedEffect DEF Verified
<1>2. CASE Received \/ BundledVerified
  BY <1>0, <1>1, <1>2 DEF Received, BundledVerified, Typed, VerifiedTyped
<1>3. CASE ApplyNext
  BY <1>0, <1>3, ApplyEffect
<1>4. CASE FillPool
  BY <1>0, <1>4, FillEffect
<1>5. ASSUME NEW S, NEW copies, Confirms(S, copies) PROVE queued'[u] = queued[u]
  BY <1>5 DEF Confirms, Drop
<1>6. CASE BlockGenerated \/ \E t \in Tx, copy \in BlockCopies : ApplyBlock(t, copy)
  BY <1>5, <1>6 DEF BlockGenerated, ApplyBlock, ReceiveBlock
<1>7. CASE \E t \in Tx : Expire(t)
  BY <1>7 DEF Expire, Drop
<1>8. \/ FillPool \/ ApplyNext \/ BlockGenerated \/ Received \/ BundledVerified
      \/ UNCHANGED queued
      \/ \E t \in Tx : Expire(t)
      \/ \E t \in Tx, copy \in BlockCopies : ApplyBlock(t, copy)
  BY DEF Step, AddTransactions, AddSignature, AddMultisignature, Submit, PostTransaction,
     PostTransactions, LoadTransactions, Receive, SignCalled, LoadSignature,
     PostSignature, CheckSignature, BundledNext, SignatureChecked, CreateTransaction,
     CreateSignature, CreateMultisignature, Create, ReceiveKnown, ReceiveTransaction,
     ReceiveBundledTransaction, StoreBegins, GenerateBlock, DeleteLastBlock, StoreSignature,
     Sign, pool, vars
<1> QED
  BY <1>2, <1>3, <1>4, <1>6, <1>7, <1>8

LEMMA WaitingOrigin ==
  ASSUME IInv, RestTyped, [Step]_vars, NEW u \in Tx, multisignature'[u] # None
  PROVE  \/ multisignature'[u] = multisignature[u]
         \/ Verified(u, multisignature'[u]) /\ (u = "reg" \/ multisignature'[u].array)
         \/ Signs(u, multisignature[u], multisignature'[u])
<1>0. Typed
  BY DEF IInv
<1>1. ASSUME NEW v \in {receiver, bundler}, v # None, v \in Verification, QueueVerified(v),
             UNCHANGED chain
      PROVE  \/ multisignature'[u] = multisignature[u]
             \/ Verified(u, multisignature'[u]) /\ (u = "reg" \/ multisignature'[u].array)
  BY <1>0, <1>1, VerifiedEffect DEF Verified
<1>2. CASE Received \/ BundledVerified
  BY <1>0, <1>1, <1>2 DEF Received, BundledVerified, Typed, VerifiedTyped
<1>3. CASE Sign
  <2> DEFINE t == Head(line).t
             k == Head(line).of
  <2>1. line # <<>> /\ Head(line).do = "sign" /\ UNCHANGED <<chain, worker>>
    BY <1>3 DEF Sign, Starts
  <2>2. t \in Tx /\ k \in Members
    BY <1>0, <2>1, HeadTask
  <2>3. \/ multisignature' = multisignature
        \/ /\ multisignature[t] # None
           /\ multisignature' = [multisignature EXCEPT ![t] = Signed(t, multisignature[t], k)]
    BY <1>3 DEF Sign
  <2>4. multisignature \in Queue
    BY <1>0 DEF Typed
  <2> HIDE DEF t, k
  <2>5. \/ multisignature'[u] = multisignature[u]
        \/ u = t /\ multisignature[u] # None /\ multisignature[u] \in Copy
           /\ multisignature'[u] = Signed(t, multisignature[t], k)
    BY <2>2, <2>3, <2>4 DEF Queue
  <2> QED
    BY <2>1, <2>2, <2>5 DEF Signs, t, k
<1>4. CASE StoreSignature
  <2>1. UNCHANGED <<chain, worker>>
    BY <1>4 DEF StoreSignature
  <2> QED
    BY <1>0, <1>4, <2>1, StoreEffect DEF Signs
<1>5. CASE FillPool
  BY <1>0, <1>5, FillEffect
<1>6. CASE ApplyNext
  BY <1>0, <1>6, ApplyEffect
<1>7. ASSUME NEW S, NEW copies, Confirms(S, copies)
      PROVE  multisignature'[u] = multisignature[u]
  BY <1>7 DEF Confirms, Drop
<1>8. CASE BlockGenerated \/ \E t \in Tx, copy \in BlockCopies : ApplyBlock(t, copy)
  BY <1>7, <1>8 DEF BlockGenerated, ApplyBlock, ReceiveBlock
<1>9. CASE \E t \in Tx : Expire(t)
  BY <1>9 DEF Expire, Drop
<1>10. \/ FillPool \/ ApplyNext \/ BlockGenerated \/ Received \/ BundledVerified \/ Sign
       \/ StoreSignature \/ UNCHANGED multisignature
       \/ \E t \in Tx : Expire(t)
       \/ \E t \in Tx, copy \in BlockCopies : ApplyBlock(t, copy)
  BY DEF Step, AddTransactions, AddSignature, AddMultisignature, Submit, PostTransaction,
     PostTransactions, LoadTransactions, Receive, SignCalled, LoadSignature,
     PostSignature, CheckSignature, BundledNext, SignatureChecked, CreateTransaction,
     CreateSignature, CreateMultisignature, Create, ReceiveKnown, ReceiveTransaction,
     ReceiveBundledTransaction, StoreBegins, GenerateBlock, DeleteLastBlock, pool, vars
<1> QED
  BY <1>2, <1>3, <1>4, <1>5, <1>6, <1>8, <1>9, <1>10

LEMMA UnconfirmedOrigin ==
  ASSUME IInv, RestTyped, WorkerOnce, [Step]_vars, NEW u \in Tx, unconfirmed'[u] # None
  PROVE  \/ /\ unconfirmed'[u] = unconfirmed[u]
            /\ u \in ToSet(worker) => u \in ToSet(worker')
         \/ /\ u \in Complete /\ multisignature[u] # None /\ unconfirmed'[u] = multisignature[u]
            /\ u \in ToSet(worker') /\ UNCHANGED chain
         \/ /\ queued[u] # None /\ unconfirmed'[u] = queued[u]
            /\ u \in ToSet(worker') /\ UNCHANGED chain
         \/ Signs(u, unconfirmed[u], unconfirmed'[u]) /\ Head(line).do = "store"
         \/ /\ unconfirmed[u] \in Copy /\ unconfirmed[u] # None
            /\ unconfirmed'[u] = Begins(u, unconfirmed[u]).copy
            /\ Verifies(u, unconfirmed'[u], Account) /\ UNCHANGED chain
<1>0. Typed
  BY DEF IInv
<1>1. CASE UNCHANGED <<unconfirmed, worker>>
  BY <1>1
<1>2. CASE StoreSignature
  <2>1. UNCHANGED <<chain, worker>>
    BY <1>2 DEF StoreSignature
  <2> QED
    BY <1>0, <1>2, <2>1, StoreEffect DEF Signs
<1>3. CASE FillPool
  <2>1. UNCHANGED chain /\ worker = <<>>
    BY <1>3 DEF FillPool, Resting
  <2>2. ToSet(worker) = {} /\ ToSet(worker') = Complete \cup In(queued)
    BY <1>3, <2>1, FilledWorker DEF ToSet
  <2>3. queued[u] # None => u \in In(queued)
    BY DEF In
  <2> QED
    BY <1>0, <1>3, <2>1, <2>2, <2>3, FillEffect
<1>4. CASE ApplyNext
  <2>1. UNCHANGED chain /\ ToSet(worker') = ToSet(worker) \ {Head(worker)}
    BY <1>4, TailOnce DEF ApplyNext, RestTyped, WorkerOnce
  <2>2. CASE u # Head(worker)
    BY <1>0, <1>4, <2>1, <2>2, ApplyEffect
  <2>3. CASE u = Head(worker)
    BY <1>0, <1>4, <2>1, <2>3, ApplyEffect, CopyIsSome
  <2> QED
    BY <2>2, <2>3
<1>5. ASSUME NEW S, NEW copies, Confirms(S, copies)
      PROVE  unconfirmed'[u] = unconfirmed[u] /\ u \in ToSet(worker')
  BY <1>5, ConfirmedWorker DEF Confirms, Drop, In
<1>6. CASE BlockGenerated \/ \E t \in Tx, copy \in BlockCopies : ApplyBlock(t, copy)
  BY <1>5, <1>6 DEF BlockGenerated, ApplyBlock, ReceiveBlock
<1>7. CASE \E t \in Tx : Expire(t)
  BY <1>7 DEF Expire, Drop
<1>8. \/ FillPool \/ ApplyNext \/ BlockGenerated
      \/ StoreSignature \/ UNCHANGED <<unconfirmed, worker>>
      \/ \E t \in Tx : Expire(t)
      \/ \E t \in Tx, copy \in BlockCopies : ApplyBlock(t, copy)
  BY DEF Step, AddTransactions, AddSignature, AddMultisignature, Submit, PostTransaction,
     PostTransactions, LoadTransactions, Receive, SignCalled, LoadSignature,
     PostSignature, CheckSignature, BundledNext, SignatureChecked, CreateTransaction,
     CreateSignature, CreateMultisignature, Create, ReceiveKnown, ReceiveTransaction,
     ReceiveBundledTransaction, StoreBegins, GenerateBlock, DeleteLastBlock, Received,
     BundledVerified, Sign, pool, vars
<1> QED
  BY <1>1, <1>2, <1>3, <1>4, <1>6, <1>7, <1>8
-----------------------------------------------------------------------------
(* What waits is confirmed by no block, and has the group of its account.  *)

NotConfirmed ==
  \A t \in In(queued) \cup In(multisignature) \cup In(unconfirmed) : t \notin Confirmed

\* A signature to be stored is for a registration, or its account had a group.
StoreGroup ==
  \A i \in DOMAIN line :
    line[i].do = "store" /\ line[i].t # "reg" => Account.group \/ Excepts({"deleted"}, line[i].t)

\* What needs no signatures is of an account without a group.
QueuedGroup == \A t \in In(queued) : Account.group => Excepts({"changed"}, t)

\* What waits for signatures registers a group, or is of one.
WaitsForGroup ==
  \A t \in In(multisignature) :
    t = "reg" \/ Account.group \/ Excepts({"elsewhere", "deleted"}, t)

\* What is called ready is ready.
ReadyTruly ==
  \A t \in In(multisignature) :
    multisignature[t].ready =>
      \/ Ready(t, multisignature[t], Account)
      \/ Excepts({"changed", "believed"}, t)

\* What has been applied would still verify.
VerifiesStill ==
  \A t \in In(unconfirmed) \ ToSet(worker) :
    Verifies(t, unconfirmed[t], Account) \/ Excepts({"raced", "again", "deleted"}, t)

LEMMA SignedReady ==
  ASSUME NEW t \in Tx, NEW copy \in Copy, NEW k \in Members, NEW c, c = Signed(t, copy, k)
  PROVE  /\ c \in Copy /\ c.sigs = Append(copy.sigs, k) /\ Len(c.sigs) = Len(copy.sigs) + 1
         /\ c.array /\ (c.ready <=> Ready(t, c, Account))
<1> DEFINE more == [copy EXCEPT !.sigs = Append(@, k), !.array = TRUE]
           longer == Append(copy.sigs, k)
<1>1. c \in Copy /\ c.sigs = longer
  BY SignedCopy
<1>2. more = [sigs |-> longer, array |-> TRUE, ready |-> copy.ready]
  <2>1. more = [copy EXCEPT !.sigs = longer, !.array = TRUE]
    OBVIOUS
  <2> HIDE DEF longer, more
  <2> QED
    BY <2>1 DEF Copy
<1>3. c = [more EXCEPT !.ready = Ready(t, more, Account)]
  BY DEF Signed
<1> HIDE DEF more
<1>4. c = [sigs |-> longer, array |-> TRUE, ready |-> Ready(t, more, Account)]
  BY <1>2, <1>3
<1>5. c.array /\ c.ready = Ready(t, more, Account)
  BY <1>4
<1>6. Ready(t, more, Account) <=> Ready(t, c, Account)
  BY <1>2, <1>4 DEF Ready, RegistrationReady, TransferReady
<1>7. Len(longer) = Len(copy.sigs) + 1
  BY DEF Copy
<1> QED
  BY <1>1, <1>5, <1>6, <1>7

\* The group of what waits changes only with a block that is remembered.
LEMMA SameGroup ==
  ASSUME IInv, RestTyped, [Step]_vars, NEW u \in Tx,
         queued[u] # None \/ multisignature[u] # None \/ unconfirmed[u] # None
  PROVE  \/ Account'.group <=> Account.group
         \/ Account'.group /\ ~Account.group /\ Excepts({"changed"}, u)'
         \/ ~Account'.group /\ Account.group /\ Excepts({"deleted"}, u)'
<1>1. u \in UnderWay
  BY DEF UnderWay, In
<1>2. Account.group \in BOOLEAN /\ Account'.group \in BOOLEAN
  BY DEF Account
<1> QED
  BY <1>1, <1>2, GroupStep

LEMMA NotConfirmedStep ==
  ASSUME IInv, RestTyped, WorkerOnce, NotConfirmed, [Step]_vars
  PROVE  NotConfirmed'
<1> SUFFICES ASSUME NEW u \in Tx, u \in Confirmed',
                    queued'[u] # None \/ multisignature'[u] # None \/ unconfirmed'[u] # None
             PROVE  FALSE
  BY DEF NotConfirmed, In
<1>1. u \in Confirmed
  BY GroupStep
<1>2. queued[u] = None /\ multisignature[u] = None /\ unconfirmed[u] = None
  BY <1>1 DEF NotConfirmed, In
<1>3. ~Verified(u, queued'[u]) /\ ~Verified(u, multisignature'[u])
  BY <1>1 DEF Verified, Verifies
<1>4. queued'[u] = None
  BY <1>2, <1>3, QueuedOrigin
<1>5. multisignature'[u] = None
  BY <1>2, <1>3, WaitingOrigin DEF Signs
<1>6. unconfirmed'[u] = None
  BY <1>2, UnconfirmedOrigin DEF Signs
<1> QED
  BY <1>4, <1>5, <1>6

LEMMA StoreGroupStep ==
  ASSUME IInv, RestTyped, StoreGroup, [Step]_vars
  PROVE  StoreGroup'
<1> SUFFICES ASSUME NEW i \in DOMAIN line', NEW task, task = line'[i], task.do = "store",
                    task.t # "reg"
             PROVE  Account'.group \/ Excepts({"deleted"}, task.t)'
  BY DEF StoreGroup
<1>1. CASE FromBefore(task)
  <2>1. PICK j \in DOMAIN line : task = line[j]
    BY <1>1 DEF FromBefore
  <2>2. task.t \in UnderWay
    BY <2>1 DEF UnderWay
  <2>3. Excepts({"deleted"}, task.t) => Excepts({"deleted"}, task.t)'
    BY StepRemembers, ExceptsRemembered DEF Kinds
  <2>4. Account.group \/ Excepts({"deleted"}, task.t)
    BY <2>1 DEF StoreGroup
  <2> QED
    BY <2>2, <2>3, <2>4, GroupStep
<1>2. CASE NewTask(line[i])'
  BY <1>2 DEF NewTask
<1> QED
  BY <1>1, <1>2, TasksStep

LEMMA QueuedGroupStep ==
  ASSUME IInv, RestTyped, VerifiedForGroup, QueuedGroup, [Step]_vars
  PROVE  QueuedGroup'
<1> SUFFICES ASSUME NEW u \in Tx, queued'[u] # None, Account'.group
             PROVE  Excepts({"changed"}, u)'
  BY DEF QueuedGroup, In
<1>0. Excepts({"changed"}, u) => Excepts({"changed"}, u)'
  BY StepRemembers, ExceptsRemembered DEF Kinds
<1>1. CASE queued'[u] = queued[u]
  BY <1>0, <1>1, SameGroup DEF QueuedGroup, In
<1>2. CASE Verified(u, queued'[u]) /\ ~queued'[u].array
  <2>1. PICK v \in {receiver, bundler} : v # None /\ v.t = u /\ queued'[u] = v.copy
                                         /\ UNCHANGED chain
    BY <1>2 DEF Verified
  <2>2. Account' = Account /\ ArrayForGroup(v)
    BY <2>1 DEF Account, Confirmed, VerifiedForGroup
  <2> QED
    BY <1>0, <1>2, <2>1, <2>2 DEF ArrayForGroup
<1> QED
  BY <1>1, <1>2, QueuedOrigin

LEMMA WaitsForGroupStep ==
  ASSUME IInv, RestTyped, VerifiedForGroup, WaitsForGroup, [Step]_vars
  PROVE  WaitsForGroup'
<1> SUFFICES ASSUME NEW u \in Tx, multisignature'[u] # None, u # "reg", ~Account'.group
             PROVE  Excepts({"elsewhere", "deleted"}, u)'
  BY DEF WaitsForGroup, In
<1>0. /\ Excepts({"elsewhere", "deleted"}, u) => Excepts({"elsewhere", "deleted"}, u)'
      /\ Excepts({"deleted"}, u)' => Excepts({"elsewhere", "deleted"}, u)'
  <2>1. Excepts({"elsewhere", "deleted"}, u) => Excepts({"elsewhere", "deleted"}, u)'
    BY StepRemembers, ExceptsRemembered DEF Kinds
  <2> QED
    BY <2>1 DEF Excepts
<1>1. CASE multisignature'[u] = multisignature[u]
          \/ Signs(u, multisignature[u], multisignature'[u])
  <2>1. multisignature[u] # None
    BY <1>1 DEF Signs
  <2> QED
    BY <1>0, <2>1, SameGroup DEF WaitsForGroup, In
<1>2. CASE Verified(u, multisignature'[u]) /\ (u = "reg" \/ multisignature'[u].array)
  <2>1. PICK v \in {receiver, bundler} : v # None /\ v.t = u /\ multisignature'[u] = v.copy
                                         /\ UNCHANGED chain
    BY <1>2 DEF Verified
  <2>2. Account' = Account /\ ArrayForGroup(v)
    BY <2>1 DEF Account, Confirmed, VerifiedForGroup
  <2> QED
    BY <1>0, <1>2, <2>1, <2>2 DEF ArrayForGroup
<1> QED
  BY <1>1, <1>2, WaitingOrigin

\* With one signature more, what is ready stays so; a registration can only
\* have too many.
LEMMA ReadyMore ==
  ASSUME NEW t \in Tx \ {"reg"}, NEW copy \in Copy, NEW k \in Members,
         Ready(t, copy, Account)
  PROVE  Ready(t, Signed(t, copy, k), Account)
<1>1. PICK c : c = Signed(t, copy, k)
  OBVIOUS
<1>2. c.array /\ Len(c.sigs) = Len(copy.sigs) + 1
  BY <1>1, SignedReady
<1>3. Len(copy.sigs) \in Nat /\ MinSigs \in Int
  BY SignaturesAssumption, FS_CardinalityType DEF Copy
<1> HIDE DEF Signed
<1> QED
  BY <1>1, <1>2, <1>3 DEF Ready, TransferReady

LEMMA NoSignatures ==
  ASSUME NEW t \in Tx, NEW copy \in Copy, copy.sigs = <<>>, Ready(t, copy, Account)
  PROVE  t # "reg" /\ ~Account.group
<1>1. Cardinality(Members) \in Nat /\ MinSigs \in 2 .. Cardinality(Members)
  BY SignaturesAssumption, FS_CardinalityType
<1>2. Len(copy.sigs) = 0
  OBVIOUS
<1> QED
  BY <1>1, <1>2 DEF Ready, RegistrationReady, TransferReady

\* Ready or not depends on the group only.
LEMMA SameReady ==
  ASSUME NEW t, NEW copy, Account'.group <=> Account.group, Ready(t, copy, Account)
  PROVE  Ready(t, copy, Account')
  BY DEF Ready, RegistrationReady, TransferReady

LEMMA ReadyTrulyStep ==
  ASSUME IInv, RestTyped, VerifiedForGroup, WorkerOnce, NotConfirmed, ReadyTruly, [Step]_vars
  PROVE  ReadyTruly'
<1>0. Typed /\ NotConfirmed'
  BY NotConfirmedStep DEF IInv
<1> SUFFICES ASSUME NEW u \in Tx, multisignature'[u] # None, multisignature'[u].ready,
                    ~Excepts({"changed", "believed"}, u)'
             PROVE  Ready(u, multisignature'[u], Account')
  BY DEF ReadyTruly, In
<1>1. ~Excepts({"changed", "believed"}, u) /\ ~Excepts({"believed"}, u) /\ ~Excepts({"changed"}, u)'
  <2>1. ~Excepts({"changed", "believed"}, u)
    BY StepRemembers, ExceptsRemembered DEF Kinds
  <2> QED
    BY <2>1 DEF Excepts
<1>2. u = "reg" => ~Account'.group
  BY <1>0 DEF NotConfirmed, In, Account
<1>3. CASE multisignature'[u] = multisignature[u]
  <2>1. Ready(u, multisignature[u], Account)
    BY <1>1, <1>3 DEF ReadyTruly, In
  <2>2. CASE Account'.group <=> Account.group
    BY <1>3, <2>1, <2>2, SameReady
  <2>3. CASE Account.group /\ ~Account'.group
    <3>1. u # "reg"
      BY <1>3, <2>3 DEF NotConfirmed, In, Account
    <3> QED
      BY <2>3, <3>1 DEF Ready, TransferReady
  <2> QED
    BY <1>1, <1>3, <2>2, <2>3, SameGroup
<1>4. CASE Signs(u, multisignature[u], multisignature'[u])
  <2>1. UNCHANGED chain
    BY <1>4 DEF Signs
  <2>2. Ready(u, multisignature'[u], Account) /\ Account' = Account
    BY <1>4, <2>1, SignedReady DEF Signs, Account, Confirmed
  <2> QED
    BY <2>2
<1>5. CASE Verified(u, multisignature'[u]) /\ (u = "reg" \/ multisignature'[u].array)
  <2>1. PICK v \in {receiver, bundler} : /\ v # None /\ v \in Verification /\ v.t = u
                                         /\ multisignature'[u] = v.copy /\ UNCHANGED chain
    BY <1>5 DEF Verified
  <2>2. ArrayForGroup(v)
    BY <2>1 DEF VerifiedForGroup
  <2> QED
    BY <1>1, <2>1, <2>2 DEF ArrayForGroup
<1> QED
  BY <1>3, <1>4, <1>5, WaitingOrigin

LEMMA ReadyExactStep ==
  ASSUME IInv, RestTyped, VerifiedForGroup, WorkerOnce, NotConfirmed, WaitsForGroup,
         ReadyExact, [Step]_vars
  PROVE  ReadyExact'
<1>0. Typed /\ NotConfirmed' /\ Typed'
  BY NotConfirmedStep, StepIInv DEF IInv
<1> SUFFICES ASSUME NEW u \in Tx, multisignature'[u] # None,
                    ~Excepts({"elsewhere", "believed", "deleted"}, u)'
             PROVE  multisignature'[u].ready = Ready(u, multisignature'[u], Account')
  BY DEF ReadyExact, In
<1>1. /\ ~Excepts({"elsewhere", "believed", "deleted"}, u) /\ ~Excepts({"elsewhere", "deleted"}, u)
      /\ ~Excepts({"elsewhere"}, u) /\ ~Excepts({"believed"}, u) /\ ~Excepts({"deleted"}, u)'
  <2>1. ~Excepts({"elsewhere", "believed", "deleted"}, u)
    BY StepRemembers, ExceptsRemembered DEF Kinds
  <2> QED
    BY <2>1 DEF Excepts
<1>2. u = "reg" => ~Account'.group
  BY <1>0 DEF NotConfirmed, In, Account
<1>3. CASE multisignature'[u] = multisignature[u]
  <2>1. multisignature[u].ready = Ready(u, multisignature[u], Account)
    BY <1>1, <1>3 DEF ReadyExact, In
  <2>2. u = "reg" \/ Account.group
    BY <1>1, <1>3 DEF WaitsForGroup, In
  <2>3. Account'.group <=> Account.group
    BY <1>1, <1>2, <1>3, <2>2, SameGroup
  <2>4. Ready(u, multisignature[u], Account') = Ready(u, multisignature[u], Account)
    BY <2>3 DEF Ready, RegistrationReady, TransferReady
  <2> QED
    BY <1>3, <2>1, <2>4
<1>4. CASE Signs(u, multisignature[u], multisignature'[u])
  <2>1. UNCHANGED chain
    BY <1>4 DEF Signs
  <2>2. multisignature'[u] \in Copy /\ Account' = Account
        /\ (multisignature'[u].ready <=> Ready(u, multisignature'[u], Account))
    BY <1>4, <2>1, SignedReady DEF Signs, Account, Confirmed
  <2>3. multisignature'[u].ready \in BOOLEAN
    BY <2>2 DEF Copy
  <2>4. Ready(u, multisignature'[u], Account) \in BOOLEAN
    BY <2>2 DEF Ready, RegistrationReady, TransferReady, Copy
  <2> QED
    BY <2>2, <2>3, <2>4
<1>5. CASE Verified(u, multisignature'[u]) /\ (u = "reg" \/ multisignature'[u].array)
  <2>1. PICK v \in {receiver, bundler} : /\ v # None /\ v \in Verification /\ v.t = u
                                         /\ multisignature'[u] = v.copy /\ UNCHANGED chain
    BY <1>5 DEF Verified
  <2>2. Account' = Account /\ ArrayForGroup(v) /\ v.copy \in Copy
    BY <2>1 DEF VerifiedForGroup, Verification, Account, Confirmed
  <2>3. v.copy.sigs = <<>> /\ ~v.copy.ready /\ (v.copy.array => Account.group)
    BY <1>1, <2>1, <2>2 DEF ArrayForGroup
  <2>4. ~Ready(u, v.copy, Account)
    BY <1>5, <2>1, <2>2, <2>3, NoSignatures
  <2>5. v.copy.ready = FALSE /\ Ready(u, v.copy, Account) = FALSE
    BY <2>2, <2>3, <2>4 DEF Copy, Ready, RegistrationReady, TransferReady
  <2> QED
    BY <2>1, <2>2, <2>5
<1> QED
  BY <1>3, <1>4, <1>5, WaitingOrigin

\* To a registration that is ready nobody can add a new signature.
LEMMA CompleteRegistration ==
  ASSUME NEW copy \in Copy, Len(copy.sigs) = Cardinality(Members), IsInjective(copy.sigs),
         NEW k \in Members
  PROVE  k \in ToSet(copy.sigs)
<1>1. Cardinality(Members) \in Nat /\ copy.sigs \in Seq(Members)
  BY SignaturesAssumption, FS_CardinalityType DEF Copy
<1>2. ToSet(copy.sigs) = Members
  BY <1>1, DifferentSignatures
<1> QED
  BY <1>2

\* The signature that is stored is new.
LEMMA StoredNew ==
  ASSUME Typed, SignaturesNew, line # <<>>, Head(line).do = "store",
         NEW u, u = Head(line).t, unconfirmed[u] # None, ~Excepts({"raced", "again"}, u)
  PROVE  Head(line).of \notin ToSet(unconfirmed[u].sigs)
<1>1. Head(line) = line[1] /\ 1 \in DOMAIN line
  BY DEF Typed
<1> QED
  BY <1>1 DEF SignaturesNew, NewSignature, Has

LEMMA NothingUnsignedStep ==
  ASSUME IInv, RestTyped, WorkerOnce, NotConfirmed, ReadyTruly, QueuedBare, QueuedGroup,
         SignedOnce, SignaturesNew, NothingUnsigned, [Step]_vars
  PROVE  NothingUnsigned'
<1>0. Typed /\ NotConfirmed'
  BY NotConfirmedStep DEF IInv
<1> SUFFICES ASSUME NEW u \in Tx, unconfirmed'[u] # None,
                    ~Excepts({"changed", "raced", "again", "believed"}, u)'
             PROVE  Ready(u, unconfirmed'[u], Account')
  BY DEF NothingUnsigned, In
<1>1. /\ ~Excepts({"changed", "raced", "again", "believed"}, u) /\ ~Excepts({"changed"}, u)
      /\ ~Excepts({"changed", "believed"}, u) /\ ~Excepts({"raced", "again"}, u)
      /\ ~Excepts({"changed"}, u)'
  <2>1. ~Excepts({"changed", "raced", "again", "believed"}, u)
    BY StepRemembers, ExceptsRemembered DEF Kinds
  <2> QED
    BY <2>1 DEF Excepts
<1>2. u = "reg" => ~Account'.group
  BY <1>0 DEF NotConfirmed, In, Account
<1>3. unconfirmed[u] # None => Ready(u, unconfirmed[u], Account)
  BY <1>1 DEF NothingUnsigned, In
<1>4. UNCHANGED chain => Account' = Account
  BY DEF Account, Confirmed
<1>5. CASE unconfirmed'[u] = unconfirmed[u]
  <2>1. Ready(u, unconfirmed[u], Account)
    BY <1>3, <1>5
  <2>2. CASE Account'.group <=> Account.group
    BY <1>5, <2>1, <2>2, SameReady
  <2>3. CASE Account.group /\ ~Account'.group
    <3>1. u # "reg"
      BY <1>5, <2>3 DEF NotConfirmed, In, Account
    <3> QED
      BY <2>3, <3>1 DEF Ready, TransferReady
  <2> QED
    BY <1>1, <1>5, <2>2, <2>3, SameGroup
<1>6. CASE /\ u \in Complete /\ multisignature[u] # None /\ unconfirmed'[u] = multisignature[u]
           /\ UNCHANGED chain
  <2>1. multisignature[u].ready /\ u \in In(multisignature)
    BY <1>6 DEF Complete
  <2> QED
    BY <1>1, <1>4, <1>6, <2>1 DEF ReadyTruly
<1>7. CASE queued[u] # None /\ unconfirmed'[u] = queued[u] /\ UNCHANGED chain
  <2>1. u # "reg" /\ ~Account.group
    BY <1>1, <1>7 DEF QueuedBare, QueuedGroup, In
  <2> QED
    BY <1>4, <1>7, <2>1 DEF Ready, TransferReady
<1>8. CASE Signs(u, unconfirmed[u], unconfirmed'[u]) /\ Head(line).do = "store"
  <2>1. PICK old \in Copy, k \in Members :
          /\ old = unconfirmed[u] /\ k = Head(line).of /\ unconfirmed'[u] = Signed(u, old, k)
    BY <1>8 DEF Signs
  <2>2. unconfirmed[u] # None /\ UNCHANGED chain /\ line # <<>> /\ Head(line).t = u
    BY <1>8 DEF Signs
  <2>3. Ready(u, old, Account)
    BY <1>3, <2>1, <2>2
  <2>4. CASE u # "reg"
    BY <1>4, <2>1, <2>2, <2>3, <2>4, ReadyMore
  <2>5. CASE u = "reg"
    <3>1. ~Account.group
      BY <1>2, <1>4, <2>2, <2>5
    <3>2. Len(old.sigs) = Cardinality(Members)
      BY <2>3, <2>5, <3>1 DEF Ready, RegistrationReady
    <3>3. IsInjective(old.sigs)
      BY <1>1, <2>1, <2>2 DEF SignedOnce
    <3>4. k \in ToSet(old.sigs)
      BY <3>2, <3>3, CompleteRegistration
    <3> QED
      BY <1>0, <1>1, <1>8, <2>1, <2>2, <3>4, StoredNew
  <2> QED
    BY <2>4, <2>5
<1>9. CASE /\ unconfirmed[u] \in Copy /\ unconfirmed[u] # None
           /\ unconfirmed'[u] = Begins(u, unconfirmed[u]).copy /\ UNCHANGED chain
  <2>1. PICK old \in Copy : old = unconfirmed[u]
    BY <1>9
  <2> DEFINE new == Begins(u, old).copy
  <2>2. new.sigs = old.sigs /\ (new.array <=> old.array \/ Account.group)
    BY <2>1, BegunCopy
  <2> HIDE DEF new
  <2>3. Ready(u, old, Account)
    BY <1>3, <1>9, <2>1
  <2>4. Ready(u, new, Account)
    BY <2>2, <2>3 DEF Ready, RegistrationReady, TransferReady
  <2> QED
    BY <1>4, <1>9, <2>1, <2>4 DEF new
<1> QED
  BY <1>5, <1>6, <1>7, <1>8, <1>9, UnconfirmedOrigin

LEMMA VerifiesStillStep ==
  ASSUME IInv, RestTyped, WorkerOnce, SignaturesNew, StoreGroup, VerifiesStill, [Step]_vars
  PROVE  VerifiesStill'
<1>0. Typed
  BY DEF IInv
<1> SUFFICES ASSUME NEW u \in Tx, unconfirmed'[u] # None, u \notin ToSet(worker'),
                    ~Excepts({"raced", "again", "deleted"}, u)'
             PROVE  Verifies(u, unconfirmed[u], Account)'
  BY DEF VerifiesStill, In
<1>1. /\ ~Excepts({"raced", "again", "deleted"}, u) /\ ~Excepts({"raced", "again"}, u)
      /\ ~Excepts({"deleted"}, u) /\ ~Excepts({"deleted"}, u)'
  <2>1. ~Excepts({"raced", "again", "deleted"}, u)
    BY StepRemembers, ExceptsRemembered DEF Kinds
  <2> QED
    BY <2>1 DEF Excepts
<1>2. UNCHANGED chain => Account' = Account /\ Confirmed' = Confirmed
  BY DEF Account, Confirmed
<1>3. unconfirmed[u] # None /\ u \notin ToSet(worker) => Verifies(u, unconfirmed[u], Account)
  BY <1>1 DEF VerifiesStill, In
<1>4. CASE /\ unconfirmed'[u] = unconfirmed[u]
           /\ u \in ToSet(worker) => u \in ToSet(worker')
  <2>1. Verifies(u, unconfirmed[u], Account)
    BY <1>3, <1>4
  <2>2. CASE UNCHANGED chain
    BY <1>2, <1>4, <2>1, <2>2 DEF Verifies
  <2>3. CASE DeleteLastBlock
    <3>1. chain \in Seq(SUBSET Tx) /\ chain # <<>> /\ chain' = Front(chain)
      BY <2>3 DEF DeleteLastBlock, RestTyped
    <3>2. Confirmed' \subseteq Confirmed
      BY <3>1, FrontTyped DEF Confirmed
    <3>3. (Account'.group => Account.group) /\ (Account'.second => Account.second)
      BY <3>2 DEF Account
    <3>4. Account'.group <=> Account.group
      BY <1>1, <1>4, <3>3, SameGroup
    <3>5. KeysOf(u, Account') = KeysOf(u, Account)
      BY <3>4 DEF KeysOf
    <3>6. Ready(u, unconfirmed[u], Account') => Ready(u, unconfirmed[u], Account)
      BY <3>4 DEF Ready, RegistrationReady, TransferReady
    <3>7. u = "reg" => MultisignatureVerifies(u, unconfirmed[u], Account')
      BY <2>1, <3>4, <3>6 DEF Verifies, MultisignatureVerifies
    <3> QED
      BY <1>4, <2>1, <3>2, <3>3, <3>5, <3>7 DEF Verifies, SignaturesVerify
  <2> QED
    BY <2>2, <2>3, GroupStep DEF In
<1>5. CASE Signs(u, unconfirmed[u], unconfirmed'[u]) /\ Head(line).do = "store"
  <2>1. PICK old \in Copy, k \in Members, new \in {unconfirmed'[u]} :
          /\ old = unconfirmed[u] /\ k = Head(line).of /\ new = Signed(u, old, k)
    BY <1>5 DEF Signs
  <2>2. /\ unconfirmed[u] # None /\ UNCHANGED <<chain, worker>> /\ line # <<>>
        /\ Head(line).t = u
    BY <1>5 DEF Signs
  <2>3. Verifies(u, old, Account)
    BY <1>3, <2>1, <2>2
  <2>4. new \in Copy /\ new.sigs = Append(old.sigs, k)
    BY <2>1, SignedReady
  <2>5. k \notin ToSet(old.sigs)
    BY <1>0, <1>1, <1>5, <2>1, <2>2, StoredNew
  <2>6. old.sigs \in Seq(Members) /\ new.sigs \in Seq(Members)
    BY <2>4 DEF Copy
  <2>7. IsInjective(new.sigs) /\ ToSet(new.sigs) = ToSet(old.sigs) \cup {k}
    BY <2>3, <2>4, <2>5, <2>6, AppendedOnce DEF Verifies, SignaturesVerify
  <2>8. k \in KeysOf(u, Account)
    <3>1. Head(line) = line[1] /\ 1 \in DOMAIN line
      BY <1>0, <2>2 DEF Typed
    <3>2. u = "reg" \/ Account.group
      BY <1>1, <1>5, <2>2, <3>1 DEF StoreGroup
    <3> QED
      BY <3>2 DEF KeysOf
  <2>9. SignaturesVerify(u, new, Account)
    BY <2>3, <2>7, <2>8 DEF Verifies, SignaturesVerify
  <2>10. u = "reg" => MultisignatureVerifies(u, new, Account)
    <3>1. ASSUME u = "reg", Ready(u, new, Account), ~Account.group
          PROVE  ToSet(new.sigs) = Members
      <4>1. Len(new.sigs) = Cardinality(Members) /\ Cardinality(Members) \in Nat
        BY <3>1, SignaturesAssumption, FS_CardinalityType DEF Ready, RegistrationReady
      <4> QED
        BY <2>6, <2>7, <4>1, DifferentSignatures
    <3> QED
      BY <2>3, <3>1 DEF Verifies, MultisignatureVerifies
  <2> QED
    BY <1>2, <2>1, <2>2, <2>3, <2>9, <2>10 DEF Verifies
<1>6. CASE Verifies(u, unconfirmed'[u], Account) /\ UNCHANGED chain
  BY <1>2, <1>6 DEF Verifies
<1> QED
  BY <1>4, <1>5, <1>6, UnconfirmedOrigin

-----------------------------------------------------------------------------
(* The whole invariant *)

Where == OnePlace /\ Exists /\ WorkerOnce /\ Applied
Signing == SignedOnce /\ SignaturesNew /\ QueuedBare /\ ArrivedBare /\ VerifiedForGroup
Grouped == NotConfirmed /\ StoreGroup /\ QueuedGroup /\ WaitsForGroup
Finished == ReadyTruly /\ ReadyExact /\ NothingUnsigned /\ VerifiesStill
Strong == IInv /\ RestTyped /\ Where /\ Signing /\ Grouped /\ Finished

\* Nothing waits: the process has been started.
Blank ==
  /\ RestTyped /\ GroupAgreed
  /\ line = <<>> /\ worker = <<>> /\ checking = <<>>
  /\ receiver = None /\ bundler = None /\ forging = None /\ ~storing
  /\ \A q \in {bundled, queued, multisignature, unconfirmed} : q = [t \in Tx |-> None]
  /\ applied = [t \in Tx |-> 0]

LEMMA BlankStrong == Blank => Strong
<1> SUFFICES ASSUME Blank PROVE Strong
  OBVIOUS
<1>1. /\ line = <<>> /\ worker = <<>> /\ forging = None /\ receiver = None
      /\ bundler = None /\ ~storing
      /\ \A t \in Tx : /\ bundled[t] = None /\ queued[t] = None /\ multisignature[t] = None
                       /\ unconfirmed[t] = None /\ applied[t] = 0
  BY DEF Blank
<1>2. /\ DOMAIN line = {} /\ ToSet(worker) = {}
      /\ In(bundled) = {} /\ In(queued) = {} /\ In(multisignature) = {} /\ In(unconfirmed) = {}
  BY <1>1 DEF In, ToSet
<1>3. IInv
  <2>1. [t \in Tx |-> None] \in Queue /\ Queue = Bundle
    BY DEF Queue, Bundle
  <2>2. Typed
    BY <1>1, <2>1 DEF Blank, Typed, VerifiedTyped
  <2> QED
    BY <1>1, <2>2 DEF Blank, IInv, ForgingEnough
<1>4. Where
  BY <1>1, <1>2 DEF Where, OnePlace, Alone, Exists, WorkerOnce, Applied, Counted, IsInjective,
     Receiving, Verifying, Pooled
<1>5. Signing
  BY <1>1, <1>2 DEF Signing, SignedOnce, SignaturesNew, QueuedBare, ArrivedBare,
     VerifiedForGroup
<1>6. Grouped
  BY <1>2 DEF Grouped, NotConfirmed, StoreGroup, QueuedGroup, WaitsForGroup
<1>7. Finished
  BY <1>2 DEF Finished, ReadyTruly, ReadyExact, NothingUnsigned, VerifiesStill
<1> QED
  BY <1>3, <1>4, <1>5, <1>6, <1>7 DEF Strong, Blank

LEMMA InitBlank == Init => Blank
<1> SUFFICES ASSUME Init PROVE Blank
  OBVIOUS
<1>1. RestTyped
  <2>1. applied \in [Tx -> Int] /\ mishaps \in [Kinds -> SUBSET Tx]
    BY DEF Init
  <2>2. <<>> \in Seq(SUBSET Tx) /\ <<>> \in Seq(Tx)
    OBVIOUS
  <2>3. chain \in Seq(SUBSET Tx) /\ worker \in Seq(Tx)
    BY <2>2 DEF Init
  <2>4. storing \in BOOLEAN /\ forging \in (SUBSET Tx) \cup {None}
    BY DEF Init
  <2> QED
    BY <2>1, <2>3, <2>4 DEF RestTyped
<1> QED
  BY <1>1 DEF Init, Blank, GroupAgreed

\* An exit leaves what the database has, and that is only what was agreed.
LEMMA ExitBlank ==
  ASSUME Strong, NEW t \in Tx, NEW copy \in BlockCopies, ExitAtBlock(t, copy)
  PROVE  Blank'
<1>1. IInv /\ RestTyped /\ forging = None /\ forging' = None /\ UNCHANGED <<chain, agreed>>
  BY DEF Strong, ExitAtBlock, ReceiveBlock, Resting, Exits
<1>2. RestTyped'
  <2>1. applied' \in [Tx -> Int] /\ mishaps' \in [Kinds -> SUBSET Tx]
    BY DEF ExitAtBlock, Exits
  <2>2. worker' = <<>> /\ <<>> \in Seq(Tx) /\ storing' = FALSE
    BY DEF ExitAtBlock, Exits
  <2> QED
    BY <1>1, <2>1, <2>2 DEF RestTyped
<1>3. GroupAgreed'
  BY <1>1 DEF IInv, GroupAgreed
<1> QED
  BY <1>1, <1>2, <1>3 DEF ExitAtBlock, Exits, Blank

LEMMA StepStrong == Strong /\ [Step]_vars => Strong'
<1> SUFFICES ASSUME Strong, [Step]_vars PROVE Strong'
  OBVIOUS
<1>1. IInv /\ RestTyped /\ Where /\ Signing /\ Grouped /\ Finished
  BY DEF Strong
<1>2. IInv' /\ RestTyped'
  BY <1>1, StepIInv, RestStep
<1>3. Where'
  BY <1>1, OnePlaceStep, ExistsStep, WorkerOnceStep, AppliedStep DEF Where
<1>4. Signing'
  BY <1>1, SignedOnceStep, SignaturesNewStep, QueuedBareStep, ArrivedBareStep,
     VerifiedForGroupStep DEF Signing, Where
<1>5. Grouped'
  BY <1>1, NotConfirmedStep, StoreGroupStep, QueuedGroupStep, WaitsForGroupStep
     DEF Grouped, Where, Signing
<1>6. Finished'
  BY <1>1, ReadyTrulyStep, ReadyExactStep, NothingUnsignedStep, VerifiesStillStep
     DEF Finished, Grouped, Where, Signing
<1> QED
  BY <1>2, <1>3, <1>4, <1>5, <1>6 DEF Strong

LEMMA AlwaysStrong == Spec => []Strong
<1>1. Init => Strong
  BY InitBlank, BlankStrong
<1>2. ASSUME Strong, [Next]_vars PROVE Strong' \/ Blank'
  <2>1. CASE [Step]_vars
    BY <1>2, <2>1, StepStrong
  <2>2. CASE \E t \in Tx, copy \in BlockCopies : ExitAtBlock(t, copy)
    BY <1>2, <2>2, ExitBlank
  <2> QED
    BY <1>2, <2>1, <2>2 DEF Next
<1>3. Strong /\ [Next]_vars => Strong' \/ Blank'
  BY <1>2
<1> QED
  BY <1>1, <1>3, BlankStrong, PTL DEF Spec

LEMMA StrongTypes == Strong => TypeOK
<1> SUFFICES ASSUME Strong PROVE TypeOK
  OBVIOUS
<1> DEFINE copies == [sigs : Seq(Members), array : BOOLEAN, ready : BOOLEAN]
           verification == [t : Tx, copy : copies, sender : [group : BOOLEAN, second : BOOLEAN]]
           tasks == [do : {"create", "receive", "bundle", "sign", "store"}, t : Tx,
                     of : copies \cup Members \cup {None}]
<1>1. Typed /\ RestTyped
  BY DEF Strong, IInv
<1>2. Copy \subseteq copies
  BY DEF Copy
<1>3. /\ bundled \in [Tx -> copies \cup {None}] /\ queued \in [Tx -> copies \cup {None}]
      /\ multisignature \in [Tx -> copies \cup {None}]
      /\ unconfirmed \in [Tx -> copies \cup {None}]
  BY <1>1, <1>2 DEF Typed, Bundle, Queue
<1>4. pool \in [1 .. 4 -> [Tx -> copies \cup {None}]]
  BY <1>3 DEF pool
<1>5. Tasks \subseteq tasks
  BY <1>2 DEF Tasks
<1>6. line \in Seq(tasks)
  <2>1. ASSUME NEW S, NEW R, S \subseteq R, NEW s \in Seq(S) PROVE s \in Seq(R)
    BY <2>1
  <2>2. line \in Seq(Tasks)
    BY <1>1 DEF Typed
  <2> HIDE DEF tasks
  <2> QED
    BY <1>5, <2>1, <2>2
<1>7. receiver \in verification \cup {None} /\ bundler \in verification \cup {None}
  BY <1>1, <1>2 DEF Typed, VerifiedTyped, Verification
<1>8. ASSUME NEW q \in {bundled, queued, multisignature, unconfirmed}, NEW t \in In(q)
      PROVE  q[t].sigs # <<>> => q[t].array
  <2>1. q[t] \in Copy
    BY <1>1, <1>2, <1>8 DEF Typed, Bundle, Queue, In
  <2> QED
    BY <2>1 DEF Copy
<1> QED
  BY <1>1, <1>4, <1>6, <1>7, <1>8 DEF TypeOK, RestTyped, Typed

(***************************************************************************)
(* In every behaviour what a block confirms has the signatures that the    *)
(* account asks for at that moment, and a group is registered with those   *)
(* of all its members: ready and verify of logic/multisignature.js, and    *)
(* verifySignatures of logic/transaction.js, against the signatures that   *)
(* modules/multisignatures.js adds without looking again.                  *)
(***************************************************************************)
THEOREM ConfirmedAgreed == Spec => []GroupAgreed
<1>1. Strong => GroupAgreed
  BY DEF Strong, IInv
<1> QED
  BY <1>1, AlwaysStrong, PTL

(***************************************************************************)
(* The copies in the queues are such as the code makes, and a signature is *)
(* kept once, by whatever ways it comes, but for the excuses of SignedOnce *)
(* (processSignature, processVerifyTransaction, sign).                     *)
(***************************************************************************)
THEOREM CopiesKept == Spec => []CopiesOK
<1>1. Strong => CopiesOK
  BY StrongTypes DEF Strong, Signing, CopiesOK
<1> QED
  BY <1>1, AlwaysStrong, PTL

(***************************************************************************)
(* What waits for signatures is called ready exactly when it is, and what  *)
(* has left for the unconfirmed queue has all of them (fillPool,           *)
(* getMultisignatureTransactionList, `ready' of the types).                *)
(***************************************************************************)
THEOREM SignaturesAreComplete == Spec => []SignaturesComplete
<1>1. Strong => SignaturesComplete
  BY DEF Strong, Finished, SignaturesComplete
<1> QED
  BY <1>1, AlwaysStrong, PTL

(***************************************************************************)
(* The node's own block verifies, though transactions get signatures while *)
(* it is made (generateBlock, processSignature, verifyBlock).              *)
(***************************************************************************)
THEOREM OwnBlockGood == Spec => []OwnBlockVerifies
<1>1. ASSUME Strong, forging # None, NEW t \in forging
      PROVE  Verifies(t, unconfirmed[t], Account) \/ Excepts({"raced", "again", "deleted"}, t)
  <2>1. worker = <<>> /\ t \in Tx /\ unconfirmed[t] \in Copy
    BY <1>1 DEF Strong, IInv, ForgingEnough
  <2>2. t \in In(unconfirmed) /\ ToSet(worker) = {}
    BY <2>1, CopyIsSome DEF In, ToSet
  <2> QED
    BY <1>1, <2>2 DEF Strong, Finished, VerifiesStill
<1>2. Strong => OwnBlockVerifies
  BY <1>1 DEF OwnBlockVerifies
<1> QED
  BY <1>2, AlwaysStrong, PTL

(***************************************************************************)
(* A transaction is applied to the unconfirmed balance once, however often *)
(* it comes and by whatever way, but for the excuses of AppliedOnce        *)
(* (applyUnconfirmedList, undoUnconfirmedList, queueTransaction).          *)
(***************************************************************************)
THEOREM AppliedExactlyOnce == Spec => []AppliedOnce
<1>1. Strong => AppliedOnce
  BY DEF Strong, Where, Applied, Counted, AppliedOnce
<1> QED
  BY <1>1, AlwaysStrong, PTL
=============================================================================
