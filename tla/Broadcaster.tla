---------------------------- MODULE Broadcaster -----------------------------
(***************************************************************************)
(* What a node tells its peers (logic/broadcaster.js, the events of        *)
(* modules/transport.js) and the headers it sends with every request       *)
(* (modules/system.js).                                                    *)
(*                                                                         *)
(* A transaction that enters the pool is enqueued.  A timer releases the   *)
(* queue: it filters out what is confirmed, takes some of the queue, lists *)
(* peers and posts to them.  All of these wait: the queue is filled and    *)
(* blocks are applied and deleted meanwhile.  A new block is broadcast     *)
(* once the headers were brought up to date.                               *)
(*                                                                         *)
(* The broadhash is the hash of the last five blocks: here the height.     *)
(* Whether there are peers is left open; module Peers says which.          *)
(***************************************************************************)
EXTENDS Integers, Sequences, FiniteSets, SequencesExt

CONSTANTS Transaction,
          Signature,      \* signatures for transactions that wait for them
          ReleaseLimit,   \* config.broadcasts.releaseLimit
          RelayLimit,     \* config.broadcasts.relayLimit
          MaxBlocks,      \* bound: blocks of the chain
          MaxDeleted      \* bound: blocks deleted

ASSUME BroadcasterAssumption ==
  /\ Transaction \cap Signature = {}
  /\ {ReleaseLimit, RelayLimit} \subseteq Nat \ {0}
  /\ {MaxBlocks, MaxDeleted} \subseteq Nat

VARIABLES
  pool,      \* transactions in the pool
  chain,     \* the transactions of the blocks
  deleted,   \* blocks deleted
  broadhash, \* __private.broadhash of modules/system.js, in the headers
  updates,   \* system.update under way: the broadhashes that each may read
  outdated,  \* history: why the headers may be of another block
  queue,     \* self.queue
  release,   \* where releaseQueue is
  filtering, \* the queue as the filter began
  unposted,  \* the broadcasts that were taken out of the queue
  fate       \* history: of everything that was enqueued, at most once each

vars == <<pool, chain, deleted, broadhash, updates, outdated, queue, release, filtering,
          unposted, fate>>
releaseVars == <<queue, release, filtering, unposted, fate>>
headerVars == <<chain, deleted, broadhash, updates, outdated>>

Item == Transaction \cup Signature
Tip == Len(chain)
Confirmed == UNION {chain[i] : i \in DOMAIN chain}
Mark(S, what) == [t \in Item |-> IF t \in S THEN what ELSE fate[t]]

-----------------------------------------------------------------------------
(* What is enqueued *)

\* maxRelays counts inside of the object: from the API it comes without a count,
\* from another peer with one.
MayRelay(relays) == relays < RelayLimit

Enqueue(t) ==
  /\ fate[t] = "none"
  /\ queue' = Append(queue, t)
  /\ fate' = Mark({t}, "queued")

\* onUnconfirmedTransaction, when the pool has taken the transaction in.
UnconfirmedTransaction(t, relays) ==
  /\ t \notin pool \cup Confirmed
  /\ pool' = pool \cup {t}
  /\ IF MayRelay(relays) THEN Enqueue(t) ELSE UNCHANGED <<queue, fate>>
  /\ UNCHANGED <<headerVars, release, filtering, unposted>>

\* onSignature: the same for a signature that the node has accepted.
AcceptedSignature(s, relays) ==
  /\ MayRelay(relays)
  /\ Enqueue(s)
  /\ UNCHANGED <<pool, headerVars, release, filtering, unposted>>

\* The pool gives a transaction up.
Expired(t) ==
  /\ t \in pool
  /\ pool' = pool \ {t}
  /\ UNCHANGED <<headerVars, releaseVars>>

-----------------------------------------------------------------------------
(* Blocks and the headers.  system.update asks the database for the last     *)
(* blocks: it may see the chain of any moment until it answers.              *)

Ask(us, tip) == Append(us, {tip})
Meanwhile(us, tip) == [i \in DOMAIN us |-> us[i] \cup {tip}]

\* Mutant of NewBlock: the update is asked for before the block is saved.
NewBlockEarly(B, broadcast) ==
  /\ Tip < MaxBlocks
  /\ B \cap Confirmed = {}
  /\ chain' = Append(chain, B)
  /\ pool' = pool \ B
  /\ updates' = IF broadcast THEN Ask(updates, Tip) ELSE updates
  /\ outdated' = IF ~broadcast THEN outdated \cup {"loaded"}
                 ELSE IF updates = <<>> THEN {} ELSE outdated \cup {"crossed"}
  /\ UNCHANGED <<deleted, broadhash, releaseVars>>

\* onNewBlock asks for an update; a block loaded from a peer does not.
NewBlock(B, broadcast) ==
  /\ Tip < MaxBlocks
  /\ B \cap Confirmed = {}
  /\ chain' = Append(chain, B)
  /\ pool' = pool \ B
  /\ LET before == Meanwhile(updates, Tip + 1)
     IN  updates' = IF broadcast THEN Ask(before, Tip + 1) ELSE before
  /\ outdated' = IF ~broadcast THEN outdated \cup {"loaded"}
                 ELSE IF updates = <<>> THEN {} ELSE outdated \cup {"crossed"}
  /\ UNCHANGED <<deleted, broadhash, releaseVars>>

\* deleteLastBlock leaves the headers alone, and the pool.
DeleteLastBlock ==
  /\ chain # <<>>
  /\ deleted < MaxDeleted
  /\ deleted' = deleted + 1
  /\ chain' = Front(chain)
  /\ updates' = Meanwhile(updates, Tip - 1)
  /\ outdated' = outdated \cup {"deleted"}
  /\ UNCHANGED <<pool, broadhash, releaseVars>>

\* The end of a sync asks for an update too.
Synced ==
  /\ "loaded" \in outdated
  /\ updates' = Ask(updates, Tip)
  /\ outdated' = IF updates = <<>> THEN {} ELSE (outdated \ {"loaded"}) \cup {"crossed"}
  /\ UNCHANGED <<pool, chain, deleted, broadhash, releaseVars>>

\* The answer of the database
Updated(i) ==
  /\ i \in DOMAIN updates
  /\ broadhash' \in updates[i]
  /\ updates' = RemoveAt(updates, i)
  /\ UNCHANGED <<pool, chain, deleted, outdated, releaseVars>>

-----------------------------------------------------------------------------
(* releaseQueue *)

FilterQueue ==
  /\ release = "idle"
  /\ queue # <<>>
  /\ release' = "filter"
  /\ filtering' = queue
  /\ UNCHANGED <<pool, headerVars, queue, unposted, fate>>

\* Mutant of Passes: only what is in the pool passes.
PassesInPool(t) == t \in pool

\* filterTransaction: a transaction passes that is in the pool or not confirmed;
\* a signature has no id, and checking it for confirmation fails.
Passes(t) == t \in Transaction /\ (t \in pool \/ t \notin Confirmed)

\* async.filter, which keeps the order.
Pass(passed, t) == IF Passes(t) THEN Append(passed, t) ELSE passed
Filtered(list) == FoldLeft(Pass, <<>>, list)

\* The outcome becomes the queue, whatever was enqueued meanwhile.
QueueFiltered ==
  /\ release = "filter"
  /\ queue' = Filtered(filtering)
  /\ fate' = [t \in Item |-> CASE t \in ToSet(queue) \ ToSet(filtering) -> "overtaken"
                               [] t \in (ToSet(filtering) \cap Confirmed) \ pool -> "confirmed"
                               [] t \in ToSet(filtering) \cap Signature -> "refused"
                               [] OTHER -> fate[t]]
  /\ release' = "squash"
  /\ filtering' = <<>>
  /\ UNCHANGED <<pool, headerVars, unposted>>

Least(m, n) == IF m < n THEN m ELSE n

\* splice, and one broadcast of all the transactions
SquashQueue ==
  /\ release = "squash"
  /\ LET n == Least(Len(queue), ReleaseLimit)
     IN  /\ unposted' = SubSeq(queue, 1, n)
         /\ queue' = SubSeq(queue, n + 1, Len(queue))
  /\ release' = "peers"
  /\ UNCHANGED <<pool, headerVars, filtering, fate>>

\* Mutant of GetPeers: without a peer the release waits for one, with the
\* timer that would look for it again.
GetPeersWaits(listed) ==
  /\ release = "peers"
  /\ listed
  /\ fate' = Mark(ToSet(unposted), "posted")
  /\ unposted' = <<>>
  /\ release' = "post"
  /\ UNCHANGED <<pool, headerVars, queue, filtering>>

\* Without a peer the transactions are gone.
GetPeers(listed) ==
  /\ release = "peers"
  /\ fate' = Mark(ToSet(unposted), IF listed THEN "posted" ELSE "unheard")
  /\ unposted' = <<>>
  /\ release' = "post"
  /\ UNCHANGED <<pool, headerVars, queue, filtering>>

\* All posts have been answered or have failed.
Released ==
  /\ release = "post"
  /\ release' = "idle"
  /\ UNCHANGED <<pool, headerVars, queue, filtering, unposted, fate>>

-----------------------------------------------------------------------------
Init ==
  /\ pool = {}
  /\ chain = <<>>
  /\ deleted = 0
  /\ broadhash = 0
  /\ updates = <<>>
  /\ outdated = {}
  /\ queue = <<>> /\ release = "idle" /\ filtering = <<>> /\ unposted = <<>>
  /\ fate = [t \in Item |-> "none"]

Next ==
  \/ \E t \in Transaction, relays \in 0..RelayLimit : UnconfirmedTransaction(t, relays)
  \/ \E s \in Signature, relays \in 0..RelayLimit : AcceptedSignature(s, relays)
  \/ \E t \in Transaction : Expired(t)
  \/ \E B \in SUBSET Transaction, broadcast \in BOOLEAN : NewBlock(B, broadcast)
  \/ DeleteLastBlock \/ Synced
  \/ \E i \in DOMAIN updates : Updated(i)
  \/ FilterQueue \/ QueueFiltered \/ SquashQueue \/ Released
  \/ \E listed \in BOOLEAN : GetPeers(listed)

\* The timer goes on, the database answers, every post ends; whether there is a
\* peer is nobody's promise.
Fairness ==
  /\ WF_vars(FilterQueue) /\ WF_vars(QueueFiltered) /\ WF_vars(SquashQueue) /\ WF_vars(Released)
  /\ WF_vars(GetPeers(FALSE))

Spec == Init /\ [][Next]_vars /\ Fairness

-----------------------------------------------------------------------------
TypeOK ==
  /\ pool \subseteq Transaction
  /\ Tip \in 0..MaxBlocks
  /\ deleted \in 0..MaxDeleted
  /\ broadhash \in 0..MaxBlocks
  /\ \A i \in DOMAIN updates : updates[i] \subseteq 0..MaxBlocks
  /\ outdated \subseteq {"crossed", "deleted", "loaded"}
  /\ ToSet(queue) \cup ToSet(filtering) \cup ToSet(unposted) \subseteq Item
  /\ release \in {"idle", "filter", "squash", "peers", "post"}
  /\ release # "filter" => filtering = <<>>
  /\ release # "peers" => unposted = <<>>
  /\ fate \in [Item -> {"none", "queued", "overtaken", "confirmed", "refused", "unheard", "posted"}]

(***************************************************************************)
(* A transaction that the node has taken in and may still relay is not     *)
(* lost on its way through filter, squash and release: it waits, unless it *)
(* was confirmed, posted, enqueued while the filter ran, or released when  *)
(* there was no peer.                                                      *)
(***************************************************************************)
NothingLost ==
  \A t \in Transaction : fate[t] = "queued" => t \in ToSet(queue) \cup ToSet(unposted)

(***************************************************************************)
(* The headers that the node sends, by which it and others compare their   *)
(* chains, are of its last block once their update is done: unless two     *)
(* updates crossed, or a block was deleted or loaded since.                *)
(***************************************************************************)
HeadersCurrent == updates = <<>> /\ outdated = {} => broadhash = Tip

(***************************************************************************)
(* Everything in the queue leaves it in the end, also while there is no    *)
(* peer and while others are enqueued, confirmed or taken back.            *)
(***************************************************************************)
QueueReleased == \A t \in Item : fate[t] = "queued" ~> fate[t] # "queued"

(***************************************************************************)
(* The queue holds what was enqueued, and is only released by its timer;   *)
(* what was enqueued is in it until one of these reasons takes it out.     *)
(***************************************************************************)
QueueKept == TypeOK /\ NothingLost
=============================================================================
