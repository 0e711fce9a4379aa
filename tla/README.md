# Sauco: a verification project

Sauco is a node of a delegated-proof-of-stake blockchain, written for node.js on
top of PostgreSQL. 101 elected delegates forge one block after the other; votes
weighted by balances elect them; accounts, votes and unconfirmed state live in
`mem_*` tables that can be recomputed from the blocks. Beside the chain a node keeps
a table of its peers, relays what it receives, collects signatures of groups, runs
applications in processes of their own, and a delegate may pay its voters with a
separate program. This directory holds TLA+ modules that model all of these, the TLC
configurations that check them on small instances, and proofs that TLAPS checks.
`PROJECT.json` maps every definition to the source lines it stands for.

    tlc -workers 2 -config MCRounds.cfg MCRounds        # one run
    tlapm NodeProofs.tla                                # the proofs of one module

## The system

### Components

| Component | Source | State it keeps | Operations | What makes it correct |
|---|---|---|---|---|
| Transaction pool | `logic/transactionPool.js` | four queues (unconfirmed, bundled, queued, multisignature): arrays with holes and an index | receive, bundle, verify, fill, undo, expire, reindex | index and array agree; limits; only verified and fully signed transactions reach a block; order kept |
| Chain | `modules/blocks/chain.js` | tables `blocks`, `trs`, ...; `lastBlock` | applyBlock, saveBlock, deleteLastBlock, recoverChain | balances are those of the chain; a block is applied and saved whole or noticed at the next start |
| Block processing | `modules/blocks/process.js`, `verify.js` | `lastReceipt`, the last block ids | receive, forge, load from a peer, forks 1 to 5 | one writer of the chain; rivals settle; blocks are given up only for a longer chain, or the last one to a sibling that turns out to be signed by nobody who may |
| Unconfirmed balances | `logic/transaction.js`, `modules/transactions.js` | `u_balance` in `mem_accounts` | applyUnconfirmed, undoUnconfirmed, apply, undo | `u_balance` is `balance` less what the queue spends |
| Registrations | `logic/signature.js`, `delegate.js`, `multisignature.js`, `dapp.js`, `inTransfer.js`, `outTransfer.js` | confirmed and unconfirmed columns, tables in memory | the same four per type | nothing is registered twice; columns follow the chain and the queue |
| Rounds and votes | `modules/rounds.js`, `logic/round.js`, `logic/vote.js`, `logic/account.js` | `mem_round`, votes, round snapshot, fees, rewards, missed blocks | tick, backwardTick, snapshot, vote | votes equal the voters' money; nothing lost in paying a round; rolling back restores |
| Loader | `modules/loader.js`, `sql/loader.js`, `sql/runtime.sql` | syncing flag, retries | start checks, rebuild, sync | after any stop the tables are those of the chain, or are rebuilt |
| Task queues | `helpers/sequence.js`, `helpers/jobsQueue.js` | `sequence`, `balancesSequence`, `dbSequence`, timers | add, tick | every task calls back; nested tasks do not wait in a circle |
| Delegates and forging | `modules/delegates.js`, `helpers/slots.js` | key pairs, the shuffled list | forge, validate a slot, enable, disable | one slot, one delegate; no forging while busy |
| Rewards | `logic/blockReward.js` | none | calcMilestone, calcReward, calcSupply | the supply is the sum of the rewards |
| Broadcaster, headers | `logic/broadcaster.js`, `modules/system.js` | queue of broadcasts; the node's broadhash | enqueue, filter, squash, release; update | what is enqueued leaves for a reason; headers are those of the last block |
| Peers, transport | `modules/peers.js`, `modules/transport.js`, `logic/peers.js`, `logic/peer.js` | table of peers, its copy in the database | discover, update, ping, remove, save, load, handshake | entries are first hand; the node never posts to itself; the table settles |
| Multisignature service | `modules/multisignatures.js`, `modules/signatures.js` | signatures of waiting transactions | processSignature, sign, register | no signature is lost or kept twice; what is complete is taken |
| Dapps service | `modules/dapps.js`, `helpers/sandbox.js`, `modules/sql.js` | directories, links, tables, processes; what is loading, being removed, launched | install, launch, stop, uninstall, messages | the flags keep calls apart and are cleared; one process, and only of what is installed |
| Delegate reward pool | `libs/pool.js`, `dpospool.js` | rows of voters and fee addresses, last height | credit a block, pay, update voters | rows are credited and paid exactly once; the voters reported count |
| Cache, HTTP, schemas, crypto | `modules/cache.js`, `server.js`, `api/`, `schema/`, `helpers/ed.js` | little | queries, checks of form | not modelled |

### How they interact

All work that writes the chain is a task of `sequence`: a received block
(`process.onReceiveBlock`), forging followed by filling the pool
(`delegates.nextForge`), a sync (`loader.syncTimer`, `onPeersReady`). A task of
`sequence` that rolls a block back waits for a task of `balancesSequence`, which
waits for one of `dbSequence`. Transactions from peers and from the API, and
signatures that have passed their check, enter through `balancesSequence`. Timers of
the pool (bundling, expiry), of the broadcaster and of the peers run in none of them,
so they fall between any two asynchronous calls of a task. Modules announce events
over a bus (`newBlock`, `blockchainReady`, `peersReady`, `transactionsSaved`,
`signature`, `cleanup`). The database is the shared state: it serves one query after
another, but only a few places use a transaction. Nodes talk by posts, which may be
lost or late, and by requests, whose answers come when the peer's state has changed.
Applications are processes that the service starts and that end when they want.
The reward pool is a client of a node's API with a database of its own.

### What is hard here

* **Interleaving**: everything between two callbacks is atomic, everything else is not.
* **Two halves of the state**: every account has confirmed and unconfirmed columns;
  a block undoes the whole queue, is applied to both halves and applies the rest again.
* **Rolling back**: each operation has an inverse, and a round has a snapshot for what
  cannot be inverted.
* **Crashes**: applying a block is many statements without a transaction around them.
* **Late answers**: of peers, of the database, of a verification, of a process.
* **Lost errors and lost callbacks**, which only show as a queue that stops or a flag
  that stays.

`PROJECT.json` lists the hazards with their lines and the properties that cover them.

## The modules

A module per component; MC modules only give the constants values.

| Module | Models | State and actions |
|---|---|---|
| `PoolQueue` | one queue of the pool | an array with holes and an index from ids to positions, from 0; push, remove, reindex, and the list in both orders |
| `TransactionPool` | the pool and its four users | the queues; receiver, bundler, expirer and worker with the transaction each has under way. An action is the code between two asynchronous calls |
| `TaskSequences` | `sequence.js`, `jobsQueue.js` and every task | three lists of waiting tasks, the task each queue runs and its step, the flags ticking and syncing |
| `Rounds` | blocks forwards and backwards | balances, lists of votes, votes, `mem_round`, fees, rewards, missed blocks, the snapshot. An action is a block applied or rolled back with its tick |
| `UnconfirmedLedger` | `balance` against `u_balance` | both columns, the queue, the chain, the task of `sequence` and the rest of its list. An action is one transaction of the list under way |
| `AccountStates` | what transactions register | the columns of an account, the tables the types keep in memory, queue and chain. An action is a task; its loops are folds (`Each`, `ApplyList`) |
| `Recovery` | stops and starts | how often the tables hold each write, `mem_accounts.blockId`, `mem_round`'s rounds, the stage of the node. An action is one statement |
| `Peers` | the table of peers | entries (state, broadhash, nonce), the state of the other peers, the job of the module, pings and posts under way. An action is a request, or its answer |
| `Broadcaster` | queue of broadcasts and headers | the queue, the stage of its release, what waits to be posted, the updates of the broadhash under way with the last blocks each may have read |
| `ForkChoice` | several nodes | the chain of each node as the sequence of its headers, `lastNBlockIds`, `lastReceipt`, the forging under way, posts. An action is a task of a node |
| `Signatures` | one account, its group and its transactions | copies of the transactions in the queues, with signatures; the line of `balancesSequence`, verifications and checks under way, the block being made |
| `Dapps` | one application | directory, link, tables, flags, the sandbox and its processes, a message; the stage of each call. An action is the code between two answers of file system, database or npm |
| `DAppDirectory` | what `Dapps` promises | the directory, who works on it, who has made it |
| `RewardPool` | the pool of a delegate | rows, last height, credits and payments under way. An action is one statement or one answer |
| `*Proofs` | | the theorems about the module of that name; `LedgerProofs` is about `UnconfirmedLedger`, `NodeProofs` about `TaskSequences` and `Recovery`, `NetworkProofs` about `Peers` and `Broadcaster`, `ForkChoiceProofs` about `ForkChoice` and `AccountStates`, `RoundsProofs` about `Rounds` and `RewardPool` |

The modules share the task structure that `TaskSequences` establishes: `OneWriter`
(proved for all parameters) is why `Rounds` may treat a block with its tick as one
step, why `UnconfirmedLedger` runs one task at a time, why a task of a node is one
step of `ForkChoice`, and why `Recovery` has one block under way. `TransactionPool`
shows which transactions reach the unconfirmed queue and in which order;
`UnconfirmedLedger` and `AccountStates` start from there and take the queue as a
sequence; `Signatures` follows one account's transactions through the whole of it,
with the group that blocks give to the account and take from it. `Broadcaster` takes
the peers to post to from what `Peers` models, and `ForkChoice` the blocks that reach
a node from what both promise, which is nothing: any post may be lost.

Names such as `ApplyRemembers` or `DeleteKeepsReceived`, introduced by a comment
`Mutant of ...`, are not part of a model: each is a plausible wrong version of the
definition below it, used to see that the property it belongs to can fail.

What the new modules abstract:

* `ForkChoice`: a block is its header and all of those before it, as its id is a hash;
  an answer to a request for blocks has one block, the sync asks on; both receipts and
  slots count in slots; at the last slot every receipt is stale. Delegates run this
  program, so that the blocks they sign are those that nodes have processed. Whoever is
  none of them signs what he likes (`Stray`): a block on the last one of a node or in its
  place, which reaches that node only. The height of a block is its position, since
  nodes set it themselves (`setHeight`).
* `Peers`: versions, heights and ports are left out; a peer of another network or
  version is "wrong".
* `Broadcaster`: the database answers an update with any of the last blocks since it
  was asked; blocks that the node loads ask for no update, the end of the sync does.
* `Signatures`: signatures are right, the pool is not full, balances suffice (modules
  above). A transaction signed with the second passphrase would be another one. Copies
  of peers come with any signatures and with `ready` set or not, whichever they have.
* `UnconfirmedLedger`: a block of a peer is a sequence of transactions with the ids that
  the peer has given them; everything after `checkTransaction` knows the right ones.
* `Dapps`: an archive has three files, `config.json`, `blockchain.json` and, perhaps, a
  public directory, which are unpacked one after the other; a removal that fails or is cut
  short leaves any of them. Whether the archive has a public directory and tables is
  chosen at the start. Routes, lists, searches, the events about blocks and the
  automatic start, which is a call to launch, are left out. The sandbox is external:
  its event of exit may come at once, later or never.
* `RewardPool`: one credit per table and one payment per row at a time. A start of the
  pool, which empties the fee rows by a query of its own, is one step. The voters begin
  as any earlier life of the pool has left them.
* `AccountStates`: the applications that withdrawals are made of exist from the start.
* `AccountStates` and `Rounds` take blocks whose transactions are different;
  `UnconfirmedLedger` has the others.

## The runs

| Run | Bounds | Shows |
|---|---|---|
| `pool` | a plain and a multisignature transaction; one per block, two per queue, one released per bundle, compaction after every second receipt | index and array of each queue agree under all interleavings of receiver, bundler, expirer and worker; order and limits are kept; nothing is queued before its verification |
| `sequences` | one task waiting and one running per queue, two blocks per sync, two attempts, queries that may be lost | `onReceiveBlock` never takes its silent return; one writer; as long as no query is lost each task of `sequence` and `balancesSequence` ends |
| `rounds` | three delegates of which two forge in a round, five blocks, two rolled back | money is conserved; votes equal the voters' money; only the open round has rows; rolling back restores what elects the delegates |
| `ledger` | two accounts, five transactions of which one pays its own sender, two per block, two blocks, two events, among them a block with a transaction under two ids | no two saved blocks share a transaction, each block is saved and the confirmed balances are those of the chain unless a transaction had two ids; the queue has nothing confirmed; unconfirmed balances are exact, the queue can be forged, no block is fatal, also where a block was rewound and confirmed all the same |
| `accounts` | two accounts, twelve transactions that compete, one of them a second signature of an account that has one, two per block, two blocks | nothing is registered twice, nothing is paid to what is not registered; confirmed columns are the chain's, unconfirmed ones the queue's; the queue verifies |
| `recovery` | three blocks, rounds of two, two stops, errors of the database | outside of three windows each stop is noticed and repaired; a stopped node serves again or is stuck by an error |
| `peers` | a seed and another peer, two peers at most, one to post to, one change, one restart | connected entries are first hand; the node does not post to itself; who is gone is not kept connected, who stays gets connected |
| `broadcaster` | two transactions, a signature, one block, one deletion | nothing leaves the queue without a reason, everything leaves it; the headers are those of the last block |
| `forks` | two nodes that may both forge for one of two delegates, three slots, rounds of two slots with two lists, milestones at heights 1, 2 and 4; one restart, or one block of a stranger, to the second node in the second slot | rivals settle; blocks are given up only for a longer chain, but the last one to a stranger; who is behind catches up; the supply follows the rewards |
| `payouts` | two voters that count or not at the start, a fee address, two blocks, one round of payments, one update from a report of any voters in any order or of none, one fault (a failed request or query, a restart, a replaced block) | rows hold what they are owed; blocks are credited once; the voters reported count, and no others |
| `dapps` | one application, six calls, two at a time, one failure, one restart; directories that are there in part are launched, stopped and removed | flags are held by somebody; one process, that messages reach; nothing outlives the files; the directory is as `DAppDirectory` says |
| `signatures` | a group of two that needs both; transactions from peers unsigned, unsigned but said to be ready, or signed by one; in blocks unsigned or signed by both; three calls, three events | signatures are kept once, what is complete is taken, the own block verifies, what is confirmed is signed, nothing is applied twice |

A property may be a conjunction of named parts: `RowsOK` is `TypeOK /\ OpenRoundOnly`,
`LedgerOK` is `TypeOK /\ QueueUnconfirmed /\ (TrueIds => Replayed)`, and so on; the parts stand
right before the whole in the modules, each with its own statement.

Each run has everything enabled that its module models. Some properties hold only
until something has happened that the code does not cope with. The modules record
such events in a history variable (`events`, `happened`, `stops`, `outdated`,
`mishap`, `mishaps`), and the property names the ones it holds without:

| Property | Holds as long as there is no |
|---|---|
| `ConfirmedOnce` (that each block is saved), `LedgerOK` (`Replayed`) | block of a peer with a transaction under two ids |
| `UnconfirmedExact` | expiry in the unconfirmed queue, sync, block with a confirmed transaction or with one under two ids |
| `NeverFatal` | any of these, nor a deleted block; that no block is fatal, nor a block that overspends |
| `VotesMatch`, `RollbackRestores` | vote for a delegate that the account votes for already (or against another), rollback over a second end of a round, rollback of a round with other rewards read backwards |
| `RowsOK` (`OpenRoundOnly`) | the first two of these |
| `RegistrationsOK` (`RegisteredOnce`) | block that no honest node can forge |
| `AccountsOK` (`ConfirmedIsChain`) | block with a confirmed transaction; and no deletion together with a block that no honest node can forge |
| `PendingOK` | either of these; that the queue verifies holds with them, but only without a deleted block |
| `TablesOK` (`Recovered`) | stop between the save of a block and its tick, while a block is undone, in the last block of a rebuild |
| `ServesAgain` | error of the database at the start |
| `QueuesGoOn` | lost query of `loadBlocksData` |
| `HeadersCurrent` | two updates that cross, block loaded or deleted since the last update |
| `SiblingsSettle` | rival that was deleted lately, is older than the window, or comes at a milestone of the reward; offer from before the last start of the node |
| `ShorterForLonger` (that a longer block has come) | block of a stranger in the place of the last: that is lost, no more |
| `RowsExact` | answer of the node not heard, credit that had read the row before it was zeroed (too much is paid); share not written, or written between reading and zeroing, or thrown away at the start (too little) |
| `CreditsOK` | stop of the pool at that height (credited twice); height skipped, failed or replaced (not credited). `VotersFollowed` leaves out the voters whose own row the last report has not changed, as it was empty, its query failed or comparing the rows threw, or has judged by the balance of another |
| `FlagsHeld`, `SandboxOK` | stop or uninstallation during a launch; application without a public directory, or with a directory that is there in part since a download or removal has failed or was cut short; routes that failed so that nobody could stop the process; process that ended by itself, or is ended by the late event of another |
| `InstalledOnly` (`RunsInstalled`) | stop or uninstallation during a launch; one of the two files of a launch missing, but read earlier by the same process; routes that failed so. A directory there in part only excuses that it is not the whole, not that one of the two files is missing |
| `InstalledOnly` (`TablesGone`) | queries that failed; a second launch, one during the removal or a restart before tables are dropped |
| `CopiesOK` | signature under way twice, transaction that came again where the pool does not see it (next row but two) |
| `OwnBlockVerifies` | either of these; transaction under way when the block of the registration is deleted |
| `SignaturesComplete` | transaction that a peer has sent as ready (both parts); transaction that came with signatures, or is under way when the block of the registration is deleted (`ready`); one under way when the group is registered, with a signature twice or come again, a registration that came with signatures (unsigned in the queue) |
| `AppliedOnce` | transaction that came again while at index 0 of a queue or under verification, or expired |

Every event kept out of a property was seen to violate the property when let in, in
the instance of its run; only the deleted rival of `SiblingsSettle` takes a third node
and a fourth slot, where simulation finds it. The events are listed under "Seen while
modelling" with their places in the code. A block that is rewound and confirmed all the
same is no excuse but counted: `rewound` has what it spent of each account, by which
`u_balance` is too high, and `UnconfirmedExact` says that it is by no more.

Two transactions, accounts or blocks suffice where a property speaks of a pair. Rounds
of two delegates have a first and a last block, and one of three delegates misses; five
blocks are two rounds and a bit, two rollbacks reach a second end of a round. The
genesis block has no reward, so that the first round has other rewards read backwards
and the second has not. In the ledger any one of Alice's transactions can be paid and
`large` leaves too little for two others, so that two per block overspend; the one that
pays Alice herself is what makes such a block pass in its confirmed half. Limits of 1 or
2 make the queues full in a few steps; two stops allow one during the recovery from
another. Two nodes with keys for one delegate make rival blocks in one slot, and three
slots reach a fork two blocks deep, which is where a node goes on alone; the milestones
lie where the chains differ. One block of a stranger, to one node in one slot, shows
what it costs: a block that was refused is not passed on. Two calls at a time are all
pairs of calls of an application, six are enough to install, launch, stop and remove it
and begin again.

### Fairness

* `TaskSequences.FairSpec`: weak fairness of what a running task does next and of the
  tick of a queue (`setTimeout` in `__tick`). Reading is strongly fair because the
  rebuild, which is finite, shares the queue with it.
* `Recovery.RecoveryFairSpec`: the statements under way are answered, and a node that is
  down is started again, which is an assumption about its operator.
* `Peers.PeersSpec`: the job of the module goes on (`jobsQueue` runs it again and again),
  and pings and posts are answered or fail (requests have a timeout).
* `Broadcaster.Spec`: the steps of a release, which a job repeats, go on; that peers
  are found is not assumed, only that the question is answered.
* `ForkChoice.Spec`: time passes, a node that forges in a slot gets done with it, and
  one that is behind asks each peer in turn: the choice is random. Not that it handles a
  post: catching up must not need one.

No run assumes that a peer stays, a user calls or a post arrives. The other modules
state safety only and need no fairness.

## The proofs

All hold for every value of the constants that the named assumptions allow; TLC
evaluates those in the runs. Each rests on an inductive invariant, most often called
`IInv`, and its proof has a lemma for each action or group of actions. Of the 40
properties of the runs 35 are theorems: all of those of `pool`, `rounds`, `ledger`,
`accounts`, `dapps`, `payouts` and `signatures`, and the safety of `sequences`,
`recovery`, `peers`, `broadcaster` and `forks`. One of them, `LedgerOK`, is proved as
long as no peer gives a transaction two ids (`TrueIds`); the run has it in every
behaviour. The other five are liveness.

`TransactionPoolProofs`: `QueuesAgree` (`QueuesOK`), `VerifiedBefore` (`OnlyVerified`)
and `OrderStays` (`OrderKept`). A queue is an array with holes; what its list is takes
an ascending enumeration of its positions, which `RankIncreases` and what follows it
construct: that the positions are finitely many is enough. `QueuesInv` adds to the
properties that the queues hold different kinds (`ByKind`): `fillPool` joins the lists
of two queues and pushes them without looking, so that only this keeps the unconfirmed
queue free of doubles. `OrderKept` is a property of steps: the same lemmas say of each
operation, the compaction of the array included, which members it keeps in which order.

`NodeProofs`, about `TaskSequences`: `NoStall` (`NeverStalls`), `WritesAlone` (`OneWriter`),
`AwaitedOnce` and `Typed`, from `Invariant`. None of the properties is inductive
alone. `NeverStalls` needs to know that `ticking` and `syncing` are false when a task
begins; that holds since they are set only inside of a task (`TickingInside`,
`SyncInside`), which needs the shape of a task in each step (`TaskShape`); that a
rollback ends the wait of exactly the task that asked for it needs the nesting of the
queues (`BalancesNesting`, `DbNesting`); and nothing enters any queue before the
rebuild is done (`RebuildFirst`).

About `Recovery` it proves `TablesRecovered` (`TablesOK`), for any blocks, accounts they
touch, length of a round and number of stops, from `RecoveryInv`. A stop may come between
any two writes, and the next start judges by what is left; so the invariant says at each
stage which effects the tables should hold (`Holds`) and how far they are from that
(`Drift`):

* `CloseInv`: by one per stop at most, which is what bounds the tables of a node that
  went wrong;
* `ExactInv`: by nothing while it rebuilds, and by nothing as long as it has stopped only
  where a start notices it;
* `MarkInv`: what `mem_accounts.blockId` gives away: a block half applied has marked the
  account it touched last, one that was undone is marked nowhere;
* `NoticedInv`: a node that stopped in such a stage has the right tables, or its start
  finds fault with them (`StopNoticed`).

`Steadied` is what makes that short: no step but a stop, an error, the tick of a block
whose save was lost and the emptying of the tables for a rebuild changes any drift, since
each write moves `effects` and `Holds` together. TLC checked
`RecoveryInv` on the instance of the run before it was proved.

`LedgerProofs`: `NothingConfirmedTwice` (`ConfirmedOnce`), `LedgerFollowsChain`
(`LedgerOK`), `UnconfirmedStaysExact` (`UnconfirmedExact`) and `BlocksAreOk`
(`NeverFatal`). A payload is compared with the chain when its block is accepted, and
saved many steps later: what applyBlock works on must stay new until then
(`BlockFresh`), whatever is undone, applied again, synced or expired between. It may
hold a transaction twice, under two ids: then the table of transactions refuses it, so
that what is saved stays apart (`AnyIds`); and without such a block every one is saved
(`Single`). The other three are about behaviours in which each transaction has one id.
The balances are equations between two tasks; `Inv` has one for each step of each loop:

* `Shape`: the types, and that no list of a task has a transaction twice;
* `Recounted`: `balance` is that of the chain and of the part of the block that its
  confirmed half has done;
* `QueueNew`: what is confirmed and in the queue is in the part of the list that is
  still to be applied, where it is refused;
* `Exact`: `u_balance` is less than `balance` by what is `Promised`: the part of the
  queue that is applied, or the rest that is to be undone, or the part of the block;
* `Solvent`: it is not negative, so that what is promised can be paid one by one;
* `Payable`: the block under way can be paid as a whole in both halves.

`Does` says of each kind of step what it takes from one set and puts into another, and
the parts follow from that alone. They are about sums over finite sets (`Spent`,
`Received`), which the community modules define by recursion over the set. A sum over a
set with one element less (`SumRemove`), over a union, over a subset is proved from the
smallest set for which it fails, which is well-founded; so is that undoing a block
transaction by transaction subtracts these sums.

`RoundsProofs`: `RollbackExact` (`RollbackRestores`), `VotesFollowMoney` (`VotesMatch`),
`RowsOfOpenRound` (`RowsOK`) and `MoneyKept` (`Conserved`), for rounds of any length and
any rewards, workload and number of rollbacks. No property is inductive alone: what a
rollback has to undo was done any number of steps ago. `IInv` says of the history

* `StepsInv`: the tables remembered for a block are what the block makes of tables that
  elect as those of the block before it do, which need not be the same ones: missed
  blocks are not restored;
* `SameInv`: the node's tables elect as those remembered for its last block;
* `SnapshotInv`: the snapshot is of the block at its height, if the chain has one there;
* `RowsInv`: no row of another round waits, now and after any block of the chain;
* `VotedInv`: each vote fitted the lists it found;
* `MatchedInv`: votes and rows added up to the voters' money after each block.

`BlockRestored` is the step: a block taken back from tables that elect as those it has
made leaves those it came to. Within a round that is arithmetic, transaction by
transaction; at its end the payments are a fold over the delegates, forwards and with
them reversed. Both credit an account with the same sum if the rewards read the same
backwards (`RoundPaidBack`): the two sums have the same terms in another order. Where
rewards are uneven, `StepsInv` and `SameInv` hold only after the snapshot that was used
last; the rows do not depend on rewards, so that `RowsOK` needs no such excuse.
`Conserved` follows from `BaseInv`, sums of fees and rewards along the chain, without
any excuse: `RoundPaysAll` says that the shares of a round, remainder included, are its
fees and rewards. `SumOver`, a fold of the community modules, is a recursive function
that is chosen; that it exists and is unique is proved once (`RecursionExists`,
`RecursionUnique`), from the smallest set for which it would fail.

`RoundsProofs`, about `RewardPool`: `RowsHoldWhatIsOwed` (`RowsExact`) and
`CreditedAndFollowed` (`CreditsOK`), from `PayoutInv`. That the voters are finitely many
is assumed: they come as a list. Steps on the heights, on a table and on a row are
proved apart, since each leaves most of the rest alone:

* `AmountsInv`: what was read of a row is what the row holds, unless a payment has
  zeroed it since, which is the mishap `revived`; and a payment under way is at most what
  the row holds, so that zeroing takes off no less than what was sent. Both are needed
  for the sums of `RowsExact`, one per row;
* `HeightsInv`: a height is fetched once in a life of the pool, and a later life begins
  at the height at which the one before was stopped, so that a height that is credited
  when another answer for it comes is one at which the pool was stopped;
* `VotersInv`: the voters that count are those reported, but for the ones the last report
  did not reach (`unfollowed`). A row is compared with the voter of the same position;
  for a voter who has no row, or whose row is judged by itself, the outcome is that of
  the report. New voters are appended by a fold over the reported list; that it keeps
  the rows and adds the list (`FoldExists`, `Intervals`) is by the same recursion as the
  sums.

`SignaturesProofs`: `ConfirmedAgreed` (`GroupAgreed`), from `IInv`. The block being made
has its transactions where they were, with enough signatures for the account as it is
(`ForgingEnough`); that they are different its verification says. The other four come
from `Strong`: `AppliedExactlyOnce` (`AppliedOnce`) from where a transaction is (in one
queue at most, `OnePlace`) and what the worker has still to apply (`Applied`);
`CopiesKept` (`CopiesOK`) from which signatures wait to be stored, which the copy must
not have (`SignaturesNew`), and what can come without signatures (`QueuedBare`,
`ArrivedBare`); `SignaturesAreComplete` (`SignaturesComplete`) and `OwnBlockGood`
(`OwnBlockVerifies`) from whether the account has the group it had when the transaction
was read with it (`WaitsForGroup`, `StoreGroup`, `VerifiesStill`). Each part carries its
excuses, and `Remembers` says that an event is never forgotten. A block with a
transaction that is not ready ends the process (`Exits`): nothing waits or runs then.

`DappsProofs`: `TypeCorrect`, `WritersApart`, `MessageHandedOnce` and
`DirectoryImplemented` (`DirectoryKept`), the step simulation of the abstract
specification `DAppDirectory`. The strengthening says whose the flags are: a call that
installs is under `loading`, one that removes under `uninstalling`, one that undoes an
installation under both; and who downloads has made the directory. `FlagsAreHeld`
(`FlagsHeld`), `SandboxAlone` (`SandboxOK`) and `RunsWhatIsInstalled` (`InstalledOnly`)
need the converse, who holds a flag that is set (`LoadingHeld`, `UninstallingHeld`,
`LaunchedRuns`), that one launch is under way at most and finds no process
(`LaunchApart`, `NoneYet`), that the files stand from when a launch has looked at them
(`Standing`), and which calls know of the tables (`TablesKnown`). What is in the
directory is in `Filed`: it is there in part only while somebody fills it, or after
something was cut short; and in `Placed` and `Linked`: the two files that a launch has
found, and the public link where the directory is whole. `Memory` says that files are
missed and read from memory only after one of the two mishaps that the flags are excused
for already.

`ForkChoiceProofs`: `GivenUpForLonger` (`ShorterForLonger`). Fork five deletes before
it looks at the forger. A block of a delegate does not fail then, since whoever sent it
has processed it on the same predecessor: every such block under way fits on its own
predecessor and is of the forger of its slot (`Sound`), and `ForkFiveReplaces` concludes.
A block that a stranger has signed does fail (`StrangeBlock`): the node stays without its
last block, and one block shorter. `OneGivesWay`
(`SiblingsSettle`): of two rivals one beats the other (`OneBeats`), so that the node with
the worse one stands against a better block only by a check (`Stands`); and what the
check looked at stays as it was until there is a new last block or a restart.
`SupplyFollowsRewards` (`ChainsOK`): by induction over the height, `calcSupply` grows by
`calcReward` (`SupplyGrows`), since all heights before a milestone belong to those before
it (`HeightsBefore`) and a height further is in the same milestone or begins the next.
That the heights of the milestones ascend is assumed, as in `helpers/constants.js`.

`ForkChoiceProofs`, about `AccountStates`: `RegistrationsUnique` (`RegistrationsOK`),
`AccountsFollowChain` (`AccountsOK`) and `PendingFollowsQueue` (`PendingOK`), from
`AccountsInv`. A task is one step there that applies four loops to whole records one
after another. Each loop is taken for itself: where no two transactions of it register
the same, what it leaves depends on their set only, not on their order (`Effect`,
`EachEffect`), and what a list that is applied one by one leaves out does not matter to
the rest (`Joins`, `JoinList`). The actions are then equations between sets. Nothing of
what the properties say is inductive alone; `AccountsInv` adds in `Always`, whatever happens,

* `Fit`: an account has a second key or a name exactly if its flag says so;
* `Separate`: no two blocks have a transaction in common, nor queue and chain;
* `Holds`: nothing in the queue is registered already, which is what lets the queue be
  undone without taking from an account what the chain has given to it;

and in `Unless`, each part with the events that spoil it,

* `Verifies`: each transaction of the queue verifies against the chain;
* `Once`, `InColumns`: the chain registers everything once, and has put it into the columns;
* `InDelegates`, `OneBlock`: the columns have the delegates of the chain, and no two
  blocks register one for the same account; each block is checked against the columns,
  so that no block of others spoils it;
* `Exact`: what is unconfirmed is what queue and chain ask for.

That deleting the last block gives the accounts before it back needs `Once` of its
transactions: each inverse sets a column to what it was if nobody else has set it.

`NetworkProofs`, about `Peers` and `Broadcaster`: `EntriesFirstHand` (`EntriesOK`) and
`NotToItself` (`NeverToItself`). The own address may be in the table under the nonce of
an earlier start; but to be connected the node must have answered itself, and then the
entry has the nonce of this start (`OwnNonce`).

`HeadersOfTip` (`HeadersCurrent`): without an excuse one update
at most is under way, and it can only have read the last block (`UpToDate`).
`NothingLeavesUnnoticed` (`QueueKept`): what is queued is in the queue also while the
filter runs, which then only grows; so what the outcome of the filter leaves out was
refused by it or enqueued meanwhile. The filter is a fold over the queue, and `FilteredIs`
says that it leaves out nothing else.

### What the proofs changed

TLC finds what happens within its bounds; an invariant that is not inductive shows what
lies outside. Attempts that failed were about the models or the properties, and each
correction was followed to a behaviour that shows the case:

* `UnconfirmedExact` was false for a rewound block that is confirmed all the same; no
  transaction of the run paid its own sender. Now one does, and `rewound` counts.
* `OwnBlockVerifies` held in its run because of the bounds only: the block that registers
  a group may be deleted while what it signed is in the unconfirmed queue.
* `CopiesOK` did not except a transaction that comes again with a signature which is on
  its way to be stored.
* `SignaturesComplete` excused every transaction as soon as there was a group; now only
  those that were under way when it came.
* `SiblingsSettle` held in its run because of the bounds only: a node that restarts
  forgets which blocks it has deleted, and may then be left with a worse one that it
  stands by for a reason which is gone. Three nodes and four slots show it, more than
  the run has. Now an offer counts since the start of the node.
* `OpenRoundOnly` held in its run because of the bounds only: the undo of a vote that did
  not fit may leave a row, and when the end of the round before is rolled back as well,
  that row waits for a round which is not open yet. TLC shows it with rounds of three
  blocks. Now the property excepts it, and holds for every length of a round.
* `AccountsOK` held in its run because of the bounds only: `verify` asks of a second
  signature of an account that has one only that it is signed twice, so that a block with
  it, which no honest node forges, may be confirmed where applying it fails; when it is
  deleted, the account loses the second signature that an earlier block gave to it. Now
  the run has such a transaction and the property excepts the two events together.
* `RollbackRestores` and `VotesMatch` relied on rewards that the run had made equal. They
  are constants of any values now; a round whose rewards are uneven is an event
  (`uneven`), and each property says whether it needs to be without it.

* `RunsInstalled`, `CreditsOK`, `SignaturesComplete`, `ShorterForLonger` and
  `ConfirmedOnce` were true of models in which what makes them fail could not happen: a
  directory in part was never launched, reports were not empty and their queries never
  failed, `ready` meant signed, blocks came from nodes that had processed them, payloads
  were compared by content. Now the models have these cases, and the properties say what
  is left.

### Only model-checked

* That the types of `LedgerOK` and `QueueUnconfirmed` hold also after a block with a
  transaction under two ids.
* Liveness (`QueuesGoOn`, `ServesAgain`, `PeersSettle`, `QueueReleased`, `CatchesUp`):
  fairness and `ENABLED` are out of the prover's reach.

## Seen while modelling

The modules have all of this as the code does; the properties above leave it out by
the excuses they name. Queues and blocks:

* `onReceiveBlock` and the sync have no other protection than `sequence`; the return
  at `modules/blocks/process.js:374` does not call back.
* `loadBlocksData` does not return the promise of its second query
  (`modules/blocks/utils.js:278`): a failure is never reported and `dbSequence` stops.
* The transaction at index 0 of a queue is not found by `transactionInPool`
  (`logic/transactionPool.js:98`): it may be received again, and a payment be applied
  twice to `u_balance`.
* `expireTransactions` removes a transaction from the unconfirmed queue without undoing
  it (`logic/transactionPool.js:819`).
* When a transaction of a block fails, the rewinding hides the error and the block goes
  on to its confirmed half (`modules/blocks/chain.js:405`). That exits, unless the half can
  be applied after all, as with a payment to its own sender: then the block is confirmed
  and `u_balance` keeps what it spent.
* A sync undoes the queue once for itself and once more for each block
  (`modules/loader.js:617`); a refused block with a confirmed transaction has it
  undone (`modules/blocks/verify.js:68`).
* `verifyPayload` looks for doubles by the ids that the peer has sent
  (`modules/blocks/verify.js:262`), which nothing covers; `checkTransaction` computes them
  again (line 51), each for itself. A block with one transaction under two ids is applied,
  twice, to both balances; it cannot be saved, and the node goes on with a last block that
  it has not in its tables. A rewind of it undoes both.
* `generateBlock` ignores the outcome of verifying its transactions
  (`modules/blocks/process.js:324`).
* Two delegates may take one username: queue and block compare with confirmed names
  only (`logic/delegate.js:119`). `outTransfer.process`, not `verify`, asks for the
  application: a block is not asked.
* A second signature that an account has already is refused only when it is applied
  (`logic/signature.js:177`), an error that the rewinding hides; undoing it resets the
  account to none (`logic/signature.js:158`).

Rounds:

* Rolling back reverses the delegates of a round, not their rewards
  (`logic/round.js:178`); where the reward changes inside of a round
  (`helpers/constants.js:117`) each gives back what another got.
* Rolling back takes missed blocks from the outsiders of the new votes
  (`modules/rounds.js:369`), and restores whatever snapshot there is.
* `vote.js:154` drops the error of `checkConfirmedDelegates`.

Starting:

* A stop while `popLastBlock` undoes transactions (`modules/blocks/chain.js:524`), after
  the save of a block, or in the last block of a rebuild leaves tables that pass the
  checks of the start; a clean-up may overtake a block (`modules/blocks/verify.js:476`);
  a block that was not saved (`modules/blocks/chain.js:100`) shows only at the next start.
* `deleteAfterBlock` is never called since no error has a `block`: an error of the
  rebuild leaves the node without `blockchainReady` (`modules/loader.js:366`, `485`).
  `recoverChain` is never called since the ids always have the genesis block's.
  `modules/loader.js:253` reads a field `id` of the list of transactions.

Forks and peers:

* Fork five deletes the last block when the other has passed `verifyReceipt`, which does
  not ask whose slot it is; processing it does (`modules/blocks/process.js:526-545`). A
  block that is on the same predecessor and not younger, whoever has signed it, leaves
  the node one block shorter until it syncs.
* The last ids are loaded newest first (`modules/blocks/verify.js:377`,
  `sql/blocks.js:106`), so that the newest is dropped first after a start; a deleted
  block stays among them and is refused.
* Fork five asks for the reward of the node's next height, not that of the block
  (`modules/blocks/verify.js:404`), and so refuses it at a milestone.
* A node that is forked deeper than two blocks does not get off by syncing.
* `Peers.list` changes the limit it was given, so that a block goes to more peers than
  `broadcastLimit`; frozen seeds stay connected when they are down; deleting a block
  leaves the headers; signatures are not relayed.

Signatures:

* `ready` is not in the schema and not removed: that of a peer is kept, and `fillPool`
  takes the transaction as complete (`logic/transactionPool.js:186-190`, `620-623`); it
  is then in the unconfirmed queue, where nobody can sign it.
* `checkTransaction` does not ask whether a transaction of a group has its signatures:
  one in a block of a peer makes `apply` fail, and the process exit
  (`modules/blocks/chain.js:428-434`).
* `getMultisignatureTransactionList` passes its limit as `ready`
  (`modules/transactions.js:404`): peers are only given what is complete already.
* `ready` is written with a signature only: what came complete waits for one more, or
  for its expiry. Payments that waited in the queue when the group was registered move
  on without signatures and wait for expiry.
* What the API makes with `requesterPublicKey` is always refused
  (`logic/transaction.js:539`).

Applications:

* One without a public directory cannot be stopped, nor, once launched, removed; a
  failed download leaves a directory that counts as installed (`modules/dapps.js:1338`).
* A directory that an interrupted download or removal has left
  (`modules/dapps.js:466-471`) is launched if `config.json` and `blockchain.json` are in
  it (`793-817`), and cannot be stopped if its public directory is not.
* Launching looks at none of the flags; `dappready` is never reset; public links stay
  until the next start; the event of exit clears neither `launched` nor looks whose it is.
* `blockchain.json` is read by `require` and changed by `modules/sql.js`: an application
  with tables cannot be launched twice in a process, nor are its tables dropped then.
* A message counts as known also if there was no process to take it.
  `shared.sendWithdrawal` calls a function that is not defined.

Reward pool:

* An empty report leaves everybody active who was (`libs/pool.js:96`); changed rows and new
  ones are written by two queries, of which one may fail (`169-189`).
* The sum of the fee rows is read by a wrong name, which starts them at 0; the share is
  not divided by 100; voters reported are compared by position with rows
  (`libs/pool.js:109`), which throws where there are more; `poolpercent` is not updated.

Delegates, not modelled: `forge` reloads all secrets that disabling has removed
(`modules/delegates.js:152`), and enabling all overwrites them (`712`).

## What is not modelled

HTTP, schemas, cryptography and byte formats: stateless, and the models name blocks,
transactions and signatures directly. The read cache, whose entries are of queries.
The content of a transaction beyond sender, recipient, amount, fee and what it
registers; timestamps, except as slots; the genesis block (the state after it is where
the models start); enabling and disabling delegates through the API; unconfirmed votes;
logs; pages and scripts. Queries of the API keep no state. A module's opening comment
says what it leaves out, `PROJECT.json` says it per component.

## Plan

Written, the most important first: the pool, the task queues with their proofs, rounds,
the unconfirmed ledger, recovery, account states; then peers, the broadcaster, fork
choice with rewards, the reward pool, applications with their abstract specification,
signatures; then the safety of the pool, the ledger, rounds, registrations, recovery, signatures,
applications and the reward pool for every value of their constants.

Left:

1. An abstract ledger, in which a block is one step, implemented by `UnconfirmedLedger`
   where nothing expires: `Exact` and `Recounted` are most of its refinement mapping.
2. Enabling and disabling delegates against `loadDelegates`; unconfirmed votes.
3. A composition of `Broadcaster` and `ForkChoice` for blocks that reach everybody.
