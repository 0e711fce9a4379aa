--------------------------- MODULE TaskSequences ---------------------------
(***************************************************************************)
(* The three task queues of helpers/sequence.js that a node serialises its *)
(* work with, and the tasks that modules put into them:                    *)
(*   sequence          forging, received blocks, synchronisation and the   *)
(*                     signatures loaded at start;                         *)
(*   balancesSequence  received transactions, and rolling back a block;    *)
(*   dbSequence        reading blocks, and the rebuild at start.           *)
(* A queue starts a task only after the one before it has called back.  A  *)
(* task that adds another task waits for it, so `sequence` waits for       *)
(* balancesSequence and that one for dbSequence.  Each action runs up to   *)
(* the next asynchronous call.                                             *)
(***************************************************************************)
EXTENDS Integers, Sequences

CONSTANTS None,
          MaxPending,     \* bound: tasks waiting in a queue
          MaxRounds,      \* bound: blocks or rollbacks of one synchronisation,
                          \* signatures of one transaction
          Retries,        \* __private.retries of the loader
          QueryMayFail    \* the database may reject a query

SequenceKinds == {"forge", "receive", "sync", "signatures"}
BalancesKinds == {"transaction", "pop", "signature"}
DbKinds == {"rebuild", "read", "previous"}

ASSUME SequencesAssumption ==
  /\ None \notin SequenceKinds \cup BalancesKinds \cup DbKinds \cup {"lost"}
  /\ MaxPending \in Nat
  /\ MaxRounds \in Nat
  /\ Retries \in Nat \ {0}
  /\ QueryMayFail \in BOOLEAN

VARIABLES
  sequence, balances, db,        \* tasks that wait
  task,                          \* the task `sequence` runs: kind, step, ...
  balancesTask, dbTask,          \* the tasks the other two run
  forgeTimer, syncTimer,         \* jobs whose callback is outstanding
  ticking,                       \* modules.rounds.ticking()
  syncing,                       \* modules.loader.syncing()
  ready                          \* blockchainReady has been sent

waiting == <<sequence, balances, db>>
vars == <<waiting, task, balancesTask, dbTask, forgeTimer, syncTimer, ticking, syncing, ready>>

\* A task under way: its step, the step it goes on with when the task it waits
\* for has called back, the rounds it has left, and the attempts of a retry.
Task(kind) ==
  [kind |-> kind, step |-> "start", next |-> "start", left |-> MaxRounds, attempt |-> 1]
NoTask == Task(None)
NoBalancesTask == [kind |-> None, step |-> "start"]

\* loadBlockChain puts the rebuild into dbSequence when the modules are bound.
Init ==
  /\ sequence = <<>>
  /\ balances = <<>>
  /\ db = <<"rebuild">>
  /\ task = NoTask
  /\ balancesTask = NoBalancesTask
  /\ dbTask = None
  /\ forgeTimer = FALSE
  /\ syncTimer = FALSE
  /\ ticking = FALSE
  /\ syncing = FALSE
  /\ ready = FALSE

-----------------------------------------------------------------------------
(* Tasks added from outside *)

\* A block arrives; the HTTP interface answers only after blockchainReady.
OnReceiveBlock ==
  /\ ready
  /\ Len(sequence) < MaxPending
  /\ sequence' = Append(sequence, "receive")
  /\ UNCHANGED <<balances, db, task, balancesTask, dbTask, forgeTimer, syncTimer,
                 ticking, syncing, ready>>

\* jobsQueue calls nextForge again only after the task has called back.
NextForge ==
  /\ ready
  /\ ~forgeTimer
  /\ forgeTimer' = TRUE
  /\ sequence' = Append(sequence, "forge")
  /\ UNCHANGED <<balances, db, task, balancesTask, dbTask, syncTimer, ticking, syncing, ready>>

\* Mutant of NextSync: the synchronisation does not wait for its turn.
SyncAtOnce ==
  /\ ready
  /\ ~syncing
  /\ syncing' = TRUE
  /\ UNCHANGED <<waiting, task, balancesTask, dbTask, forgeTimer, syncTimer, ticking, ready>>

\* The last receipt is stale.
NextSync ==
  /\ ready
  /\ ~syncTimer
  /\ ~syncing
  /\ syncTimer' = TRUE
  /\ sequence' = Append(sequence, "sync")
  /\ UNCHANGED <<balances, db, task, balancesTask, dbTask, forgeTimer, ticking, syncing, ready>>

ReceiveTransaction ==
  /\ ready
  /\ Len(balances) < MaxPending
  /\ balances' = Append(balances, "transaction")
  /\ UNCHANGED <<sequence, db, task, balancesTask, dbTask, forgeTimer, syncTimer,
                 ticking, syncing, ready>>

\* At start the signatures a peer knows are asked for.
LoadSignatures ==
  /\ ready
  /\ Len(sequence) < MaxPending
  /\ sequence' = Append(sequence, "signatures")
  /\ UNCHANGED <<balances, db, task, balancesTask, dbTask, forgeTimer, syncTimer,
                 ticking, syncing, ready>>

\* The API and the transport read blocks.
ReadBlocks ==
  /\ ready
  /\ Len(db) < MaxPending
  /\ db' = Append(db, "read")
  /\ UNCHANGED <<sequence, balances, task, balancesTask, dbTask, forgeTimer, syncTimer,
                 ticking, syncing, ready>>

-----------------------------------------------------------------------------
(* Sequence.__tick *)
SequenceTick ==
  /\ task.kind = None
  /\ sequence # <<>>
  /\ task' = Task(Head(sequence))
  /\ sequence' = Tail(sequence)
  /\ UNCHANGED <<balances, db, balancesTask, dbTask, forgeTimer, syncTimer, ticking, syncing, ready>>

BalancesTick ==
  /\ balancesTask.kind = None
  /\ balances # <<>>
  /\ balancesTask' = [kind |-> Head(balances), step |-> "start"]
  /\ balances' = Tail(balances)
  /\ UNCHANGED <<sequence, db, task, dbTask, forgeTimer, syncTimer, ticking, syncing, ready>>

DbTick ==
  /\ dbTask = None
  /\ db # <<>>
  /\ dbTask' = Head(db)
  /\ db' = Tail(db)
  /\ UNCHANGED <<sequence, balances, task, balancesTask, forgeTimer, syncTimer,
                 ticking, syncing, ready>>

-----------------------------------------------------------------------------
(* The task of `sequence` *)
At(kind, step) == task.kind = kind /\ task.step = step

\* The task calls back: the queue goes on, and a timer may set in again.
Done ==
  /\ task' = NoTask
  /\ forgeTimer' = (forgeTimer /\ task.kind # "forge")
  /\ syncTimer' = (syncTimer /\ task.kind # "sync")

GoTo(step) ==
  /\ task' = [task EXCEPT !.step = step]
  /\ UNCHANGED <<forgeTimer, syncTimer>>

others == <<waiting, balancesTask, dbTask, ready>>

\* forge: not its slot, or the node is not ready: only fillPool is left to do
ForgeNothing ==
  /\ At("forge", "start")
  /\ Done
  /\ UNCHANGED <<others, ticking, syncing>>

Forge ==
  /\ At("forge", "start")
  /\ ~syncing /\ ~ticking
  /\ GoTo("apply")
  /\ UNCHANGED <<others, ticking, syncing>>

\* Mutant of Await: the task does not wait.
GoOnAtOnce(kind, next) ==
  /\ balances' = Append(balances, kind)
  /\ task' = [task EXCEPT !.step = next, !.next = next]
  /\ UNCHANGED <<forgeTimer, syncTimer>>

\* The task adds one to balancesSequence and waits until that has called back.
Await(kind, next) ==
  /\ balances' = Append(balances, kind)
  /\ task' = [task EXCEPT !.step = "waiting", !.next = next]
  /\ UNCHANGED <<forgeTimer, syncTimer>>

\* onReceiveBlock returns without calling back when the node is not ready.
\* The block does not fit, or is the next one, or is a competing one: of the
\* next height (fork 1, roll back two blocks) or of the same (fork 5, one).
ReceiveBlock ==
  /\ At("receive", "start")
  /\ IF syncing \/ ticking
     THEN GoTo("stalled") /\ UNCHANGED balances
     ELSE \/ Done /\ UNCHANGED balances
          \/ GoTo("apply") /\ UNCHANGED balances
          \/ Await("pop", "second")
          \/ Await("pop", "apply")
  /\ UNCHANGED <<sequence, db, balancesTask, dbTask, ready, ticking, syncing>>

ReceiveForkOneSecond ==
  /\ At("receive", "second")
  /\ Await("pop", "finish")
  /\ UNCHANGED <<sequence, db, balancesTask, dbTask, ready, ticking, syncing>>

Finish ==
  /\ task.step = "finish"
  /\ Done
  /\ UNCHANGED <<others, ticking, syncing>>

\* loadSignatures: each signature is processed in balancesSequence
LoadSignature ==
  /\ At("signatures", "start")
  /\ task.left > 0
  /\ balances' = Append(balances, "signature")
  /\ task' = [task EXCEPT !.step = "waiting", !.left = @ - 1]
  /\ UNCHANGED <<sequence, db, balancesTask, dbTask, forgeTimer, syncTimer, ticking, syncing, ready>>

LoadSignaturesEnd ==
  /\ At("signatures", "start")
  /\ Done
  /\ UNCHANGED <<others, ticking, syncing>>

\* The transactions of a block are applied, the block is saved, the round ticks.
ApplyFailed ==
  /\ task.step = "apply"
  /\ IF task.kind = "sync" THEN GoTo("blocks") ELSE Done
  /\ UNCHANGED <<others, ticking, syncing>>

Tick ==
  /\ task.step = "apply"
  /\ ticking' = TRUE
  /\ GoTo("ticking")
  /\ UNCHANGED <<others, syncing>>

Ticked ==
  /\ task.step = "ticking"
  /\ ticking' = FALSE
  /\ IF task.kind = "sync" THEN GoTo("blocks") ELSE Done
  /\ UNCHANGED <<others, syncing>>

\* sync: undo the unconfirmed list, with the sync trigger on
SyncStart ==
  /\ At("sync", "start")
  /\ syncing' = TRUE
  /\ task' = [task EXCEPT !.step = "blocks"]
  /\ UNCHANGED <<others, forgeTimer, syncTimer, ticking>>

SyncBlock ==
  /\ At("sync", "blocks")
  /\ task.left > 0
  /\ task' = [task EXCEPT !.step = "apply", !.left = @ - 1]
  /\ UNCHANGED <<others, forgeTimer, syncTimer, ticking, syncing>>

\* The chains have no block in common: recoverChain
SyncRecover ==
  /\ At("sync", "blocks")
  /\ task.left > 0
  /\ balances' = Append(balances, "pop")
  /\ task' = [task EXCEPT !.step = "waiting", !.next = "blocks", !.left = @ - 1]
  /\ UNCHANGED <<sequence, db, balancesTask, dbTask, forgeTimer, syncTimer, ticking, syncing, ready>>

\* Mutant of SyncEnd: attempts without end.
SyncForEver(failed) ==
  /\ At("sync", "blocks")
  /\ syncing' = FALSE
  /\ IF failed
     THEN task' = [Task("sync") EXCEPT !.attempt = task.attempt]
          /\ UNCHANGED <<forgeTimer, syncTimer>>
     ELSE Done
  /\ UNCHANGED <<others, ticking>>

\* The series of sync ends; async.retry runs it again if it failed.
SyncEnd(failed) ==
  /\ At("sync", "blocks")
  /\ syncing' = FALSE
  /\ IF failed /\ task.attempt < Retries
     THEN /\ task' = [Task("sync") EXCEPT !.attempt = task.attempt + 1]
          /\ UNCHANGED <<forgeTimer, syncTimer>>
     ELSE Done
  /\ UNCHANGED <<others, ticking>>

-----------------------------------------------------------------------------
(* The tasks of balancesSequence and dbSequence *)
Resume(step) == task' = [task EXCEPT !.step = step]

\* A received transaction, or a request of the API
Transaction ==
  /\ balancesTask.kind = "transaction"
  /\ balancesTask' = NoBalancesTask
  /\ UNCHANGED <<waiting, task, dbTask, forgeTimer, syncTimer, ticking, syncing, ready>>

ProcessSignature ==
  /\ balancesTask.kind = "signature"
  /\ balancesTask' = NoBalancesTask
  /\ Resume(task.next)
  /\ UNCHANGED <<waiting, dbTask, forgeTimer, syncTimer, ticking, syncing, ready>>

\* popLastBlock reads the previous block through dbSequence, undoes the
\* transactions of the last one and ticks the round backwards.
PopLoad ==
  /\ balancesTask = [kind |-> "pop", step |-> "start"]
  /\ balancesTask' = [balancesTask EXCEPT !.step = "waiting"]
  /\ db' = Append(db, "previous")
  /\ UNCHANGED <<sequence, balances, task, dbTask, forgeTimer, syncTimer, ticking, syncing, ready>>

PopBackwardTick ==
  /\ balancesTask = [kind |-> "pop", step |-> "loaded"]
  /\ balancesTask' = [balancesTask EXCEPT !.step = "ticking"]
  /\ ticking' = TRUE
  /\ UNCHANGED <<waiting, task, dbTask, forgeTimer, syncTimer, syncing, ready>>

PopDone ==
  /\ balancesTask = [kind |-> "pop", step |-> "ticking"]
  /\ balancesTask' = NoBalancesTask
  /\ ticking' = FALSE
  /\ Resume(task.next)
  /\ UNCHANGED <<waiting, dbTask, forgeTimer, syncTimer, syncing, ready>>

\* There is no previous block: the series of a fork ends, a synchronisation
\* counts an error and goes on.
PopFailed ==
  /\ balancesTask = [kind |-> "pop", step |-> "loaded"]
  /\ balancesTask' = NoBalancesTask
  /\ Resume(IF task.kind = "sync" THEN "blocks" ELSE "finish")
  /\ UNCHANGED <<waiting, dbTask, forgeTimer, syncTimer, ticking, syncing, ready>>

Read ==
  /\ dbTask \in {"read", "previous"}
  /\ dbTask' = None
  /\ balancesTask' = IF dbTask = "previous" THEN [balancesTask EXCEPT !.step = "loaded"]
                                            ELSE balancesTask
  /\ UNCHANGED <<waiting, task, forgeTimer, syncTimer, ticking, syncing, ready>>

\* loadBlocksData does not return the promise of its second query, so that its
\* catch never sees a rejection: the task does not call back.
ReadLost ==
  /\ QueryMayFail
  /\ dbTask \in {"read", "previous"}
  /\ dbTask' = "lost"
  /\ UNCHANGED <<waiting, task, balancesTask, forgeTimer, syncTimer, ticking, syncing, ready>>

\* loadBlocksOffset applies the stored blocks, one round tick after the other,
\* before anything else may happen.
RebuildTick ==
  /\ dbTask = "rebuild"
  /\ ticking' = ~ticking
  /\ UNCHANGED <<waiting, task, balancesTask, dbTask, forgeTimer, syncTimer, syncing, ready>>

BlockchainReady ==
  /\ dbTask = "rebuild"
  /\ ~ticking
  /\ dbTask' = None
  /\ ready' = TRUE
  /\ UNCHANGED <<waiting, task, balancesTask, forgeTimer, syncTimer, ticking, syncing>>

-----------------------------------------------------------------------------
Arrive == OnReceiveBlock \/ ReceiveTransaction \/ ReadBlocks \/ LoadSignatures
Timer == NextForge \/ NextSync

RunSequence ==
  \/ SequenceTick
  \/ ForgeNothing \/ Forge
  \/ ReceiveBlock \/ ReceiveForkOneSecond \/ Finish
  \/ LoadSignature \/ LoadSignaturesEnd
  \/ ApplyFailed \/ Tick \/ Ticked
  \/ SyncStart \/ SyncBlock \/ SyncRecover \/ SyncEnd(TRUE) \/ SyncEnd(FALSE)

RunBalances ==
  \/ BalancesTick
  \/ Transaction \/ ProcessSignature
  \/ PopLoad \/ PopBackwardTick \/ PopDone \/ PopFailed

RunDb == DbTick \/ Read \/ ReadLost \/ BlockchainReady

Next == Arrive \/ Timer \/ RunSequence \/ RunBalances \/ RunDb \/ RebuildTick

Spec == Init /\ [][Next]_vars

\* Every asynchronous call of a running task calls back, and setTimeout runs
\* the next tick of a queue.  The rebuild ends: the stored blocks are finite.
FairSpec ==
  /\ Spec
  /\ WF_vars(RunSequence)
  /\ WF_vars(RunBalances)
  /\ SF_vars(RunDb) /\ WF_vars(RebuildTick)

-----------------------------------------------------------------------------
Steps == {"start", "waiting", "second", "finish", "apply", "ticking", "blocks", "stalled"}

TypeOK ==
  /\ sequence \in Seq(SequenceKinds)
  /\ balances \in Seq(BalancesKinds)
  /\ db \in Seq(DbKinds)
  /\ task \in [kind : SequenceKinds \cup {None}, step : Steps, next : Steps,
               left : 0..MaxRounds, attempt : 1..Retries]
  /\ balancesTask \in [kind : BalancesKinds \cup {None},
                       step : {"start", "waiting", "loaded", "ticking"}]
  /\ dbTask \in DbKinds \cup {None, "lost"}
  /\ forgeTimer \in BOOLEAN
  /\ syncTimer \in BOOLEAN
  /\ ticking \in BOOLEAN
  /\ syncing \in BOOLEAN
  /\ ready \in BOOLEAN

(***************************************************************************)
(* The early return of onReceiveBlock (process.js:372-375) would end the   *)
(* work of the node: the task never calls back and `sequence` never takes  *)
(* another.  It cannot be taken, because the node ticks or synchronises    *)
(* only inside tasks of `sequence`, or before it lets anything in.         *)
(***************************************************************************)
NeverStalls == task.step # "stalled"

(***************************************************************************)
(* One writer of the chain: a block is applied, or one is rolled back,     *)
(* never both, and modules.rounds.ticking() is true exactly while one of   *)
(* the two ticks a round (the flag is one, and each of them resets it).    *)
(***************************************************************************)
Applying == task.step \in {"apply", "ticking"}
RollingBack == balancesTask.kind = "pop"
RebuildRuns == dbTask = "rebuild"

OneWriter ==
  /\ ~(Applying /\ RollingBack)
  /\ RebuildRuns => ~Applying /\ ~RollingBack
  /\ ticking /\ ~RebuildRuns <=> task.step = "ticking" \/ balancesTask.step = "ticking"

(***************************************************************************)
(* Nested tasks wait in one direction only, and the rollback a task waits  *)
(* for exists once: it waits in balancesSequence or runs there.            *)
(***************************************************************************)
Occurrences(s, kind) == {i \in DOMAIN s : s[i] = kind}

NestedOnce ==
  LET waitingFor == Occurrences(balances, "pop") \cup Occurrences(balances, "signature")
      running    == balancesTask.kind \in {"pop", "signature"}
      reading    == Occurrences(db, "previous")
  IN  /\ task.step = "waiting" <=> (running \/ waitingFor # {})
      /\ running => waitingFor = {}
      /\ \A i, j \in waitingFor : i = j
      /\ balancesTask.step = "waiting" => dbTask \in {"previous", "lost"} \/ reading # {}
      /\ dbTask = "previous" \/ reading # {} => balancesTask.step = "waiting"

(***************************************************************************)
(* Whatever task a queue runs ends, so every queue goes on: no task of one *)
(* waits for ever for a task of another, unless that one is lost.          *)
(***************************************************************************)
SequenceGoesOn == task.kind # None ~> task.kind = None \/ dbTask = "lost"
BalancesGoesOn == balancesTask.kind # None ~> balancesTask.kind = None \/ dbTask = "lost"
QueuesGoOn == SequenceGoesOn /\ BalancesGoesOn
=============================================================================
