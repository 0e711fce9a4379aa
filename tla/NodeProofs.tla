----------------------------- MODULE NodeProofs -----------------------------
(***************************************************************************)
(* What keeps a running node in order, and what a stopped one comes back   *)
(* with.                                                                   *)
(*                                                                         *)
(* TaskSequences is safe for any length of its queues and any number of    *)
(* rounds and retries: its tasks are well formed, onReceiveBlock never     *)
(* stalls the queue, the chain has one writer, and a nested task is        *)
(* awaited once.                                                           *)
(*                                                                         *)
(* Recovery has the right tables for any blocks, any height and any number *)
(* of stops: RecoveryInv says how far each effect is from where the stage  *)
(* of the node puts it, and what the marks of the accounts give away.      *)
(***************************************************************************)
EXTENDS TaskSequences, Recovery, TLAPS


\* No task of the kinds K waits in the queue s; at most one does.
Free(s, K) == \A i \in 1..Len(s) : s[i] \notin K
Single(s, K) == \A i, j \in 1..Len(s) : s[i] \in K /\ s[j] \in K => i = j

Nested == {"pop", "signature"}

\* The steps a task of each kind passes through, and where it goes on after
\* the task it waits for.
TaskShape ==
  /\ task.kind = None => task.step = "start"
  /\ task.kind = "forge" => task.step \in {"start", "apply", "ticking"}
  /\ task.kind = "receive" =>
       /\ task.step \in {"start", "second", "waiting", "finish", "apply", "ticking"}
       /\ task.step = "waiting" => task.next \in {"second", "apply", "finish"}
  /\ task.kind = "sync" =>
       /\ task.step \in {"start", "blocks", "waiting", "apply", "ticking"}
       /\ task.step = "waiting" => task.next = "blocks"
  /\ task.kind = "signatures" => task.step \in {"start", "waiting"} /\ task.next = "start"

SyncInside == syncing <=> task.kind = "sync" /\ task.step # "start"

\* The nested task of balancesSequence and the one that waits for it.
BalancesNesting ==
  /\ task.step = "waiting" <=> balancesTask.kind \in Nested \/ ~Free(balances, Nested)
  /\ balancesTask.kind \in Nested => Free(balances, Nested)
  /\ Single(balances, Nested)
  /\ balancesTask.kind = "pop" => task.kind \in {"receive", "sync"}
  /\ balancesTask.kind = "signature" => task.kind = "signatures"
  /\ task.kind = "signatures" => Free(balances, {"pop"})
  /\ task.kind # "signatures" => Free(balances, {"signature"})
  /\ balancesTask.kind # "pop" => balancesTask.step = "start"

\* The nested task of dbSequence and the one that waits for it.
DbNesting ==
  /\ dbTask = "previous" \/ ~Free(db, {"previous"}) => balancesTask.step = "waiting"
  /\ balancesTask.step = "waiting" => dbTask \in {"previous", "lost"} \/ ~Free(db, {"previous"})
  /\ dbTask = "previous" => Free(db, {"previous"})
  /\ Single(db, {"previous"})

\* Nothing is let in before the rebuild has ended.
RebuildFirst ==
  /\ ready => dbTask # "rebuild" /\ Free(db, {"rebuild"})
  /\ ~ready => /\ sequence = <<>> /\ balances = <<>>
               /\ task.kind = None /\ balancesTask.kind = None
               /\ dbTask \in {None, "rebuild"}
               /\ dbTask = None => db = <<"rebuild">> /\ ~ticking
               /\ dbTask = "rebuild" => db = <<>>

TickingInside ==
  dbTask # "rebuild" => (ticking <=> task.step = "ticking" \/ balancesTask.step = "ticking")

IInv ==
  /\ TypeOK
  /\ TaskShape
  /\ SyncInside
  /\ BalancesNesting
  /\ DbNesting
  /\ RebuildFirst
  /\ TickingInside
-----------------------------------------------------------------------------
(* Adding a task to a queue and taking its first one *)

LEMMA FreeEmpty == \A K : Free(<<>>, K) /\ Single(<<>>, K)
  BY DEF Free, Single

LEMMA FreeOne == \A e, K : Single(<<e>>, K) /\ (Free(<<e>>, K) <=> e \notin K)
  BY DEF Free, Single

LEMMA FreeSubset ==
  ASSUME NEW s, NEW K, NEW L, K \subseteq L, Free(s, L)
  PROVE  Free(s, K)
  BY DEF Free

LEMMA AppendQueue ==
  ASSUME NEW S, NEW s \in Seq(S), NEW e \in S
  PROVE  /\ Append(s, e) \in Seq(S)
         /\ \A K : Free(Append(s, e), K) <=> Free(s, K) /\ e \notin K
         /\ \A K : Single(s, K) /\ (Free(s, K) \/ e \notin K) => Single(Append(s, e), K)
  BY DEF Free, Single

LEMMA TailQueue ==
  ASSUME NEW S, NEW s \in Seq(S), s # <<>>
  PROVE  /\ Head(s) \in S
         /\ Tail(s) \in Seq(S)
         /\ \A K : Free(s, K) <=> Free(Tail(s), K) /\ Head(s) \notin K
         /\ \A K : Single(s, K) => Single(Tail(s), K) /\ (Head(s) \in K => Free(Tail(s), K))
  <1>1. Head(s) \in S /\ Tail(s) \in Seq(S)
    OBVIOUS
  <1>2. ASSUME NEW K PROVE Free(s, K) <=> Free(Tail(s), K) /\ Head(s) \notin K
    BY DEF Free
  <1>3. ASSUME NEW K
        PROVE  Single(s, K) => Single(Tail(s), K) /\ (Head(s) \in K => Free(Tail(s), K))
    BY DEF Free, Single
  <1> QED BY <1>1, <1>2, <1>3

-----------------------------------------------------------------------------
(* The inductive step *)

LEMMA InitIInv == Init => IInv
  <1> SUFFICES ASSUME Init PROVE IInv
    OBVIOUS
  <1>1. TypeOK
    <2>1. /\ sequence \in Seq(SequenceKinds)
          /\ balances \in Seq(BalancesKinds)
          /\ db \in Seq(DbKinds)
      BY DEF Init, DbKinds
    <2>2. NoTask \in [kind : SequenceKinds \cup {None}, step : Steps, next : Steps,
                     left : 0..MaxRounds, attempt : 1..Retries]
      BY SequencesAssumption DEF NoTask, Task, Steps
    <2> QED BY <2>1, <2>2 DEF Init, TypeOK, NoBalancesTask
  <1>2. TaskShape /\ SyncInside /\ TickingInside
    BY SequencesAssumption
    DEF Init, TaskShape, SyncInside, TickingInside, NoTask, NoBalancesTask, Task,
        SequenceKinds, BalancesKinds, DbKinds
  <1>3. BalancesNesting
    BY SequencesAssumption, FreeEmpty
    DEF Init, BalancesNesting, NoTask, NoBalancesTask, Task, Nested,
        SequenceKinds, BalancesKinds, DbKinds
  <1>4. DbNesting
    <2>1. Free(db, {"previous"}) /\ Single(db, {"previous"})
      BY FreeOne DEF Init
    <2> QED BY <2>1, SequencesAssumption DEF Init, DbNesting, NoBalancesTask, DbKinds
  <1>5. RebuildFirst
    BY SequencesAssumption DEF Init, RebuildFirst, NoTask, NoBalancesTask, Task, DbKinds
  <1> QED BY <1>1, <1>2, <1>3, <1>4, <1>5 DEF IInv

LEMMA StutterIInv == IInv /\ UNCHANGED vars => IInv'
  BY DEF IInv, vars, waiting, TypeOK, TaskShape, SyncInside, BalancesNesting, DbNesting,
         RebuildFirst, TickingInside

\* What a task of each queue is appended and what is taken from it.
LEMMA SequenceQueue ==
  ASSUME TypeOK
  PROVE  /\ \A e \in SequenceKinds : Append(sequence, e) \in Seq(SequenceKinds)
         /\ sequence # <<>> =>
              Head(sequence) \in SequenceKinds /\ Tail(sequence) \in Seq(SequenceKinds)
  BY AppendQueue, TailQueue DEF TypeOK

LEMMA BalancesQueue ==
  ASSUME TypeOK
  PROVE  /\ \A e \in BalancesKinds :
              /\ Append(balances, e) \in Seq(BalancesKinds)
              /\ \A K : Free(Append(balances, e), K) <=> Free(balances, K) /\ e \notin K
              /\ \A K : Single(balances, K) /\ (Free(balances, K) \/ e \notin K) =>
                         Single(Append(balances, e), K)
         /\ balances # <<>> =>
              /\ Head(balances) \in BalancesKinds
              /\ Tail(balances) \in Seq(BalancesKinds)
              /\ \A K : Free(balances, K) <=> Free(Tail(balances), K) /\ Head(balances) \notin K
              /\ \A K : Single(balances, K) =>
                         /\ Single(Tail(balances), K)
                         /\ Head(balances) \in K => Free(Tail(balances), K)
  <1>1. balances \in Seq(BalancesKinds)
    BY DEF TypeOK
  <1> QED BY <1>1, AppendQueue, TailQueue

LEMMA DbQueue ==
  ASSUME TypeOK
  PROVE  /\ \A e \in DbKinds :
              /\ Append(db, e) \in Seq(DbKinds)
              /\ \A K : Free(Append(db, e), K) <=> Free(db, K) /\ e \notin K
              /\ \A K : Single(db, K) /\ (Free(db, K) \/ e \notin K) =>
                         Single(Append(db, e), K)
         /\ db # <<>> =>
              /\ Head(db) \in DbKinds
              /\ Tail(db) \in Seq(DbKinds)
              /\ \A K : Free(db, K) <=> Free(Tail(db), K) /\ Head(db) \notin K
              /\ \A K : Single(db, K) =>
                         /\ Single(Tail(db), K)
                         /\ Head(db) \in K => Free(Tail(db), K)
  <1>1. db \in Seq(DbKinds)
    BY DEF TypeOK
  <1> QED BY <1>1, AppendQueue, TailQueue

LEMMA ArriveIInv == IInv /\ (Arrive \/ Timer) => IInv'
  <1> SUFFICES ASSUME IInv, Arrive \/ Timer PROVE IInv'
    OBVIOUS
  <1> USE DEF IInv, TaskShape, SyncInside, BalancesNesting, DbNesting, RebuildFirst, TickingInside
  <1>1. CASE OnReceiveBlock \/ LoadSignatures \/ Timer
    <2>1. sequence' \in Seq(SequenceKinds) /\ ready
      BY <1>1, SequenceQueue
      DEF OnReceiveBlock, LoadSignatures, Timer, NextForge, NextSync, SequenceKinds
    <2>2. /\ UNCHANGED <<balances, db, task, balancesTask, dbTask, ticking, syncing, ready>>
          /\ forgeTimer' \in BOOLEAN /\ syncTimer' \in BOOLEAN
      BY <1>1 DEF OnReceiveBlock, LoadSignatures, Timer, NextForge, NextSync, TypeOK
    <2> QED BY <2>1, <2>2 DEF TypeOK
  <1>2. CASE ReceiveTransaction
    <2>1. "transaction" \in BalancesKinds \ Nested
      BY DEF BalancesKinds, Nested
    <2> QED BY <1>2, <2>1, BalancesQueue DEF ReceiveTransaction, TypeOK
  <1>3. CASE ReadBlocks
    <2>1. "read" \in DbKinds
      BY DEF DbKinds
    <2> QED BY <1>3, <2>1, DbQueue DEF ReadBlocks, TypeOK
  <1> QED BY <1>1, <1>2, <1>3 DEF Arrive

\* The types of a task after each way it changes.
Tasks == [kind : SequenceKinds \cup {None}, step : Steps, next : Steps,
          left : 0..MaxRounds, attempt : 1..Retries]

LEMMA NewTask ==
  ASSUME NEW kind \in SequenceKinds \cup {None}
  PROVE  /\ Task(kind) \in Tasks
         /\ Task(kind).kind = kind /\ Task(kind).step = "start" /\ Task(kind).next = "start"
         /\ \A n \in 1..Retries : [Task(kind) EXCEPT !.attempt = n] \in Tasks
  BY SequencesAssumption DEF Task, Tasks, Steps

LEMMA TaskSteps ==
  ASSUME TypeOK
  PROVE  /\ \A step \in Steps : [task EXCEPT !.step = step] \in Tasks
         /\ \A step, next \in Steps : [task EXCEPT !.step = step, !.next = next] \in Tasks
         /\ task.left > 0 =>
              /\ \A step \in Steps : [task EXCEPT !.step = step, !.left = @ - 1] \in Tasks
              /\ \A step, next \in Steps :
                   [task EXCEPT !.step = step, !.next = next, !.left = @ - 1] \in Tasks
  <1>1. task \in Tasks
    BY DEF TypeOK, Tasks
  <1>2. task.left > 0 => task.left - 1 \in 0..MaxRounds
    BY <1>1, SequencesAssumption DEF Tasks
  <1> QED BY <1>1, <1>2 DEF Tasks

\* A step of the task that leaves the other two queues and their tasks alone.
LEMMA StepIInv ==
  ASSUME IInv, ready,
         UNCHANGED <<balances, db, balancesTask, dbTask, ready>>,
         sequence' \in Seq(SequenceKinds),
         forgeTimer' \in BOOLEAN, syncTimer' \in BOOLEAN,
         ticking' \in BOOLEAN, syncing' \in BOOLEAN,
         task' \in Tasks, TaskShape', SyncInside',
         task.step # "waiting", task'.step # "waiting",
         ticking' <=> task'.step = "ticking",
         task'.kind \in {task.kind, None} \/ task.kind = None
  PROVE  IInv'
  <1>1. TypeOK'
    BY DEF IInv, TypeOK, Tasks
  <1>2. /\ Free(balances, Nested)
        /\ Free(balances, {"pop"}) /\ Free(balances, {"signature"})
        /\ balancesTask.kind \notin Nested
    BY FreeSubset DEF IInv, BalancesNesting, Nested
  <1>3. BalancesNesting'
    BY <1>2 DEF IInv, BalancesNesting, Nested
  <1>4. DbNesting' /\ RebuildFirst'
    BY DEF IInv, DbNesting, RebuildFirst
  <1>5. TickingInside'
    BY <1>2 DEF IInv, BalancesNesting, TickingInside, Nested
  <1> QED BY <1>1, <1>3, <1>4, <1>5 DEF IInv

\* A step of the task that adds a task to balancesSequence and waits for it.
LEMMA AwaitIInv ==
  ASSUME IInv, ready, NEW kind \in Nested,
         kind = "pop" => task.kind \in {"receive", "sync"},
         kind = "signature" => task.kind = "signatures",
         balances' = Append(balances, kind),
         UNCHANGED <<sequence, db, balancesTask, dbTask, forgeTimer, syncTimer,
                     ticking, syncing, ready>>,
         task' \in Tasks, TaskShape', task'.kind = task.kind,
         task.step \notin {"waiting", "ticking"}, task'.step = "waiting",
         task.kind = "sync" => task.step # "start"
  PROVE  IInv'
  <1>1. kind \in BalancesKinds
    BY DEF Nested, BalancesKinds
  <1>2. TypeOK'
    BY <1>1, BalancesQueue DEF IInv, TypeOK, Tasks
  <1>3. /\ Free(balances, Nested)
        /\ Free(balances, {"pop"}) /\ Free(balances, {"signature"})
        /\ balancesTask.kind \notin Nested
    BY FreeSubset DEF IInv, BalancesNesting, Nested
  <1>4. /\ ~Free(balances', Nested)
        /\ Single(balances', Nested)
        /\ kind # "pop" => Free(balances', {"pop"})
        /\ kind # "signature" => Free(balances', {"signature"})
    BY <1>1, <1>3, BalancesQueue DEF IInv, BalancesNesting
  <1>5. BalancesNesting'
    BY <1>3, <1>4 DEF IInv, BalancesNesting, Nested
  <1>6. SyncInside' /\ DbNesting' /\ RebuildFirst'
    BY DEF IInv, SyncInside, DbNesting, RebuildFirst
  <1>7. TickingInside'
    BY <1>3 DEF IInv, BalancesNesting, TickingInside, Nested
  <1> QED BY <1>2, <1>5, <1>6, <1>7 DEF IInv

\* A task runs only after the rebuild, and one that is not waiting ticks alone.
LEMMA Running ==
  ASSUME IInv, task.kind # None
  PROVE  /\ ready
         /\ task.step # "waiting" => (ticking <=> task.step = "ticking")
  BY DEF IInv, RebuildFirst, BalancesNesting, TickingInside, Nested

LEMMA SequenceIInv == IInv /\ RunSequence => IInv'
  <1> SUFFICES ASSUME IInv, RunSequence PROVE IInv'
    OBVIOUS
  <1> USE SequencesAssumption
  <1>t. TypeOK /\ task \in Tasks /\ TaskShape /\ SyncInside
    BY DEF IInv, TypeOK, Tasks
  <1>n. NoTask \in Tasks /\ NoTask.kind = None /\ NoTask.step = "start" 
    BY NewTask DEF NoTask
  <1>1. CASE SequenceTick
    <2>1. /\ Head(sequence) \in SequenceKinds
          /\ sequence' \in Seq(SequenceKinds)
          /\ ready
      BY <1>1, SequenceQueue DEF IInv, SequenceTick, RebuildFirst
    <2>2. /\ task' \in Tasks /\ task'.kind \in SequenceKinds
          /\ task'.step = "start" /\ task'.next = "start"
      BY <1>1, <2>1, NewTask DEF SequenceTick
    <2>3. task.step = "start" /\ ~syncing /\ ~ticking
      BY <1>1, <2>1 DEF SequenceTick, IInv, TaskShape, SyncInside, RebuildFirst, TickingInside,
                        BalancesNesting, Nested, SequenceKinds
    <2>4. TaskShape' /\ SyncInside'
      BY <1>1, <2>2, <2>3 DEF SequenceTick, TaskShape, SyncInside, SequenceKinds
    <2> QED BY <1>1, <1>t, <2>1, <2>2, <2>3, <2>4, StepIInv DEF SequenceTick, TypeOK
  <1>d. ASSUME Done, task.kind # None
        PROVE  /\ task' \in Tasks /\ task'.kind = None /\ task'.step = "start" /\ TaskShape'
               /\ forgeTimer' \in BOOLEAN /\ syncTimer' \in BOOLEAN
    BY <1>d, <1>n, <1>t DEF Done, TypeOK, TaskShape, SequenceKinds
  <1>g. ASSUME NEW step \in Steps, GoTo(step)
        PROVE  /\ task' \in Tasks /\ task'.kind = task.kind /\ task'.step = step
               /\ task'.next = task.next
               /\ forgeTimer' \in BOOLEAN /\ syncTimer' \in BOOLEAN
    BY <1>g, <1>t, TaskSteps DEF GoTo, TypeOK, Tasks
  <1>k. ASSUME task.step # "start" PROVE task.kind # None
    BY <1>k, <1>t DEF TaskShape
  <1>2. CASE ForgeNothing \/ Finish \/ LoadSignaturesEnd
    <2>1. task.kind # None /\ task.kind # "sync" /\ task.step \in {"start", "finish"} /\ Done
      BY <1>2, <1>k, <1>t DEF ForgeNothing, Finish, LoadSignaturesEnd, At, TaskShape, SequenceKinds
    <2>2. UNCHANGED <<others, ticking, syncing>>
      BY <1>2 DEF ForgeNothing, Finish, LoadSignaturesEnd
    <2>3. ~ticking /\ ~syncing /\ ready
      BY <2>1, <1>t, Running DEF SyncInside
    <2> QED BY <2>1, <2>2, <2>3, <1>d, <1>t, StepIInv DEF others, waiting, TypeOK, SyncInside
  <1>3. CASE Forge \/ SyncStart \/ SyncBlock \/ Tick
    <2>1. /\ task.kind # None /\ task.step \in {"start", "blocks", "apply"}
          /\ UNCHANGED others
      BY <1>3, <1>k, <1>t DEF Forge, SyncStart, SyncBlock, Tick, At, SequenceKinds
    <2>2. ready /\ ~ticking
      BY <2>1, Running
    <2>3. /\ task' \in Tasks /\ task'.kind = task.kind /\ task'.next = task.next
          /\ task'.step \in {"blocks", "apply", "ticking"}
          /\ forgeTimer' \in BOOLEAN /\ syncTimer' \in BOOLEAN
      <3>1. CASE Forge \/ Tick
        BY <3>1, <1>g DEF Forge, Tick, Steps
      <3>2. CASE SyncStart
        BY <3>2, <1>t, TaskSteps DEF SyncStart, Steps, Tasks, TypeOK
      <3>3. CASE SyncBlock
        <4>1. task' \in Tasks
          BY <3>3, <1>t, TaskSteps DEF SyncBlock, Steps
        <4> QED BY <3>3, <4>1, <1>t DEF SyncBlock, Tasks, TypeOK
      <3> QED BY <1>3, <3>1, <3>2, <3>3
    <2>4. /\ ticking' \in BOOLEAN /\ syncing' \in BOOLEAN
          /\ TaskShape' /\ SyncInside'
          /\ ticking' <=> task'.step = "ticking"
      <3>1. CASE Forge
        <4>1. task'.step = "apply" /\ task'.kind = "forge" /\ UNCHANGED <<ticking, syncing>>
          BY <3>1, <1>g DEF Forge, At, Steps
        <4>2. TaskShape'
          BY <4>1 DEF TaskShape, SequenceKinds
        <4> QED BY <3>1, <4>1, <4>2, <1>t, <2>2 DEF Forge, At, SyncInside, TypeOK
      <3>2. CASE SyncStart
        <4>1. /\ task'.step = "blocks" /\ task'.kind = "sync"
              /\ UNCHANGED ticking /\ syncing' = TRUE
          BY <3>2, <1>t DEF SyncStart, At, Tasks
        <4>2. TaskShape'
          BY <4>1 DEF TaskShape, SequenceKinds
        <4> QED BY <4>1, <4>2, <1>t, <2>2 DEF SyncInside, TypeOK
      <3>3. CASE SyncBlock
        BY <3>3, <1>t, <2>2 DEF SyncBlock, At, TaskShape, SyncInside, TypeOK, Tasks
      <3>4. CASE Tick
        BY <3>4, <1>t, <2>3, <1>g DEF Tick, Steps, TaskShape, SyncInside, TypeOK
      <3> QED BY <1>3, <3>1, <3>2, <3>3, <3>4
    <2> QED BY <2>1, <2>2, <2>3, <2>4, <1>t, StepIInv DEF others, waiting, TypeOK
  <1>4. CASE ApplyFailed \/ Ticked
    <2>1. /\ task.kind # None /\ task.step \in {"apply", "ticking"}
          /\ UNCHANGED <<others, syncing>> /\ ticking' \in BOOLEAN /\ ~ticking'
      <3>1. CASE ApplyFailed
        BY <3>1, <1>k, <1>t, Running DEF ApplyFailed, TypeOK
      <3>2. CASE Ticked
        BY <3>2, <1>k DEF Ticked
      <3> QED BY <1>4, <3>1, <3>2
    <2>2. IF task.kind = "sync" THEN GoTo("blocks") ELSE Done
      BY <1>4 DEF ApplyFailed, Ticked
    <2>3. ready
      BY <2>1, Running
    <2>4. /\ task' \in Tasks /\ task'.kind \in {task.kind, None}
          /\ task'.step \in {"blocks", "start"}
          /\ forgeTimer' \in BOOLEAN /\ syncTimer' \in BOOLEAN
          /\ TaskShape' /\ SyncInside'
      <3>1. CASE task.kind = "sync"
        BY <3>1, <2>1, <2>2, <1>g, <1>t DEF TaskShape, SyncInside, Steps, SequenceKinds
      <3>2. CASE task.kind # "sync"
        BY <3>2, <2>1, <2>2, <1>d, <1>t DEF SyncInside, SequenceKinds
      <3> QED BY <3>1, <3>2
    <2> QED BY <2>1, <2>3, <2>4, <1>t, StepIInv DEF others, waiting, TypeOK
  <1>5. ASSUME NEW failed \in BOOLEAN, SyncEnd(failed) PROVE IInv'
    <2>1. /\ task.kind = "sync" /\ task.step = "blocks"
          /\ UNCHANGED <<others, ticking>> /\ ~syncing' /\ syncing' \in BOOLEAN
      BY <1>5 DEF SyncEnd, At
    <2>2. ready /\ ~ticking
      BY <2>1, Running DEF SequenceKinds
    <2>3. /\ task' \in Tasks /\ task'.kind \in {task.kind, None} /\ task'.step = "start"
          /\ forgeTimer' \in BOOLEAN /\ syncTimer' \in BOOLEAN
          /\ TaskShape' /\ SyncInside'
      <3>1. CASE failed /\ task.attempt < Retries
        <4>1. task.attempt + 1 \in 1..Retries /\ "sync" \in SequenceKinds
          BY <3>1, <1>t DEF Tasks, SequenceKinds
        <4>2. task' \in Tasks /\ task'.kind = "sync" /\ task'.step = "start"
          BY <3>1, <4>1, <1>5, NewTask DEF SyncEnd, Task
        <4> QED BY <3>1, <4>2, <2>1, <1>5, <1>t DEF SyncEnd, TaskShape, SyncInside, TypeOK
      <3>2. CASE ~(failed /\ task.attempt < Retries)
        BY <3>2, <2>1, <1>5, <1>d, SequencesAssumption DEF SyncEnd, SyncInside, SequenceKinds
      <3> QED BY <3>1, <3>2
    <2> QED BY <2>1, <2>2, <2>3, <1>t, StepIInv DEF others, waiting, TypeOK
  <1>6. CASE LoadSignature \/ SyncRecover
    <2>1. task.left > 0 /\ task.step \in {"start", "blocks"} /\ task.kind \in SequenceKinds
      BY <1>6 DEF LoadSignature, SyncRecover, At, SequenceKinds
    <2>2. CASE LoadSignature
      <3>1. /\ task' \in Tasks /\ task'.kind = "signatures" /\ task'.step = "waiting"
            /\ task'.next = task.next
        <4>1. task' \in Tasks
          BY <2>1, <2>2, <1>t, TaskSteps DEF LoadSignature, Steps
        <4> QED BY <2>2, <4>1, <1>t DEF LoadSignature, At, Tasks
      <3>2. TaskShape'
        BY <2>2, <3>1, <1>t DEF LoadSignature, At, TaskShape, SequenceKinds
      <3> QED
        BY <2>1, <2>2, <3>1, <3>2, Running, AwaitIInv DEF LoadSignature, At, SequenceKinds, Nested
    <2>3. CASE SyncRecover
      <3>1. /\ task' \in Tasks /\ task'.kind = "sync" /\ task'.step = "waiting"
            /\ task'.next = "blocks"
        <4>1. task' \in Tasks
          BY <2>1, <2>3, <1>t, TaskSteps DEF SyncRecover, Steps
        <4> QED BY <2>3, <4>1, <1>t DEF SyncRecover, At, Tasks
      <3>2. TaskShape'
        BY <3>1, <1>t DEF TaskShape, SequenceKinds
      <3> QED
        BY <2>1, <2>3, <3>1, <3>2, Running, AwaitIInv DEF SyncRecover, At, SequenceKinds, Nested
    <2> QED BY <1>6, <2>2, <2>3
  <1>7. ASSUME NEW next \in {"second", "apply", "finish"}, Await("pop", next),
               task.kind = "receive", task.step \in {"start", "second"},
               UNCHANGED <<sequence, db, balancesTask, dbTask, ready, ticking, syncing>>
        PROVE  IInv'
    <2>1. task' \in Tasks /\ task'.kind = "receive" /\ task'.step = "waiting" /\ task'.next = next
      <3>1. next \in Steps /\ "waiting" \in Steps
        BY <1>7 DEF Steps
      <3>2. task' \in Tasks
        BY <1>7, <1>t, <3>1, TaskSteps DEF Await
      <3> QED BY <1>7, <1>t, <3>2 DEF Await, Tasks
    <2>2. TaskShape'
      BY <2>1, <1>7 DEF TaskShape, SequenceKinds
    <2> QED
      BY <2>1, <2>2, <1>7, Running, AwaitIInv DEF Await, SequenceKinds, Nested
  <1>8. CASE ReceiveForkOneSecond
    BY <1>8, <1>7 DEF ReceiveForkOneSecond, At
  <1>9. CASE ReceiveBlock
    <2>1. /\ task.kind = "receive" /\ task.step = "start" 
          /\ UNCHANGED <<sequence, db, balancesTask, dbTask, ready, ticking, syncing>>
      BY <1>9 DEF ReceiveBlock, At
    <2>2. ready /\ ~ticking /\ ~syncing
      BY <2>1, <1>t, Running DEF SyncInside, SequenceKinds
    <2>3. CASE Await("pop", "second") \/ Await("pop", "apply")
      BY <2>3, <2>1, <1>7
    <2>4. CASE Done /\ UNCHANGED balances
      BY <2>4, <2>1, <2>2, <1>d, <1>t, StepIInv DEF SyncInside, SequenceKinds, TypeOK
    <2>5. CASE GoTo("apply") /\ UNCHANGED balances
      <3>1. TaskShape'
        BY <2>1, <2>5, <1>g DEF TaskShape, SequenceKinds, Steps
      <3> QED
        BY <3>1, <2>5, <2>1, <2>2, <1>g, <1>t, StepIInv DEF SyncInside, SequenceKinds, Steps, TypeOK
    <2> QED BY <1>9, <2>2, <2>3, <2>4, <2>5 DEF ReceiveBlock
  <1> QED
    BY <1>1, <1>2, <1>3, <1>4, <1>5, <1>6, <1>8, <1>9 DEF RunSequence

LEMMA BalancesIInv == IInv /\ RunBalances => IInv'
  <1> SUFFICES ASSUME IInv, RunBalances PROVE IInv'
    OBVIOUS
  <1> USE SequencesAssumption
      DEF IInv, TaskShape, SyncInside, BalancesNesting, DbNesting, RebuildFirst, TickingInside
  <1>1. CASE BalancesTick
    <2> DEFINE head == Head(balances)
    <2>1. /\ head \in BalancesKinds
          /\ balances' \in Seq(BalancesKinds)
          /\ \A K : Free(balances, K) <=> Free(balances', K) /\ head \notin K
          /\ \A K : Single(balances, K) =>
                     Single(balances', K) /\ (head \in K => Free(balances', K))
      BY <1>1, BalancesQueue DEF BalancesTick
    <2>2. /\ balancesTask' = [kind |-> head, step |-> "start"]
          /\ UNCHANGED <<sequence, db, task, dbTask, forgeTimer, syncTimer, ticking, syncing, ready>>
      BY <1>1 DEF BalancesTick
    <2>3. ready
      BY <1>1 DEF BalancesTick
    <2>4. TypeOK'
      BY <2>1, <2>2 DEF TypeOK
    <2>5. BalancesNesting'
      <3>1. balancesTask.kind \notin Nested /\ None \notin Nested
        BY <1>1 DEF BalancesTick, BalancesKinds, Nested
      <3>2. balancesTask'.kind = head /\ balancesTask'.step = "start" /\ task' = task
        BY <2>2
      <3>3. /\ Free(balances, Nested) <=> Free(balances', Nested) /\ head \notin Nested
            /\ Single(balances', Nested)
            /\ head \in Nested => Free(balances', Nested)
        BY <2>1
      <3>4. /\ task.kind = "signatures" => Free(balances', {"pop"}) /\ head # "pop"
            /\ task.kind # "signatures" => Free(balances', {"signature"}) /\ head # "signature"
        BY <2>1
      <3>5. head \in Nested => task.step = "waiting"
        BY <3>3
      <3>6. head = "pop" => task.kind \in {"receive", "sync"}
        BY <3>4, <3>5 DEF TypeOK, Nested, SequenceKinds
      <3> HIDE DEF head
      <3> QED BY <3>1, <3>2, <3>3, <3>4, <3>6 DEF Nested
    <2>6. balancesTask.step = "start"
      BY <1>1 DEF BalancesTick, BalancesKinds
    <2> QED BY <2>2, <2>3, <2>4, <2>5, <2>6
  <1>2. CASE Transaction
    BY <1>2 DEF Transaction, NoBalancesTask, waiting, TypeOK, BalancesKinds, Nested
  <1>3. CASE ProcessSignature
    BY <1>3 DEF ProcessSignature, Resume, NoBalancesTask, waiting, TypeOK, BalancesKinds, Nested
  <1>4. CASE PopLoad
    BY <1>4, DbQueue DEF PopLoad, TypeOK, BalancesKinds, DbKinds, Nested
  <1>5. CASE PopBackwardTick
    BY <1>5 DEF PopBackwardTick, waiting, TypeOK, BalancesKinds, Nested
  <1>6. CASE PopDone
    BY <1>6 DEF PopDone, Resume, NoBalancesTask, waiting, TypeOK, BalancesKinds, Nested, Steps
  <1>7. CASE PopFailed
    BY <1>7 DEF PopFailed, Resume, NoBalancesTask, waiting, TypeOK, BalancesKinds, Nested, Steps
  <1> QED BY <1>1, <1>2, <1>3, <1>4, <1>5, <1>6, <1>7 DEF RunBalances

LEMMA DbIInv == IInv /\ (RunDb \/ RebuildTick) => IInv'
  <1> SUFFICES ASSUME IInv, RunDb \/ RebuildTick PROVE IInv'
    OBVIOUS
  <1> USE SequencesAssumption
      DEF IInv, TaskShape, SyncInside, BalancesNesting, DbNesting, RebuildFirst, TickingInside
  <1>1. CASE DbTick
    BY <1>1, DbQueue, FreeEmpty DEF DbTick, TypeOK, DbKinds
  <1>2. CASE Read
    <2>1. CASE dbTask = "read"
      BY <1>2, <2>1 DEF Read, waiting, TypeOK, DbKinds
    <2>2. CASE dbTask = "previous"
      <3>1. /\ balancesTask.kind = "pop" /\ balancesTask.step = "waiting"
            /\ balancesTask' = [balancesTask EXCEPT !.step = "loaded"]
            /\ dbTask' = None /\ Free(db, {"previous"})
            /\ UNCHANGED <<waiting, task, forgeTimer, syncTimer, ticking, syncing, ready>>
        BY <1>2, <2>2 DEF Read
      <3>2. balancesTask'.kind = "pop" /\ balancesTask'.step = "loaded"
        BY <3>1 DEF TypeOK
      <3> QED BY <3>1, <3>2, <2>2 DEF waiting, TypeOK, DbKinds, Nested
    <2> QED BY <1>2, <2>1, <2>2 DEF Read
  <1>3. CASE ReadLost
    BY <1>3 DEF ReadLost, waiting, TypeOK, DbKinds
  <1>4. CASE BlockchainReady
    BY <1>4, FreeEmpty DEF BlockchainReady, waiting, TypeOK, DbKinds
  <1>5. CASE RebuildTick
    BY <1>5 DEF RebuildTick, waiting, TypeOK, DbKinds
  <1> QED BY <1>1, <1>2, <1>3, <1>4, <1>5 DEF RunDb

-----------------------------------------------------------------------------
(* The theorems *)

LEMMA NextIInv == IInv /\ [Next]_vars => IInv'
  BY StutterIInv, ArriveIInv, SequenceIInv, BalancesIInv, DbIInv DEF Next

\* IInv holds in every state a node goes through.
THEOREM Invariant == Spec => []IInv
  BY InitIInv, NextIInv, PTL DEF Spec

\* The tasks and flags of a node are of their types: a retry of the loader
\* (Sequence, loader.sync) never exceeds its number of attempts.
THEOREM Typed == Spec => []TypeOK
  BY Invariant, PTL DEF IInv

\* The return without callback in Process.onReceiveBlock is never taken.
THEOREM NoStall == Spec => []NeverStalls
  <1>1. IInv => NeverStalls
    BY DEF IInv, TypeOK, TaskShape, NeverStalls, SequenceKinds
  <1> QED BY <1>1, Invariant, PTL

\* A block is applied or one is rolled back, never both, and the node ticks
\* exactly while one of the two does.
THEOREM WritesAlone == Spec => []OneWriter
  <1>1. IInv => OneWriter
    <2> SUFFICES ASSUME IInv PROVE OneWriter
      OBVIOUS
    <2>1. RollingBack => task.step = "waiting"
      BY DEF IInv, BalancesNesting, RollingBack, Nested
    <2>2. balancesTask.step = "ticking" => RollingBack
      BY DEF IInv, BalancesNesting, RollingBack
    <2>3. RebuildRuns => /\ ~RollingBack /\ task.step = "start"
      BY SequencesAssumption
      DEF IInv, RebuildFirst, RebuildRuns, RollingBack, TaskShape, BalancesKinds
    <2> QED BY <2>1, <2>2, <2>3 DEF IInv, TickingInside, OneWriter, Applying, RebuildRuns
  <1> QED BY <1>1, Invariant, PTL

\* The task that a running task waits for exists once.
THEOREM AwaitedOnce == Spec => []NestedOnce
  <1>1. IInv => NestedOnce
    <2> SUFFICES ASSUME IInv PROVE NestedOnce
      OBVIOUS
    <2> DEFINE waitingFor == Occurrences(balances, "pop") \cup Occurrences(balances, "signature")
               reading == Occurrences(db, "previous")
    <2>1. DOMAIN balances = 1..Len(balances) /\ DOMAIN db = 1..Len(db)
      BY DEF IInv, TypeOK
    <2>2. waitingFor = {} <=> Free(balances, Nested)
      BY <2>1 DEF Occurrences, Free, Nested
    <2>3. Single(balances, Nested) => \A i, j \in waitingFor : i = j
      BY <2>1 DEF Occurrences, Single, Nested
    <2>4. reading = {} <=> Free(db, {"previous"})
      BY <2>1 DEF Occurrences, Free
    <2> QED BY <2>2, <2>3, <2>4 DEF IInv, BalancesNesting, DbNesting, NestedOnce, Nested
  <1> QED BY <1>1, Invariant, PTL

-----------------------------------------------------------------------------
(* Recovery: what a stop leaves, and what the start makes of it *)

\* The stages of the node, and its record
Stages == {"up", "verifying", "applying", "saved", "unsaved", "undoing",
           "ticked back", "rebuilding", "stuck", "down"}
Node == [stage : Stages, block : Block \cup {Genesis}, merged : Nat, rebuilt : Int]

\* The stages in which a stop is noticed, and a node that stopped in no other
Noticed == {"up", "verifying", "applying", "unsaved", "ticked back", "stuck"}
Good == StoppedIn(Noticed)

\* The blocks whose effects the tables should hold, but for the one under way
InTables == IF Rebuilding /\ proc.stage # "stuck" THEN {chain[i] : i \in 1..proc.rebuilt} ELSE ToSet(chain)

\* Whether the tables should hold an effect, if no stop cut anything off, and
\* how far they are from that
Holds(e) ==
  \/ proc.stage \in {"applying", "saved"} /\ e[1] = proc.block /\ e[2] \in 1..proc.merged
  \/ proc.stage = "undoing" /\ e[1] = proc.block /\ e[2] \in 0..proc.merged
  \/ /\ proc.stage \in {"applying", "saved", "undoing", "ticked back"} => e[1] # proc.block
     /\ e[1] \in InTables
Wanted(e) == IF Holds(e) THEN 1 ELSE 0
Drift(e) == effects[e] - Wanted(e)
Faithful == \A e \in Effect : Drift(e) = 0

\* The types of the tables; no block is twice in the chain.
ChainInv ==
  /\ chain \in Seq(Block) /\ IsInjective(chain) /\ Len(chain) <= MaxHeight
  /\ effects \in [Effect -> Int]
  /\ mark \in [Account -> Block \cup {Genesis, Nobody}]
  /\ rows \subseteq 1..Calc(HeightOf(MaxHeight))
  /\ cleaning \in {"no", "asked", "ready"}
  /\ stops \in Seq(Stages) /\ Len(stops) <= MaxStops

\* What the node has under way fits its chain.
ProcInv ==
  /\ proc \in Node /\ proc.rebuilt \in -1..Len(chain)
  /\ Rebuilding => proc.stage \in {"rebuilding", "applying", "saved", "stuck"} /\ stops # <<>>
  /\ proc.stage = "rebuilding" => Rebuilding
  /\ proc.stage = "down" => stops # <<>>
  /\ proc.stage \in {"verifying", "applying"} /\ ~Rebuilding =>
       proc.block \in Block \ ToSet(chain) /\ Len(chain) < MaxHeight
  /\ proc.stage = "saved" /\ ~Rebuilding =>
       \/ proc.block \in Block \ ToSet(chain) /\ Len(chain) < MaxHeight
       \/ chain # <<>> /\ proc.block = Last(chain)
  /\ proc.stage \in {"applying", "saved"} /\ Rebuilding =>
       proc.rebuilt < Len(chain) /\ proc.block = chain[proc.rebuilt + 1]
  /\ proc.stage \in {"undoing", "ticked back"} => chain # <<>> /\ proc.block = Last(chain)
  /\ proc.stage \in {"applying", "undoing"} => proc.merged <= Len(Touched[proc.block])
  /\ proc.stage = "saved" => proc.merged = Len(Touched[proc.block])

\* No stop takes an effect further than one from where it should be.
CloseInv ==
  \A e \in Effect :
    /\ effects[e] \in -Len(stops)..Len(stops) + 1
    /\ proc.stage = "unsaved" => effects[e] - Replay[e] \in -Len(stops) - 1..Len(stops) + 1
    /\ proc.stage # "unsaved" => Drift(e) \in -Len(stops)..Len(stops)

\* A rebuild starts from nothing, and what stopped only where it is noticed
\* goes on with the right tables.
ExactInv ==
  /\ Rebuilding /\ proc.stage # "stuck" => Faithful
  /\ Good /\ proc.stage \notin {"down", "stuck", "unsaved"} => Faithful

\* What the marks of the accounts tell the start
MarkInv ==
  /\ proc.stage = "rebuilding" =>
       \A a \in Account : mark[a] \in {Genesis} \cup {chain[i] : i \in 1..proc.rebuilt}
  /\ proc.stage \in {"applying", "saved"} /\ Rebuilding =>
       \A a \in Account : mark[a] \in {Genesis, proc.block} \cup {chain[i] : i \in 1..proc.rebuilt}
  /\ proc.stage = "applying" /\ ~Rebuilding /\ proc.merged > 0 =>
       mark[Touched[proc.block][proc.merged]] = proc.block
  /\ proc.stage = "unsaved" => OrphanedBlocks
  /\ proc.stage = "ticked back" => \A a \in Account : mark[a] # proc.block

\* A stop where it is noticed leaves the right tables, or the start finds out.
NoticedInv ==
  Good /\ (proc.stage = "down" \/ (proc.stage = "stuck" /\ ~Rebuilding)) =>
    Faithful \/ ~Consistent

RecoveryInv == ChainInv /\ ProcInv /\ CloseInv /\ ExactInv /\ MarkInv /\ NoticedInv

-----------------------------------------------------------------------------
(* Effects, sequences and rounds *)

LEMMA Effects ==
  /\ \A b \in Block : \A i \in 0..Len(Touched[b]) : <<b, i>> \in Effect
  /\ \A e \in Effect : /\ e[1] \in Block /\ e[2] \in 0..Len(Touched[e[1]])
                       /\ e = <<e[1], e[2]>>
BY DEF Effect

LEMMA Touches ==
  ASSUME NEW b \in Block
  PROVE  /\ Len(Touched[b]) \in Nat /\ Generator[b] \in Account
         /\ \A i \in 1..Len(Touched[b]) : Touched[b][i] \in Account
         /\ b # Genesis /\ b # Nobody
<1>1. Touched[b] \in Seq(Account) /\ Generator[b] \in Account /\ b # Genesis /\ b # Nobody
  BY RecoveryAssumption
<1> QED
  BY <1>1

\* What a merge, a tick or their undo does to the effects
Counts(f, g, b, i, n) == g = [f EXCEPT ![<<b, i>>] = f[<<b, i>>] + n]

LEMMA Counted ==
  ASSUME NEW f \in [Effect -> Int], NEW g, NEW b \in Block, NEW i \in 0..Len(Touched[b]),
         NEW n \in Int, Counts(f, g, b, i, n)
  PROVE  /\ g \in [Effect -> Int]
         /\ \A e \in Effect : g[e] = f[e] + (IF e[1] = b /\ e[2] = i THEN n ELSE 0)
<1>1. <<b, i>> \in Effect
  BY Effects
<1>2. PICK v \in Int : v = f[<<b, i>>] + n
  BY <1>1
<1>3. g = [f EXCEPT ![<<b, i>>] = v]
  BY <1>2 DEF Counts
<1>4. \A e \in Effect : e = <<b, i>> <=> e[1] = b /\ e[2] = i
  BY Effects
<1>5. \A e \in Effect : g[e] = IF e = <<b, i>> THEN v ELSE f[e]
  BY <1>1, <1>3
<1>6. g \in [Effect -> Int]
  BY <1>2, <1>3
<1>7. ASSUME NEW e \in Effect
      PROVE  g[e] = f[e] + (IF e[1] = b /\ e[2] = i THEN n ELSE 0)
  <2>1. f[e] \in Int
    OBVIOUS
  <2>2. CASE e = <<b, i>>
    BY <1>2, <1>5, <2>2
  <2>3. CASE e # <<b, i>>
    BY <1>4, <1>5, <2>1, <2>3
  <2> QED
    BY <2>2, <2>3
<1> QED
  BY <1>6, <1>7

LEMMA Members ==
  ASSUME NEW S, NEW s \in Seq(S)
  PROVE  Len(s) \in Nat /\ \A i \in 1..Len(s) : s[i] \in S
OBVIOUS

LEMMA Appended ==
  ASSUME NEW s \in Seq(Block), IsInjective(s), NEW b \in Block, b \notin ToSet(s)
  PROVE  /\ Append(s, b) \in Seq(Block) /\ IsInjective(Append(s, b))
         /\ Len(Append(s, b)) = Len(s) + 1 /\ Last(Append(s, b)) = b
         /\ ToSet(Append(s, b)) = ToSet(s) \cup {b}
<1>1. PICK t : t = Append(s, b)
  OBVIOUS
<1>2. /\ t \in Seq(Block) /\ Len(t) = Len(s) + 1 /\ DOMAIN t = 1..Len(s) + 1 /\ t[Len(s) + 1] = b
      /\ \A i \in 1..Len(s) : t[i] = s[i]
  BY <1>1
<1>3. \A i \in 1..Len(s) : s[i] # b
  BY DEF ToSet
<1>4. \A i, j \in 1..Len(s) : s[i] = s[j] => i = j
  BY DEF IsInjective
<1>5. \A i, j \in 1..Len(s) + 1 : t[i] = t[j] => i = j
  BY <1>2, <1>3, <1>4
<1>6. ToSet(t) = ToSet(s) \cup {b}
  <2>1. \A x : x \in ToSet(t) <=> \E i \in 1..Len(s) + 1 : x = t[i]
    BY <1>2 DEF ToSet
  <2>2. \A x : x \in ToSet(s) <=> \E i \in 1..Len(s) : x = s[i]
    BY DEF ToSet
  <2>3. ASSUME NEW x PROVE x \in ToSet(t) <=> x \in ToSet(s) \cup {b}
    <3>1. Len(s) \in Nat
      OBVIOUS
    <3> QED
      BY ONLY <1>2, <2>1, <2>2, <3>1
  <2> QED
    BY <2>3
<1> QED
  BY <1>1, <1>2, <1>5, <1>6 DEF IsInjective, Last

LEMMA CutOff ==
  ASSUME NEW s \in Seq(Block), IsInjective(s), s # <<>>
  PROVE  /\ Front(s) \in Seq(Block) /\ IsInjective(Front(s))
         /\ Len(Front(s)) = Len(s) - 1 /\ Last(s) \in Block
         /\ Last(s) \in ToSet(s)
         /\ ToSet(Front(s)) = ToSet(s) \ {Last(s)}
<1>1. PICK t : t = Front(s)
  OBVIOUS
<1>2. Len(s) \in Nat \ {0} /\ Last(s) = s[Len(s)] /\ Last(s) \in Block
  BY DEF Last
<1>3. /\ t \in Seq(Block) /\ Len(t) = Len(s) - 1 /\ DOMAIN t = 1..Len(s) - 1
      /\ \A i \in 1..Len(s) - 1 : t[i] = s[i]
  <2>1. PICK n \in Nat : n = Len(s) - 1
    BY <1>2
  <2>2. t = SubSeq(s, 1, n)
    BY <1>1, <2>1 DEF Front
  <2>3. \A i \in 1..n : s[i] \in Block
    BY <2>1
  <2>4. SubSeq(s, 1, n) \in Seq(Block) /\ Len(SubSeq(s, 1, n)) = n
    BY <2>3
  <2>5. \A i \in 1..n : SubSeq(s, 1, n)[i] = s[i]
    BY <2>3
  <2> QED
    BY <2>1, <2>2, <2>4, <2>5
<1>4. \A i, j \in 1..Len(s) : s[i] = s[j] => i = j
  BY DEF IsInjective
<1>5. \A i, j \in 1..Len(s) - 1 : t[i] = t[j] => i = j
  BY <1>2, <1>3, <1>4
<1>6. Last(s) \in ToSet(s)
  BY <1>2 DEF ToSet
<1>7. ToSet(t) = ToSet(s) \ {Last(s)}
  <2>1. \A x : x \in ToSet(t) <=> \E i \in 1..Len(s) - 1 : x = t[i]
    BY <1>3 DEF ToSet
  <2>2. \A x : x \in ToSet(s) <=> \E i \in 1..Len(s) : x = s[i]
    BY DEF ToSet
  <2>3. ASSUME NEW x PROVE x \in ToSet(t) <=> x \in ToSet(s) \ {Last(s)}
    BY ONLY <1>2, <1>3, <1>4, <2>1, <2>2
  <2> QED
    BY <2>3
<1> QED
  BY <1>1, <1>2, <1>3, <1>5, <1>6, <1>7 DEF IsInjective

\* Rounds follow the heights.
LEMMA CalcInOrder ==
  ASSUME NEW h \in Nat \ {0}, NEW g \in Nat, h <= g
  PROVE  Calc(h) \in 1..Calc(g)
<1>1. D \in Nat \ {0, 1}
  BY RecoveryAssumption
<1>2. PICK j \in Int, p \in 0..D - 1 : Calc(h) = j /\ h + D - 1 = j * D + p
  BY <1>1 DEF Calc
<1>3. PICK k \in Int, q \in 0..D - 1 : Calc(g) = k /\ g + D - 1 = k * D + q
  BY <1>1 DEF Calc
<1>4. PICK x \in Int : x = j * D
  BY <1>1
<1>5. j >= 1
  <2>1. x >= 1
    BY <1>1, <1>2, <1>4
  <2>2. j <= 0 => x <= 0
    BY <1>1, <1>4
  <2> QED
    BY <2>1, <2>2
<1>6. j <= k
  <2>1. PICK y \in Int : y = (k - j) * D
    BY <1>1
  <2>2. y = k * D - x
    BY <1>1, <1>4, <2>1
  <2>3. y > -D
    BY <1>1, <1>2, <1>3, <1>4, <2>2
  <2>4. k - j <= -1 => y <= -D
    BY <1>1, <2>1
  <2> QED
    BY <2>3, <2>4, <1>1
<1> QED
  BY <1>2, <1>3, <1>5, <1>6

-----------------------------------------------------------------------------
(* The chain, the tables and the node are what they can be. *)

LEMMA RoundUnderWay ==
  ASSUME ChainInv, ProcInv
  PROVE  /\ proc.stage \in {"applying", "saved"} =>
              Calc(HeightUnderWay) \in 1..Calc(HeightOf(MaxHeight))
         /\ chain # <<>> => Calc(HeightOf(Len(chain))) \in 1..Calc(HeightOf(MaxHeight))
<1>1. /\ Len(chain) \in Nat /\ MaxHeight \in Nat /\ Len(chain) <= MaxHeight
      /\ proc.rebuilt \in -1..Len(chain)
  <2>1. Len(chain) \in Nat /\ Len(chain) <= MaxHeight
    BY DEF ChainInv
  <2>2. proc.rebuilt \in -1..Len(chain)
    BY DEF ProcInv
  <2> QED
    BY <2>1, <2>2, RecoveryAssumption
<1>2. ASSUME NEW h \in Nat \ {0}, h <= HeightOf(MaxHeight)
      PROVE  Calc(h) \in 1..Calc(HeightOf(MaxHeight))
  BY <1>1, <1>2, CalcInOrder DEF HeightOf
<1>3. ASSUME proc.stage \in {"applying", "saved"}
      PROVE  HeightUnderWay \in Nat \ {0} /\ HeightUnderWay <= HeightOf(MaxHeight)
  <2>1. CASE Rebuilding
    <3>1. proc.rebuilt < Len(chain) /\ proc.rebuilt >= 0
      BY <1>1, <1>3, <2>1 DEF ProcInv, Rebuilding
    <3> QED
      BY <1>1, <2>1, <3>1 DEF HeightUnderWay, HeightOf
  <2>2. CASE ~Rebuilding /\ proc.block \in ToSet(chain)
    BY <1>1, <2>2 DEF HeightUnderWay, HeightOf
  <2>3. CASE ~Rebuilding /\ proc.block \notin ToSet(chain)
    <3>1. Len(chain) < MaxHeight
      <4>1. chain # <<>> => Last(chain) \in ToSet(chain)
        BY CutOff DEF ChainInv
      <4> QED
        BY <1>3, <2>3, <4>1 DEF ProcInv
    <3> QED
      BY <1>1, <2>3, <3>1 DEF HeightUnderWay, HeightOf
  <2> QED
    BY <2>1, <2>2, <2>3
<1>4. chain # <<>> => HeightOf(Len(chain)) \in Nat \ {0} /\ HeightOf(Len(chain)) <= HeightOf(MaxHeight)
  BY <1>1 DEF HeightOf
<1> QED
  BY <1>2, <1>3, <1>4

\* The block that a rebuild comes to next
LEMMA NextOfRebuild ==
  ASSUME ChainInv, ProcInv, Rebuilding, proc.rebuilt < Len(chain)
  PROVE  proc.rebuilt \in Nat /\ proc.rebuilt + 1 \in 1..Len(chain) /\ chain[proc.rebuilt + 1] \in Block
<1>1. chain \in Seq(Block)
  BY DEF ChainInv
<1>2. PICK k \in Int : k = proc.rebuilt
  BY DEF ProcInv, Node
<1>3. Len(chain) \in Nat /\ \A i \in 1..Len(chain) : chain[i] \in Block
  BY ONLY <1>1, Members
<1>4. k < Len(chain) /\ k >= 0
  BY <1>2 DEF Rebuilding
<1>5. k \in Nat /\ k + 1 \in 1..Len(chain)
  BY ONLY <1>3, <1>4, k \in Int
<1>6. chain[k + 1] \in Block
  BY <1>3, <1>5
<1> QED
  BY <1>2, <1>5, <1>6

\* The block under way, and what the step that is being made of it does
LEMMA UnderWay ==
  ASSUME ChainInv, ProcInv, proc.stage \in {"verifying", "applying", "saved", "undoing", "ticked back"}
  PROVE  /\ proc.block \in Block /\ proc.merged \in Nat
         /\ proc.stage \in {"applying", "undoing"} => proc.merged <= Len(Touched[proc.block])
<1>1. chain # <<>> => Last(chain) \in Block
  BY CutOff DEF ChainInv
<1>2. proc.rebuilt < Len(chain) /\ Rebuilding => chain[proc.rebuilt + 1] \in Block
  BY NextOfRebuild
<1>3. proc.block \in Block
  <2>1. proc.stage = "verifying" => ~Rebuilding
    BY DEF ProcInv
  <2> QED
    BY <1>1, <1>2, <2>1 DEF ProcInv
<1> QED
  BY <1>3 DEF ProcInv, Node

\* The steps that count an effect i of the block under way, by n
CountingStep(i, n) ==
  \/ ApplyMerge /\ i = proc.merged + 1 /\ n = 1
  \/ RoundTick /\ i = 0 /\ n = 1
  \/ UndoMerge /\ i = proc.merged /\ n = -1
  \/ BackwardTick /\ i = 0 /\ n = -1

LEMMA CountingSteps ==
  /\ ApplyMerge => CountingStep(proc.merged + 1, 1)
  /\ RoundTick => CountingStep(0, 1)
  /\ UndoMerge => CountingStep(proc.merged, -1)
  /\ BackwardTick => CountingStep(0, -1)
BY DEF CountingStep

LEMMA StepCounts ==
  ASSUME ChainInv, ProcInv, NEW i, NEW n, CountingStep(i, n)
  PROVE  /\ proc.block \in Block /\ i \in 0..Len(Touched[proc.block])
         /\ effects' \in [Effect -> Int]
         /\ \A e \in Effect :
              effects'[e] = effects[e] + (IF e[1] = proc.block /\ e[2] = i THEN n ELSE 0)
<1>1. proc.stage \in {"applying", "saved", "undoing"}
  BY DEF CountingStep, ApplyMerge, RoundTick, UndoMerge, BackwardTick
<1>2. PICK b \in Block : b = proc.block
  BY <1>1, UnderWay
<1>3. i \in 0..Len(Touched[b])
  <2>1. PICK m \in Nat : m = proc.merged
    BY <1>1, UnderWay
  <2>2. Len(Touched[b]) \in Nat
    BY Touches
  <2>3. ApplyMerge => m < Len(Touched[b])
    BY <1>2, <2>1 DEF ApplyMerge
  <2>4. UndoMerge => m <= Len(Touched[b])
    BY <1>2, <2>1, UnderWay DEF UndoMerge
  <2> QED
    BY <2>1, <2>2, <2>3, <2>4 DEF CountingStep
<1>4. n \in Int /\ effects \in [Effect -> Int]
  BY DEF ChainInv, CountingStep
<1>5. effects[<<b, i>>] \in Int
  BY <1>3, <1>4, Effects
<1>6. Counts(effects, effects', b, i, n)
  <2>1. CASE ApplyMerge /\ i = proc.merged + 1 /\ n = 1
    BY <1>2, <2>1 DEF ApplyMerge, Counts
  <2>2. CASE RoundTick /\ i = 0 /\ n = 1
    BY <1>2, <2>2 DEF RoundTick, Counts
  <2>3. CASE UndoMerge /\ i = proc.merged /\ n = -1
    <3>1. effects' = [effects EXCEPT ![<<b, i>>] = effects[<<b, i>>] - 1]
      BY <1>2, <2>3 DEF UndoMerge
    <3>2. effects[<<b, i>>] - 1 = effects[<<b, i>>] + n
      BY <1>5, <2>3
    <3> QED
      BY <3>1, <3>2 DEF Counts
  <2>4. CASE BackwardTick /\ i = 0 /\ n = -1
    <3>1. effects' = [effects EXCEPT ![<<b, i>>] = effects[<<b, i>>] - 1]
      BY <1>2, <2>4 DEF BackwardTick
    <3>2. effects[<<b, i>>] - 1 = effects[<<b, i>>] + n
      BY <1>5, <2>4
    <3> QED
      BY <3>1, <3>2 DEF Counts
  <2> QED
    BY <2>1, <2>2, <2>3, <2>4 DEF CountingStep
<1>7. PICK g : g = effects'
  OBVIOUS
<1>8. /\ g \in [Effect -> Int]
      /\ \A e \in Effect : g[e] = effects[e] + (IF e[1] = b /\ e[2] = i THEN n ELSE 0)
  BY <1>3, <1>4, <1>6, <1>7, Counted
<1> QED
  BY <1>2, <1>3, <1>7, <1>8

LEMMA ChainKept ==
  ASSUME ChainInv, ProcInv, RecoveryNext
  PROVE  ChainInv'
<1>1. CASE \/ \E b \in Block : ProcessBlock(b)
           \/ RejectBlock \/ ApplyBlock \/ SaveLost \/ PopLastBlock \/ Start \/ LoadFails
           \/ LoadBlock \/ LoadEnd
  <2>1. UNCHANGED <<chain, effects, mark, rows, cleaning, stops>>
    BY <1>1 DEF ProcessBlock, RejectBlock, ApplyBlock, SaveLost, PopLastBlock, Start,
       LoadFails, LoadBlock, LoadEnd
  <2> QED
    BY <2>1 DEF ChainInv
<1>2. CASE SigTerm \/ Cleanup
  <2>1. UNCHANGED <<chain, effects, mark, rows, stops>> /\ cleaning' \in {"no", "asked", "ready"}
    BY <1>2 DEF SigTerm, Cleanup
  <2> QED
    BY <2>1 DEF ChainInv
<1>3. CASE ApplyMerge
  <2>1. proc.block \in Block /\ proc.merged + 1 \in 1..Len(Touched[proc.block])
    BY <1>3, UnderWay, Touches DEF ApplyMerge
  <2>2. UNCHANGED <<chain, cleaning, stops>>
    BY <1>3 DEF ApplyMerge
  <2>3. effects' \in [Effect -> Int]
    BY <1>3, CountingSteps, StepCounts
  <2>4. mark' \in [Account -> Block \cup {Genesis, Nobody}]
    BY <1>3, <2>1 DEF ApplyMerge, ChainInv
  <2>5. rows' \subseteq 1..Calc(HeightOf(MaxHeight))
    BY <1>3, RoundUnderWay DEF ApplyMerge, ChainInv
  <2> QED
    BY <2>2, <2>3, <2>4, <2>5 DEF ChainInv
<1>4. CASE SaveBlock
  <2>1. UNCHANGED <<effects, mark, rows, cleaning, stops>>
    BY <1>4 DEF SaveBlock
  <2>2. CASE Rebuilding
    BY <1>4, <2>1, <2>2 DEF SaveBlock, ChainInv
  <2>3. CASE ~Rebuilding
    <3>1. proc.block \in Block \ ToSet(chain) /\ Len(chain) < MaxHeight /\ chain' = Append(chain, proc.block)
      BY <1>4, <2>3 DEF SaveBlock, ProcInv
    <3>2. chain' \in Seq(Block) /\ IsInjective(chain') /\ Len(chain') = Len(chain) + 1
      BY <3>1, Appended DEF ChainInv
    <3> QED
      BY <2>1, <3>1, <3>2, RecoveryAssumption DEF ChainInv
  <2> QED
    BY <2>2, <2>3
<1>5. CASE RoundTick
  <2>1. proc.block \in Block
    BY <1>5, UnderWay DEF RoundTick
  <2>2. UNCHANGED <<chain, cleaning, stops>>
    BY <1>5 DEF RoundTick
  <2>3. effects' \in [Effect -> Int]
    BY <1>5, CountingSteps, StepCounts
  <2>5. rows' \subseteq rows
    BY <1>5 DEF RoundTick
  <2>4. mark' \in [Account -> Block \cup {Genesis, Nobody}]
    BY <1>5, <2>1 DEF RoundTick, ChainInv
  <2> QED
    BY <2>2, <2>3, <2>4, <2>5 DEF ChainInv
<1>6. CASE UndoMerge \/ BackwardTick
  <2>1. proc.block \in Block /\ chain # <<>>
    BY <1>6, CutOff DEF UndoMerge, BackwardTick, ProcInv, ChainInv
  <2>2. UNCHANGED <<chain, cleaning, stops>>
    BY <1>6 DEF UndoMerge, BackwardTick
  <2>3. effects' \in [Effect -> Int]
    BY <1>6, CountingSteps, StepCounts
  <2>4. mark' \in [Account -> Block \cup {Genesis, Nobody}]
    BY <1>6, <2>1 DEF UndoMerge, BackwardTick, ChainInv
  <2>5. rows' \subseteq rows \cup {Calc(HeightOf(Len(chain)))}
    BY <1>6 DEF UndoMerge, BackwardTick
  <2>6. rows' \subseteq 1..Calc(HeightOf(MaxHeight))
    BY <2>1, <2>5, RoundUnderWay DEF ChainInv
  <2> QED
    BY <2>2, <2>3, <2>4, <2>6 DEF ChainInv
<1>7. CASE DeleteBlock
  <2>1. chain # <<>> /\ chain' = Front(chain) /\ UNCHANGED <<effects, mark, rows, cleaning, stops>>
    BY <1>7 DEF DeleteBlock, ProcInv
  <2>2. chain' \in Seq(Block) /\ IsInjective(chain') /\ Len(chain') = Len(chain) - 1
    BY <2>1, CutOff DEF ChainInv
  <2> QED
    BY <2>1, <2>2, RecoveryAssumption DEF ChainInv
<1>8. CASE Stop
  <2>1. UNCHANGED <<chain, effects, mark, rows>> /\ cleaning' = "no" /\ Len(stops) < MaxStops
    BY <1>8 DEF Stop
  <2>2. PICK s \in Stages : stops' = Append(stops, s)
    BY <1>8 DEF Stop, ProcInv, Node, Stages
  <2>3. stops' \in Seq(Stages) /\ Len(stops') <= MaxStops
    BY <2>1, <2>2, RecoveryAssumption DEF ChainInv
  <2> QED
    BY <2>1, <2>3 DEF ChainInv
<1>9. CASE Reload \/ LastBlockFails
  <2>1. /\ UNCHANGED <<chain, cleaning, stops>> /\ effects' = NoEffects
        /\ mark' = [a \in Account |-> Genesis] /\ rows' = {}
    BY <1>9 DEF Reload, LastBlockFails, Rebuild, EmptyTables
  <2>2. effects' \in [Effect -> Int] /\ mark' \in [Account -> Block \cup {Genesis, Nobody}]
    BY <2>1 DEF NoEffects
  <2> QED
    BY <2>1, <2>2 DEF ChainInv
<1> QED
  BY <1>1, <1>2, <1>3, <1>4, <1>5, <1>6, <1>7, <1>8, <1>9 DEF RecoveryNext

\* A node that has rebuilt k blocks
RebuildAt(p, k) == p = [Up EXCEPT !.stage = "rebuilding", !.rebuilt = k]

LEMMA FromUp ==
  ASSUME NEW k \in Int, NEW p, RebuildAt(p, k)
  PROVE  p \in Node /\ p.stage = "rebuilding" /\ p.rebuilt = k
<1>1. p = [stage |-> "rebuilding", block |-> Genesis, merged |-> 0, rebuilt |-> k]
  BY DEF Up, RebuildAt
<1>2. p.stage = "rebuilding" /\ p.block = Genesis /\ p.merged = 0 /\ p.rebuilt = k
  BY ONLY <1>1
<1>3. p \in Node
  BY ONLY <1>1, k \in Int DEF Node, Stages
<1> QED
  BY <1>2, <1>3

LEMMA ProcKept ==
  ASSUME ChainInv, ProcInv, RecoveryNext
  PROVE  ProcInv'
<1>1. proc \in Node /\ proc.rebuilt \in -1..Len(chain) /\ Len(chain) \in Nat
  <2>1. proc \in Node /\ proc.rebuilt \in -1..Len(chain)
    BY DEF ProcInv
  <2>2. Len(chain) \in Nat
    BY DEF ChainInv
  <2> QED
    BY <2>1, <2>2
<1>2. Up \in Node /\ Up.stage = "up" /\ Up.block = Genesis /\ Up.merged = 0 /\ Up.rebuilt = -1
  BY DEF Up, Node, Stages
<1>3. ASSUME UNCHANGED chain, proc'.stage \in {"up", "unsaved", "down", "stuck"},
             proc' \in Node, proc'.rebuilt = -1, proc'.stage = "down" => stops' # <<>>
      PROVE  ProcInv'
  <2>1. proc'.rebuilt \in -1..Len(chain') /\ ~(Rebuilding')
    BY <1>1, <1>3 DEF Rebuilding
  <2> QED
    BY <1>3, <2>1 DEF ProcInv
<1>4. CASE \E b \in Block : ProcessBlock(b)
  <2>1. PICK b \in Block : ProcessBlock(b)
    BY <1>4
  <2>2. /\ UNCHANGED <<chain, stops>> /\ b \notin ToSet(chain) /\ Len(chain) < MaxHeight
        /\ proc.stage = "up" /\ proc' = [proc EXCEPT !.stage = "verifying", !.block = b]
    BY <2>1 DEF ProcessBlock
  <2>3. /\ proc' \in Node /\ proc'.stage = "verifying" /\ proc'.block = b
        /\ proc'.rebuilt = proc.rebuilt
    BY <1>1, <2>2 DEF Node, Stages
  <2>4. ~Rebuilding
    BY <2>2 DEF ProcInv
  <2> QED
    BY <1>1, <2>2, <2>3, <2>4 DEF ProcInv, Rebuilding
<1>5. CASE RejectBlock \/ Start \/ LoadEnd
  <2>1. proc' = Up /\ UNCHANGED <<chain, stops>>
    BY <1>5 DEF RejectBlock, Start, LoadLastBlock, LoadEnd
  <2> QED
    BY <1>2, <1>3, <2>1
<1>6. CASE ApplyBlock
  <2>1. /\ UNCHANGED <<chain, stops>> /\ proc.stage = "verifying"
        /\ proc' = [proc EXCEPT !.stage = "applying", !.merged = 0]
    BY <1>6 DEF ApplyBlock
  <2>2. /\ proc' \in Node /\ proc'.stage = "applying" /\ proc'.block = proc.block
        /\ proc'.rebuilt = proc.rebuilt /\ proc'.merged = 0
    BY <1>1, <2>1 DEF Node, Stages
  <2>3. ~Rebuilding /\ proc.block \in Block \ ToSet(chain) /\ Len(chain) < MaxHeight
    BY <2>1 DEF ProcInv
  <2>4. 0 <= Len(Touched[proc.block])
    BY <2>3, Touches
  <2> QED
    BY <1>1, <2>1, <2>2, <2>3, <2>4 DEF ProcInv, Rebuilding
<1>7. CASE ApplyMerge
  <2>1. /\ UNCHANGED <<chain, stops>> /\ proc.stage = "applying"
        /\ proc.merged < Len(Touched[proc.block])
        /\ proc' = [proc EXCEPT !.merged = proc.merged + 1]
    BY <1>7 DEF ApplyMerge
  <2>2. proc.merged \in Nat /\ proc.block \in Block
    BY <2>1, UnderWay
  <2>3. /\ proc' \in Node /\ proc'.stage = "applying" /\ proc'.block = proc.block
        /\ proc'.rebuilt = proc.rebuilt /\ proc'.merged = proc.merged + 1
    BY <1>1, <2>1, <2>2 DEF Node
  <2>4. proc'.merged <= Len(Touched[proc.block])
    BY <2>1, <2>2, <2>3, Touches
  <2> QED
    BY <1>1, <2>1, <2>3, <2>4 DEF ProcInv, Rebuilding
<1>8. CASE SaveBlock
  <2>1. /\ UNCHANGED stops /\ proc.stage = "applying" /\ proc.merged = Len(Touched[proc.block])
        /\ chain' = (IF Rebuilding THEN chain ELSE Append(chain, proc.block))
        /\ proc' = [proc EXCEPT !.stage = "saved"]
    BY <1>8 DEF SaveBlock
  <2>2. /\ proc' \in Node /\ proc'.stage = "saved" /\ proc'.block = proc.block
        /\ proc'.rebuilt = proc.rebuilt /\ proc'.merged = proc.merged
    BY <1>1, <2>1 DEF Node, Stages
  <2>3. CASE Rebuilding
    BY <1>1, <2>1, <2>2, <2>3 DEF ProcInv, Rebuilding
  <2>4. CASE ~Rebuilding
    <3>1. proc.block \in Block \ ToSet(chain)
      BY <2>1, <2>4 DEF ProcInv
    <3>2. chain' \in Seq(Block) /\ Last(chain') = proc.block /\ Len(chain') = Len(chain) + 1
      BY <2>1, <2>4, <3>1, Appended DEF ChainInv
    <3>3. chain' # <<>> /\ proc'.rebuilt \in -1..Len(chain')
      BY <1>1, <2>2, <3>2
    <3>4. ~(Rebuilding')
      BY <2>2, <2>4 DEF Rebuilding
    <3> QED
      BY <2>1, <2>2, <3>2, <3>3, <3>4 DEF ProcInv
  <2> QED
    BY <2>3, <2>4
<1>9. CASE SaveLost
  <2>1. /\ UNCHANGED <<chain, stops>> /\ proc.stage = "applying" /\ ~Rebuilding
        /\ proc.merged = Len(Touched[proc.block])
        /\ proc' = [proc EXCEPT !.stage = "saved"]
    BY <1>9 DEF SaveLost
  <2>2. /\ proc' \in Node /\ proc'.stage = "saved" /\ proc'.block = proc.block
        /\ proc'.rebuilt = proc.rebuilt /\ proc'.merged = proc.merged
    BY <1>1, <2>1 DEF Node, Stages
  <2> QED
    BY <1>1, <2>1, <2>2 DEF ProcInv, Rebuilding
<1>10. CASE RoundTick
  <2>1. /\ UNCHANGED <<chain, stops>> /\ proc.stage = "saved" /\ proc' = TickedTo(proc.rebuilt + 1)
    BY <1>10 DEF RoundTick
  <2>2. CASE Rebuilding
    <3>1. proc' = [Up EXCEPT !.stage = "rebuilding", !.rebuilt = proc.rebuilt + 1]
      BY <2>1, <2>2 DEF TickedTo
    <3>2. proc.rebuilt \in Int
      BY <1>1 DEF Node
    <3>3. proc' \in Node /\ proc'.stage = "rebuilding" /\ proc'.rebuilt = proc.rebuilt + 1
      <4>1. RebuildAt(proc', proc.rebuilt + 1) /\ proc.rebuilt + 1 \in Int
        BY <3>1, <3>2 DEF RebuildAt
      <4> QED
        BY ONLY <4>1, FromUp
    <3>4. proc.rebuilt < Len(chain) /\ proc.rebuilt >= 0 /\ stops # <<>>
      BY <2>1, <2>2 DEF ProcInv, Rebuilding
    <3>5. proc'.rebuilt \in -1..Len(chain) /\ Rebuilding'
      BY <1>1, <3>2, <3>3, <3>4 DEF Rebuilding
    <3> QED
      BY <2>1, <3>3, <3>4, <3>5 DEF ProcInv
  <2>3. CASE ~Rebuilding
    <3>1. \/ proc' = Up
          \/ proc' = [Up EXCEPT !.stage = "unsaved"]
      BY <2>1, <2>3 DEF TickedTo
    <3>2. proc' \in Node /\ proc'.stage \in {"up", "unsaved"} /\ proc'.rebuilt = -1
      BY <1>2, <3>1 DEF Node, Stages
    <3> QED
      BY <1>3, <2>1, <3>2
  <2> QED
    BY <2>2, <2>3
<1>11. CASE PopLastBlock
  <2>1. /\ UNCHANGED <<chain, stops>> /\ proc.stage = "up" /\ chain # <<>>
        /\ proc' = [proc EXCEPT !.stage = "undoing", !.block = Last(chain),
                                !.merged = Len(Touched[Last(chain)])]
    BY <1>11 DEF PopLastBlock
  <2>2. Last(chain) \in Block
    BY <2>1, CutOff DEF ChainInv
  <2>3. Len(Touched[Last(chain)]) \in Nat
    BY <2>2, Touches
  <2>4. /\ proc' \in Node /\ proc'.stage = "undoing" /\ proc'.block = Last(chain)
        /\ proc'.rebuilt = proc.rebuilt /\ proc'.merged = Len(Touched[Last(chain)])
    BY <1>1, <2>1, <2>2, <2>3 DEF Node, Stages
  <2>5. ~Rebuilding
    BY <2>1 DEF ProcInv
  <2> QED
    BY <1>1, <2>1, <2>3, <2>4, <2>5 DEF ProcInv, Rebuilding
<1>12. CASE UndoMerge
  <2>1. /\ UNCHANGED <<chain, stops>> /\ proc.stage = "undoing" /\ proc.merged > 0
        /\ proc' = [proc EXCEPT !.merged = proc.merged - 1]
    BY <1>12 DEF UndoMerge
  <2>2. proc.merged \in Nat /\ proc.block \in Block /\ proc.merged <= Len(Touched[proc.block])
    BY <2>1, UnderWay
  <2>3. /\ proc' \in Node /\ proc'.stage = "undoing" /\ proc'.block = proc.block
        /\ proc'.rebuilt = proc.rebuilt /\ proc'.merged = proc.merged - 1
    BY <1>1, <2>1, <2>2 DEF Node
  <2>4. proc'.merged <= Len(Touched[proc.block])
    BY <2>1, <2>2, <2>3, Touches
  <2> QED
    BY <1>1, <2>1, <2>3, <2>4 DEF ProcInv, Rebuilding
<1>13. CASE BackwardTick
  <2>1. /\ UNCHANGED <<chain, stops>> /\ proc.stage = "undoing"
        /\ proc' = [proc EXCEPT !.stage = "ticked back"]
    BY <1>13 DEF BackwardTick
  <2>2. /\ proc' \in Node /\ proc'.stage = "ticked back" /\ proc'.block = proc.block
        /\ proc'.rebuilt = proc.rebuilt
    BY <1>1, <2>1 DEF Node, Stages
  <2> QED
    BY <1>1, <2>1, <2>2 DEF ProcInv, Rebuilding
<1>14. CASE DeleteBlock
  <2>1. proc' = Up /\ UNCHANGED stops /\ chain' = Front(chain) /\ chain # <<>>
    BY <1>14 DEF DeleteBlock, ProcInv
  <2>2. Len(chain') = Len(chain) - 1 /\ Len(chain) # 0
    BY <2>1, CutOff DEF ChainInv
  <2>3. Len(chain') \in Nat
    BY <1>1, <2>2
  <2>4. proc'.rebuilt \in -1..Len(chain') /\ ~(Rebuilding')
    BY <1>2, <2>1, <2>3 DEF Rebuilding
  <2> QED
    BY <1>2, <2>1, <2>4 DEF ProcInv
<1>15. CASE Stop
  <2>1. /\ proc' = [Up EXCEPT !.stage = "down"] /\ UNCHANGED chain
        /\ stops' = Append(stops, IF Rebuilding THEN "rebuilding" ELSE proc.stage)
    BY <1>15 DEF Stop
  <2>2. proc' \in Node /\ proc'.stage = "down" /\ proc'.rebuilt = -1
    BY <1>2, <2>1 DEF Node, Stages
  <2>3. stops' # <<>>
    BY <2>1 DEF ChainInv
  <2> QED
    BY <1>3, <2>1, <2>2, <2>3
<1>16. CASE SigTerm \/ Cleanup
  <2>1. UNCHANGED <<chain, proc, stops>>
    BY <1>16 DEF SigTerm, Cleanup
  <2> QED
    BY <2>1 DEF ProcInv, Rebuilding
<1>17. CASE Reload \/ LastBlockFails
  <2>1. /\ UNCHANGED <<chain, stops>> /\ proc.stage = "down"
        /\ proc' = [Up EXCEPT !.stage = "rebuilding", !.rebuilt = 0]
    BY <1>17 DEF Reload, LastBlockFails, Rebuild
  <2>2. proc' \in Node /\ proc'.stage = "rebuilding" /\ proc'.rebuilt = 0
    <3>1. RebuildAt(proc', 0)
      BY <2>1 DEF RebuildAt
    <3> QED
      BY ONLY <3>1, FromUp
  <2>3. stops # <<>>
    BY <2>1 DEF ProcInv
  <2>4. proc'.rebuilt \in -1..Len(chain') /\ Rebuilding'
    BY <1>1, <2>1, <2>2 DEF Rebuilding
  <2> QED
    BY <2>1, <2>2, <2>3, <2>4 DEF ProcInv
<1>18. CASE LoadFails
  <2>1. UNCHANGED <<chain, stops>>
    BY <1>18 DEF LoadFails
  <2>2. CASE proc' = [Up EXCEPT !.stage = "stuck"]
    <3>1. proc' \in Node /\ proc'.stage = "stuck" /\ proc'.rebuilt = -1
      BY <1>2, <2>2 DEF Node, Stages
    <3> QED
      BY <1>3, <2>1, <3>1
  <2>3. CASE Rebuilding /\ proc' = [proc EXCEPT !.stage = "stuck"]
    <3>1. proc' \in Node /\ proc'.stage = "stuck" /\ proc'.rebuilt = proc.rebuilt
      BY <1>1, <2>3 DEF Node, Stages
    <3> QED
      BY <1>1, <2>1, <2>3, <3>1 DEF ProcInv, Rebuilding
  <2> QED
    BY <1>18, <2>2, <2>3 DEF LoadFails
<1>19. CASE LoadBlock
  <2>1. /\ UNCHANGED <<chain, stops>> /\ proc.stage = "rebuilding" /\ proc.rebuilt < Len(chain)
        /\ proc' = [proc EXCEPT !.stage = "applying", !.block = chain[proc.rebuilt + 1], !.merged = 0]
    BY <1>19 DEF LoadBlock
  <2>2. Rebuilding /\ proc.rebuilt >= 0 /\ stops # <<>>
    BY <2>1 DEF ProcInv, Rebuilding
  <2>3. PICK b \in Block : b = chain[proc.rebuilt + 1]
    BY <2>1, <2>2, NextOfRebuild
  <2>4. /\ proc' \in Node /\ proc'.stage = "applying" /\ proc'.block = b
        /\ proc'.rebuilt = proc.rebuilt /\ proc'.merged = 0
    BY <1>1, <2>1, <2>3 DEF Node, Stages
  <2>5. 0 <= Len(Touched[b])
    BY Touches
  <2> QED
    BY <1>1, <2>1, <2>2, <2>3, <2>4, <2>5 DEF ProcInv, Rebuilding
<1> QED
  BY <1>4, <1>5, <1>6, <1>7, <1>8, <1>9, <1>10, <1>11, <1>12, <1>13, <1>14, <1>15, <1>16,
     <1>17, <1>18, <1>19 DEF RecoveryNext

-----------------------------------------------------------------------------
(* How far the tables are from what they should hold: no step but a stop,  *)
(* an error and a save that was lost changes it.                           *)

LEMMA InTablesIs ==
  ASSUME ProcInv
  PROVE  /\ ~Rebuilding \/ proc.stage \notin {"rebuilding", "applying", "saved"} => InTables = ToSet(chain)
         /\ Rebuilding /\ proc.stage # "stuck" => InTables = {chain[i] : i \in 1..proc.rebuilt}
BY DEF InTables, ProcInv

LEMMA NothingCounted ==
  ASSUME NEW e, UNCHANGED effects, Holds(e)' <=> Holds(e)
  PROVE  Drift(e)' = Drift(e)
BY DEF Drift, Wanted

LEMMA OneCounted ==
  ASSUME NEW e, NEW n \in {1, -1}, NEW here \in BOOLEAN, effects[e] \in Int,
         effects'[e] = effects[e] + (IF here THEN n ELSE 0),
         ~here => (Holds(e)' <=> Holds(e)),
         here => (Holds(e)' <=> n = 1) /\ (Holds(e) <=> n = -1)
  PROVE  Drift(e)' = Drift(e)
<1>1. PICK was \in BOOLEAN, is \in BOOLEAN : was = Holds(e) /\ is = Holds(e)'
  BY DEF Holds
<1>2. Drift(e) = effects[e] - (IF was THEN 1 ELSE 0) /\ Drift(e)' = effects'[e] - (IF is THEN 1 ELSE 0)
  BY <1>1 DEF Drift, Wanted
<1>3. (~here => (is <=> was)) /\ (here => (is <=> n = 1) /\ (was <=> n = -1))
  BY <1>1
<1> QED
  BY ONLY <1>2, <1>3, effects[e] \in Int, n \in {1, -1}, here \in BOOLEAN, was \in BOOLEAN,
          is \in BOOLEAN, effects'[e] = effects[e] + (IF here THEN n ELSE 0)

\* The steps that leave the tables as far from what they should hold as they were
Steady ==
  \/ \E b \in Block : ProcessBlock(b)
  \/ RejectBlock \/ ApplyBlock \/ ApplyMerge \/ SaveBlock \/ SaveLost
  \/ RoundTick /\ proc'.stage # "unsaved"
  \/ PopLastBlock \/ UndoMerge \/ BackwardTick \/ DeleteBlock \/ Start \/ LoadBlock \/ LoadEnd
  \/ SigTerm \/ Cleanup

LEMMA Steadied ==
  ASSUME ChainInv, ProcInv, ProcInv', Steady, NEW e \in Effect
  PROVE  Drift(e)' = Drift(e)
<1>1. proc \in Node
  BY DEF ProcInv
<1>2. PICK c, i : c \in Block /\ e[1] = c /\ e[2] = i /\ i \in 0..Len(Touched[c])
  BY Effects
<1>3. i \in Nat /\ i <= Len(Touched[c]) /\ Len(Touched[c]) \in Nat
  BY <1>2, Touches
<1>4. CASE \E b \in Block : ProcessBlock(b)
  <2>1. PICK b \in Block : ProcessBlock(b)
    BY <1>4
  <2>2. /\ UNCHANGED <<chain, effects>> /\ proc.stage = "up" /\ proc'.stage = "verifying"
    BY <1>1, <2>1 DEF ProcessBlock, Node
  <2>3. InTables = ToSet(chain) /\ InTables' = ToSet(chain)
    <3>1. ~Rebuilding /\ ~(Rebuilding')
      BY <2>2 DEF ProcInv
    <3> QED
      BY <2>2, <3>1 DEF InTables
  <2>4. Holds(e)' <=> Holds(e)
    BY <2>2, <2>3 DEF Holds
  <2> QED
    BY <2>2, <2>4, NothingCounted
<1>5. CASE RejectBlock \/ Start
  <2>1. UNCHANGED <<chain, effects>> /\ proc.stage \in {"verifying", "down"} /\ proc'.stage = "up"
    BY <1>5 DEF RejectBlock, Start, LoadLastBlock, Up
  <2>2. InTables = ToSet(chain) /\ InTables' = ToSet(chain)
    <3>1. ~Rebuilding /\ ~(Rebuilding')
      BY <2>1 DEF ProcInv
    <3> QED
      BY <2>1, <3>1 DEF InTables
  <2>3. Holds(e)' <=> Holds(e)
    BY <2>1, <2>2 DEF Holds
  <2> QED
    BY <2>1, <2>3, NothingCounted
<1>6. CASE ApplyBlock
  <2>1. /\ UNCHANGED <<chain, effects>> /\ proc.stage = "verifying" /\ proc'.stage = "applying"
        /\ proc'.block = proc.block /\ proc'.merged = 0 /\ proc'.rebuilt = proc.rebuilt
    BY <1>1, <1>6 DEF ApplyBlock, Node
  <2>2. InTables = ToSet(chain) /\ InTables' = ToSet(chain) /\ proc.block \notin ToSet(chain)
    <3>1. ~Rebuilding
      BY <2>1 DEF ProcInv
    <3>2. ~(Rebuilding')
      BY <2>1, <3>1 DEF Rebuilding
    <3> QED
      BY <2>1, <3>1, <3>2 DEF InTables, ProcInv
  <2>3. Holds(e)' <=> Holds(e)
    BY <2>1, <2>2 DEF Holds
  <2> QED
    BY <2>1, <2>3, NothingCounted
<1>7. CASE ApplyMerge
  <2>1. /\ proc.stage = "applying" /\ proc'.stage = "applying" /\ UNCHANGED chain
        /\ proc'.block = proc.block /\ proc'.merged = proc.merged + 1 /\ proc'.rebuilt = proc.rebuilt
    BY <1>1, <1>7 DEF ApplyMerge, Node
  <2>2. PICK here \in BOOLEAN : here <=> c = proc.block /\ i = proc.merged + 1
    OBVIOUS
  <2>3. effects'[e] = effects[e] + (IF here THEN 1 ELSE 0) /\ effects[e] \in Int
    <3>1. PICK k : k = proc.merged + 1
      OBVIOUS
    <3>2. \A x \in Effect :
            effects'[x] = effects[x] + (IF x[1] = proc.block /\ x[2] = k THEN 1 ELSE 0)
      BY <1>7, <3>1, CountingSteps, StepCounts
    <3>3. effects[e] \in Int
      BY DEF ChainInv
    <3> QED
      BY <1>2, <2>2, <3>1, <3>2, <3>3
  <2>4. InTables' = InTables
    BY <2>1 DEF InTables, Rebuilding
  <2>5. proc.merged \in Nat
    BY <1>1 DEF Node
  <2>6. /\ c = proc.block => (Holds(e) <=> i \in 1..proc.merged)
        /\ c = proc.block => (Holds(e)' <=> i \in 1..proc.merged + 1)
        /\ c # proc.block => (Holds(e)' <=> Holds(e))
    BY <1>2, <2>1, <2>4 DEF Holds
  <2>7. (~here => (Holds(e)' <=> Holds(e))) /\ (here => Holds(e)' /\ ~Holds(e))
    BY ONLY <1>3, <2>2, <2>5, <2>6
  <2> QED
    BY <2>3, <2>7, OneCounted
<1>8. CASE SaveBlock \/ SaveLost
  <2>1. /\ UNCHANGED effects /\ proc.stage = "applying" /\ proc'.stage = "saved"
        /\ proc'.block = proc.block /\ proc'.merged = proc.merged /\ proc'.rebuilt = proc.rebuilt
    BY <1>1, <1>8 DEF SaveBlock, SaveLost, Node
  <2>2. c # proc.block => (c \in InTables' <=> c \in InTables)
    <3>1. CASE chain' = chain
      BY <2>1, <3>1 DEF InTables, Rebuilding
    <3>2. CASE ~Rebuilding /\ chain' = Append(chain, proc.block)
      <4>1. proc.block \in Block \ ToSet(chain)
        BY <2>1, <3>2 DEF ProcInv
      <4>2. ToSet(chain') = ToSet(chain) \cup {proc.block}
        BY <3>2, <4>1, Appended DEF ChainInv
      <4>3. ~(Rebuilding')
        BY <2>1, <3>2 DEF Rebuilding
      <4> QED
        BY <3>2, <4>2, <4>3 DEF InTables
    <3> QED
      BY <1>8, <3>1, <3>2 DEF SaveBlock, SaveLost
  <2>3. Holds(e)' <=> Holds(e)
    BY <1>2, <2>1, <2>2 DEF Holds
  <2> QED
    BY <2>1, <2>3, NothingCounted
<1>9. CASE RoundTick /\ proc'.stage # "unsaved"
  <2>1. proc.stage = "saved" /\ UNCHANGED chain /\ proc' = TickedTo(proc.rebuilt + 1)
    BY <1>9 DEF RoundTick
  <2>2. PICK here \in BOOLEAN : here <=> c = proc.block /\ i = 0
    OBVIOUS
  <2>3. effects'[e] = effects[e] + (IF here THEN 1 ELSE 0) /\ effects[e] \in Int
    <3>1. \A x \in Effect :
            effects'[x] = effects[x] + (IF x[1] = proc.block /\ x[2] = 0 THEN 1 ELSE 0)
      BY <1>9, CountingSteps, StepCounts
    <3>2. effects[e] \in Int
      BY DEF ChainInv
    <3> QED
      BY <1>2, <2>2, <3>1, <3>2
  <2>4. proc'.stage \in {"up", "rebuilding"} /\ \A b : b \in InTables' <=> b \in InTables \/ b = proc.block
    <3>1. CASE Rebuilding
      <4>1. /\ proc'.stage = "rebuilding" /\ proc'.rebuilt = proc.rebuilt + 1
            /\ proc.rebuilt \in Nat /\ proc.block = chain[proc.rebuilt + 1]
        <5>1. proc' = [Up EXCEPT !.stage = "rebuilding", !.rebuilt = proc.rebuilt + 1]
          BY <2>1, <3>1 DEF TickedTo
        <5>2. proc.rebuilt \in Nat
          BY <1>1, <3>1 DEF Node, Rebuilding
        <5>3. proc.block = chain[proc.rebuilt + 1]
          BY <2>1, <3>1 DEF ProcInv
        <5> QED
          BY <5>1, <5>2, <5>3 DEF Up
      <4>2. InTables = {chain[j] : j \in 1..proc.rebuilt} /\ InTables' = {chain[j] : j \in 1..proc.rebuilt + 1}
        BY <2>1, <3>1, <4>1 DEF InTables, Rebuilding
      <4>3. 1..proc.rebuilt + 1 = (1..proc.rebuilt) \cup {proc.rebuilt + 1}
        BY <4>1
      <4> QED
        BY <4>1, <4>2, <4>3
    <3>2. CASE ~Rebuilding
      <4>1. proc.block \in ToSet(chain) /\ proc' = Up
        BY <1>9, <2>1, <3>2 DEF TickedTo, Up
      <4>2. proc'.stage = "up" /\ ~(Rebuilding')
        BY <4>1 DEF Up, Rebuilding
      <4>3. InTables = ToSet(chain) /\ InTables' = ToSet(chain)
        BY <2>1, <3>2, <4>2 DEF InTables
      <4> QED
        BY <4>1, <4>2, <4>3
    <3> QED
      BY <3>1, <3>2
  <2>5. proc.merged = Len(Touched[proc.block])
    BY <2>1 DEF ProcInv
  <2>6. /\ c = proc.block => (Holds(e) <=> i \in 1..Len(Touched[c])) /\ Holds(e)'
        /\ c # proc.block => (Holds(e)' <=> Holds(e))
    BY <1>2, <2>1, <2>4, <2>5 DEF Holds
  <2>7. (~here => (Holds(e)' <=> Holds(e))) /\ (here => Holds(e)' /\ ~Holds(e))
    BY ONLY <1>3, <2>2, <2>6
  <2> QED
    BY <2>3, <2>7, OneCounted
<1>10. CASE PopLastBlock
  <2>1. /\ UNCHANGED <<chain, effects>> /\ proc.stage = "up" /\ chain # <<>> /\ proc'.stage = "undoing"
        /\ proc'.block = Last(chain) /\ proc'.merged = Len(Touched[Last(chain)])
    BY <1>1, <1>10 DEF PopLastBlock, Node
  <2>2. InTables = ToSet(chain) /\ InTables' = ToSet(chain)
    <3>1. ~Rebuilding /\ ~(Rebuilding')
      BY <2>1 DEF ProcInv
    <3> QED
      BY <2>1, <3>1 DEF InTables
  <2>3. Last(chain) \in ToSet(chain)
    BY <2>1, CutOff DEF ChainInv
  <2>4. Holds(e) <=> c \in ToSet(chain)
    BY <1>2, <2>1, <2>2 DEF Holds
  <2>5. Holds(e)' <=> c \in ToSet(chain)
    BY <1>2, <2>1, <2>2, <2>3 DEF Holds
  <2> QED
    BY <2>1, <2>4, <2>5, NothingCounted
<1>11. CASE UndoMerge
  <2>1. /\ proc.stage = "undoing" /\ proc'.stage = "undoing" /\ UNCHANGED chain /\ proc.merged > 0
        /\ proc'.block = proc.block /\ proc'.merged = proc.merged - 1 /\ proc'.rebuilt = proc.rebuilt
    BY <1>1, <1>11 DEF UndoMerge, Node
  <2>2. PICK here \in BOOLEAN : here <=> c = proc.block /\ i = proc.merged
    OBVIOUS
  <2>3. effects'[e] = effects[e] + (IF here THEN -1 ELSE 0) /\ effects[e] \in Int
    BY <1>2, <1>11, <2>2, CountingSteps, StepCounts DEF ChainInv
  <2>4. InTables' = InTables
    BY <2>1 DEF InTables, Rebuilding
  <2>5. proc.merged \in Nat /\ proc.merged > 0
    BY <1>1, <2>1 DEF Node
  <2>6. /\ c = proc.block => (Holds(e) <=> i \in 0..proc.merged)
        /\ c = proc.block => (Holds(e)' <=> i \in 0..proc.merged - 1)
        /\ c # proc.block => (Holds(e)' <=> Holds(e))
    BY <1>2, <2>1, <2>4 DEF Holds
  <2>7. (~here => (Holds(e)' <=> Holds(e))) /\ (here => ~(Holds(e)') /\ Holds(e))
    BY ONLY <1>3, <2>2, <2>5, <2>6
  <2> QED
    BY <2>3, <2>7, OneCounted
<1>12. CASE BackwardTick
  <2>1. /\ proc.stage = "undoing" /\ proc'.stage = "ticked back" /\ UNCHANGED chain
        /\ proc.merged = 0 /\ proc'.block = proc.block /\ proc'.rebuilt = proc.rebuilt
    BY <1>1, <1>12 DEF BackwardTick, Node
  <2>2. PICK here \in BOOLEAN : here <=> c = proc.block /\ i = 0
    OBVIOUS
  <2>3. effects'[e] = effects[e] + (IF here THEN -1 ELSE 0) /\ effects[e] \in Int
    BY <1>2, <1>12, <2>2, CountingSteps, StepCounts DEF ChainInv
  <2>4. InTables' = InTables
    BY <2>1 DEF InTables, Rebuilding
  <2>6. /\ c = proc.block => (Holds(e) <=> i \in 0..0) /\ ~(Holds(e)')
        /\ c # proc.block => (Holds(e)' <=> Holds(e))
    BY <1>2, <2>1, <2>4 DEF Holds
  <2>7. (~here => (Holds(e)' <=> Holds(e))) /\ (here => ~(Holds(e)') /\ Holds(e))
    BY ONLY <1>3, <2>2, <2>6
  <2> QED
    BY <2>3, <2>7, OneCounted
<1>13. CASE DeleteBlock
  <2>1. /\ UNCHANGED effects /\ proc.stage = "ticked back" /\ proc'.stage = "up"
        /\ chain' = Front(chain) /\ chain # <<>> /\ proc.block = Last(chain)
    BY <1>13 DEF DeleteBlock, Up, ProcInv
  <2>2. InTables = ToSet(chain) /\ InTables' = ToSet(chain')
    <3>1. ~Rebuilding /\ ~(Rebuilding')
      BY <2>1 DEF ProcInv
    <3> QED
      BY <2>1, <3>1 DEF InTables
  <2>3. ToSet(chain') = ToSet(chain) \ {Last(chain)}
    BY <2>1, CutOff DEF ChainInv
  <2>4. Holds(e)' <=> Holds(e)
    BY <1>2, <2>1, <2>2, <2>3 DEF Holds
  <2> QED
    BY <2>1, <2>4, NothingCounted
<1>14. CASE LoadBlock
  <2>1. /\ UNCHANGED <<chain, effects>> /\ proc.stage = "rebuilding" /\ proc.rebuilt < Len(chain)
        /\ proc'.stage = "applying" /\ proc'.block = chain[proc.rebuilt + 1] /\ proc'.merged = 0
        /\ proc'.rebuilt = proc.rebuilt
    BY <1>1, <1>14 DEF LoadBlock, Node
  <2>2. Rebuilding
    BY <2>1 DEF ProcInv
  <2>3. InTables' = InTables /\ InTables = {chain[j] : j \in 1..proc.rebuilt}
    BY <2>1, <2>2 DEF InTables, Rebuilding
  <2>4. proc.rebuilt \in Nat /\ proc.rebuilt + 1 \in 1..Len(chain)
    BY <2>1, <2>2, NextOfRebuild
  <2>5. \A j \in 1..proc.rebuilt : chain[j] # chain[proc.rebuilt + 1]
    <3>1. \A j, k \in 1..Len(chain) : chain[j] = chain[k] => j = k
      BY DEF ChainInv, IsInjective
    <3>2. Len(chain) \in Nat
      BY DEF ChainInv
    <3> QED
      BY ONLY <2>4, <3>1, <3>2
  <2>6. proc'.block \notin InTables
    BY <2>1, <2>3, <2>5
  <2>7. Holds(e)' <=> Holds(e)
    BY <1>2, <2>1, <2>3, <2>6 DEF Holds
  <2> QED
    BY <2>1, <2>7, NothingCounted
<1>15. CASE LoadEnd
  <2>1. /\ UNCHANGED <<chain, effects>> /\ proc.stage = "rebuilding" /\ proc.rebuilt = Len(chain)
        /\ proc'.stage = "up"
    BY <1>15 DEF LoadEnd, Up
  <2>2. Rebuilding /\ ~(Rebuilding')
    BY <2>1 DEF ProcInv
  <2>3. InTables = {chain[j] : j \in 1..Len(chain)} /\ InTables' = ToSet(chain)
    BY <2>1, <2>2 DEF InTables
  <2>4. InTables' = InTables
    <3>1. chain \in Seq(Block)
      BY DEF ChainInv
    <3> QED
      BY <2>3, <3>1 DEF ToSet
  <2>5. Holds(e)' <=> Holds(e)
    BY <2>1, <2>4 DEF Holds
  <2> QED
    BY <2>1, <2>5, NothingCounted
<1>16. CASE SigTerm \/ Cleanup
  <2>1. UNCHANGED <<chain, effects, proc>>
    BY <1>16 DEF SigTerm, Cleanup
  <2> QED
    BY <2>1 DEF Drift, Wanted, Holds, InTables, Rebuilding
<1> QED
  BY <1>4, <1>5, <1>6, <1>7, <1>8, <1>9, <1>10, <1>11, <1>12, <1>13, <1>14, <1>15, <1>16 DEF Steady

-----------------------------------------------------------------------------
(* No effect gets further from where it should be than by one for a stop.  *)

\* Nothing is under way: the tables should hold the chain.
Idle == proc.stage \notin {"applying", "saved", "undoing", "ticked back", "rebuilding"}

LEMMA IdleWants ==
  ASSUME ProcInv, Idle, NEW e \in Effect
  PROVE  Wanted(e) = Replay[e] /\ Drift(e) = effects[e] - Replay[e]
<1>1. InTables = ToSet(chain)
  BY InTablesIs DEF Idle
<1>2. Holds(e) <=> e[1] \in ToSet(chain)
  BY <1>1 DEF Holds, Idle
<1> QED
  BY <1>2 DEF Wanted, Drift, Replay

LEMMA IdleWantsNext ==
  ASSUME ProcInv', Idle', NEW e \in Effect
  PROVE  Wanted(e)' = Replay'[e]
<1>1. InTables' = ToSet(chain')
  BY DEF InTables, ProcInv, Idle
<1>2. Holds(e)' <=> e[1] \in ToSet(chain')
  BY <1>1 DEF Holds, Idle
<1> QED
  BY <1>2 DEF Wanted, Replay

LEMMA Bits ==
  ASSUME NEW e \in Effect
  PROVE  Wanted(e) \in {0, 1} /\ Replay[e] \in {0, 1}
BY DEF Wanted, Replay

LEMMA Split ==
  ASSUME RecoveryNext
  PROVE  \/ Steady
         \/ RoundTick /\ proc'.stage = "unsaved"
         \/ Stop
         \/ Reload \/ LastBlockFails
         \/ LoadFails
BY DEF RecoveryNext, Steady

\* A stop leaves the tables as they are, and all of the chain is wanted.
LEMMA Stopped ==
  ASSUME Stop
  PROVE  /\ UNCHANGED <<chain, effects, mark, rows>> /\ proc'.stage = "down" /\ proc'.rebuilt = -1
         /\ ~(Rebuilding') /\ Idle'
BY DEF Stop, Up, Rebuilding, Idle

\* What a rebuild starts from is what it wants.
LEMMA Emptied ==
  ASSUME Reload \/ LastBlockFails
  PROVE  /\ UNCHANGED <<chain, stops>> /\ proc'.stage = "rebuilding" /\ Rebuilding' /\ Faithful'
         /\ \A e \in Effect : effects'[e] = 0
         /\ \A a \in Account : mark'[a] = Genesis
<1>1. /\ UNCHANGED <<chain, stops>> /\ effects' = NoEffects /\ mark' = [a \in Account |-> Genesis]
      /\ proc' = [Up EXCEPT !.stage = "rebuilding", !.rebuilt = 0]
  BY DEF Reload, LastBlockFails, Rebuild, EmptyTables
<1>2. proc'.stage = "rebuilding" /\ proc'.rebuilt = 0 /\ Rebuilding'
  BY <1>1 DEF Up, Rebuilding
<1>3. InTables' = {}
  <2>1. InTables' = {chain'[i] : i \in 1..0}
    BY <1>2 DEF InTables
  <2> QED
    BY <2>1
<1>4. \A e \in Effect : effects'[e] = 0
  BY <1>1 DEF NoEffects
<1>5. Faithful'
  <2> SUFFICES ASSUME NEW e \in Effect PROVE Drift(e)' = 0
    BY DEF Faithful
  <2>1. ~(Holds(e)')
    BY <1>2, <1>3 DEF Holds
  <2> QED
    BY <1>4, <2>1 DEF Drift, Wanted
<1> QED
  BY <1>1, <1>2, <1>4, <1>5

\* An error of the start, or of a rebuild that holds what it wants
LEMMA Failed ==
  ASSUME ProcInv, LoadFails
  PROVE  /\ UNCHANGED <<chain, effects, mark, rows, stops>> /\ proc'.stage = "stuck" /\ Idle'
         /\ \/ proc.stage = "down" /\ Idle
            \/ proc.stage = "rebuilding" /\ proc.rebuilt < Len(chain) /\ Rebuilding /\ stops # <<>>
            \/ proc.stage = "saved" /\ Rebuilding /\ Rebuilding' /\ stops # <<>>
<1>1. proc \in Node
  BY DEF ProcInv
<1>2. UNCHANGED <<chain, effects, mark, rows, stops>>
  BY DEF LoadFails
<1>3. CASE proc.stage = "down" /\ proc' = [Up EXCEPT !.stage = "stuck"]
  BY <1>2, <1>3 DEF Up, Idle
<1>4. CASE proc.stage = "rebuilding" /\ proc.rebuilt < Len(chain) /\ proc' = [Up EXCEPT !.stage = "stuck"]
  <2>1. Rebuilding /\ stops # <<>>
    BY <1>4 DEF ProcInv
  <2> QED
    BY <1>2, <1>4, <2>1 DEF Up, Idle
<1>5. CASE proc.stage = "saved" /\ Rebuilding /\ proc' = [proc EXCEPT !.stage = "stuck"]
  <2>1. proc'.stage = "stuck" /\ proc'.rebuilt = proc.rebuilt
    BY <1>1, <1>5 DEF Node
  <2>2. stops # <<>>
    BY <1>5 DEF ProcInv
  <2> QED
    BY <1>2, <1>5, <2>1, <2>2 DEF Idle, Rebuilding
<1> QED
  BY <1>3, <1>4, <1>5 DEF LoadFails

LEMMA SteadyStages ==
  ASSUME ProcInv, Steady
  PROVE  /\ UNCHANGED stops
         /\ \/ UNCHANGED <<chain, effects, mark, rows, proc>>
            \/ Start /\ proc.stage = "down" /\ proc'.stage = "up"
            \/ /\ proc.stage \notin {"down", "stuck", "unsaved"}
               /\ proc'.stage \notin {"down", "stuck", "unsaved"}
         /\ Rebuilding' => Rebuilding
<1>1. proc \in Node
  BY DEF ProcInv
<1>2. ~(Up.rebuilt >= 0) /\ Up.stage = "up"
  BY DEF Up
<1>3. CASE SigTerm \/ Cleanup
  BY <1>3 DEF SigTerm, Cleanup, Rebuilding
<1>4. CASE RejectBlock \/ DeleteBlock \/ Start \/ LoadEnd
  BY <1>2, <1>4 DEF RejectBlock, DeleteBlock, Start, LoadLastBlock, LoadEnd, Rebuilding
<1>5. CASE RoundTick /\ proc'.stage # "unsaved"
  <2>1. UNCHANGED stops /\ proc.stage = "saved" /\ proc' = TickedTo(proc.rebuilt + 1)
    BY <1>5 DEF RoundTick
  <2>2. CASE Rebuilding
    BY <2>1, <2>2 DEF TickedTo, Up
  <2>3. CASE ~Rebuilding
    <3>1. proc' = Up
      BY <1>5, <2>1, <2>3 DEF TickedTo, Up
    <3> QED
      BY <1>2, <2>1, <3>1 DEF Rebuilding
  <2> QED
    BY <2>2, <2>3
<1>6. CASE \/ \E b \in Block : ProcessBlock(b)
           \/ ApplyBlock \/ ApplyMerge \/ SaveBlock \/ SaveLost \/ PopLastBlock \/ UndoMerge
           \/ BackwardTick \/ LoadBlock
  <2>1. UNCHANGED stops
    BY <1>6 DEF ProcessBlock, ApplyBlock, ApplyMerge, SaveBlock, SaveLost, PopLastBlock,
       UndoMerge, BackwardTick, LoadBlock
  <2>2. proc'.rebuilt = proc.rebuilt
    BY <1>1, <1>6 DEF ProcessBlock, ApplyBlock, ApplyMerge, SaveBlock, SaveLost, PopLastBlock,
       UndoMerge, BackwardTick, LoadBlock, Node
  <2>3. /\ proc.stage \in {"up", "verifying", "applying", "undoing", "rebuilding"}
        /\ proc'.stage \in {"verifying", "applying", "saved", "undoing", "ticked back"}
    BY <1>1, <1>6 DEF ProcessBlock, ApplyBlock, ApplyMerge, SaveBlock, SaveLost, PopLastBlock,
       UndoMerge, BackwardTick, LoadBlock, Node
  <2> QED
    BY <2>1, <2>2, <2>3 DEF Rebuilding
<1> QED
  BY <1>3, <1>4, <1>5, <1>6 DEF Steady

\* A tick of a block whose save was lost
LEMMA LostTick ==
  ASSUME ChainInv, ProcInv, RoundTick, proc'.stage = "unsaved"
  PROVE  /\ UNCHANGED <<chain, stops>> /\ proc.stage = "saved" /\ ~Rebuilding /\ ~(Rebuilding')
         /\ proc.block \in Block \ ToSet(chain)
<1>1. UNCHANGED <<chain, stops>> /\ proc.stage = "saved" /\ proc' = TickedTo(proc.rebuilt + 1)
  BY DEF RoundTick
<1>2. ~Rebuilding
  BY <1>1 DEF TickedTo, Up
<1>3. proc.block \notin ToSet(chain) /\ proc' = [Up EXCEPT !.stage = "unsaved"]
  BY <1>1, <1>2 DEF TickedTo, Up
<1>4. proc.block \in Block
  BY <1>1, UnderWay
<1> QED
  BY <1>1, <1>2, <1>3, <1>4 DEF Up, Rebuilding

LEMMA CloseKept ==
  ASSUME ChainInv, ProcInv, CloseInv, ExactInv, ChainInv', ProcInv', RecoveryNext
  PROVE  CloseInv'
<1> SUFFICES ASSUME NEW e \in Effect
             PROVE  /\ effects'[e] \in -Len(stops')..Len(stops') + 1
                    /\ proc'.stage = "unsaved" =>
                         effects'[e] - Replay'[e] \in -Len(stops') - 1..Len(stops') + 1
                    /\ proc'.stage # "unsaved" => Drift(e)' \in -Len(stops')..Len(stops')
  BY DEF CloseInv
<1>1. /\ Len(stops) \in Nat /\ effects[e] \in -Len(stops)..Len(stops) + 1
      /\ proc.stage = "unsaved" => effects[e] - Replay[e] \in -Len(stops) - 1..Len(stops) + 1
      /\ proc.stage # "unsaved" => Drift(e) \in -Len(stops)..Len(stops)
  <2>1. Len(stops) \in Nat
    BY DEF ChainInv
  <2> QED
    BY <2>1 DEF CloseInv
<1>2. effects[e] \in Int /\ effects'[e] \in Int
  BY DEF ChainInv
<1>3. PICK w \in {0, 1}, v \in {0, 1} : w = Wanted(e) /\ v = Wanted(e)'
  BY DEF Wanted
<1>4. Drift(e) = effects[e] - w /\ Drift(e)' = effects'[e] - v
  BY <1>3 DEF Drift
<1>5. CASE Steady
  <2>1. UNCHANGED stops /\ Drift(e)' = Drift(e)
    BY <1>5, Steadied, SteadyStages
  <2>2. CASE UNCHANGED <<chain, effects, mark, rows, proc>>
    <3>1. Replay' = Replay
      BY <2>2 DEF Replay
    <3> QED
      BY <1>1, <2>1, <2>2, <3>1
  <2>3. CASE ~UNCHANGED <<chain, effects, mark, rows, proc>>
    <3>1. proc.stage # "unsaved" /\ proc'.stage # "unsaved"
      BY <1>5, <2>3, SteadyStages
    <3>2. Drift(e) \in -Len(stops)..Len(stops)
      BY <1>1, <3>1
    <3>3. effects'[e] \in -Len(stops)..Len(stops) + 1
      BY ONLY <1>1, <1>2, <1>4, <2>1, <3>2, v \in {0, 1}
    <3> QED
      BY <2>1, <3>1, <3>2, <3>3
  <2> QED
    BY <2>2, <2>3
<1>6. CASE RoundTick /\ proc'.stage = "unsaved"
  <2>1. /\ UNCHANGED <<chain, stops>> /\ proc.stage = "saved" /\ ~Rebuilding
        /\ proc.block \notin ToSet(chain)
    BY <1>6, LostTick
  <2>2. PICK c, i : c \in Block /\ e[1] = c /\ e[2] = i /\ i \in 0..Len(Touched[c])
    BY Effects
  <2>3. i \in Nat /\ i <= Len(Touched[c]) /\ Len(Touched[c]) \in Nat
    BY <2>2, Touches
  <2>4. effects'[e] = effects[e] + (IF c = proc.block /\ i = 0 THEN 1 ELSE 0)
    <3>1. \A x \in Effect :
            effects'[x] = effects[x] + (IF x[1] = proc.block /\ x[2] = 0 THEN 1 ELSE 0)
      BY <1>6, CountingSteps, StepCounts
    <3> QED
      BY <2>2, <3>1
  <2>5. PICK r \in {0, 1} : r = Replay'[e] /\ (r = 1 <=> c \in ToSet(chain))
    BY <2>1, <2>2 DEF Replay
  <2>6. w = 1 <=> (c = proc.block /\ i \in 1..Len(Touched[c])) \/ (c # proc.block /\ c \in ToSet(chain))
    <3>1. InTables = ToSet(chain)
      BY <2>1, InTablesIs
    <3>2. proc.merged = Len(Touched[proc.block])
      BY <2>1 DEF ProcInv
    <3>3. Holds(e) <=> (c = proc.block /\ i \in 1..Len(Touched[c])) \/ (c # proc.block /\ c \in ToSet(chain))
      BY <2>1, <2>2, <3>1, <3>2 DEF Holds
    <3> QED
      BY <1>3, <3>3 DEF Wanted
  <2>7. Drift(e) \in -Len(stops)..Len(stops)
    BY <1>1, <2>1
  <2>8. /\ effects'[e] \in -Len(stops)..Len(stops) + 1
        /\ effects'[e] - r \in -Len(stops) - 1..Len(stops) + 1
    <3>1. CASE c = proc.block
      <4>1. r = 0 /\ (w = 1 <=> i # 0)
        BY <2>1, <2>3, <2>5, <2>6, <3>1
      <4>2. effects'[e] = effects[e] + (IF i = 0 THEN 1 ELSE 0)
        BY <2>4, <3>1
      <4> QED
        BY ONLY <1>1, <1>2, <1>4, <2>7, <4>1, <4>2, w \in {0, 1}, r \in {0, 1}
    <3>2. CASE c # proc.block
      <4>1. r = w /\ effects'[e] = effects[e]
        BY <1>2, <2>4, <2>5, <2>6, <3>2
      <4> QED
        BY ONLY <1>1, <1>2, <1>4, <2>7, <4>1, w \in {0, 1}, r \in {0, 1}
    <3> QED
      BY <3>1, <3>2
  <2> QED
    BY <1>6, <2>1, <2>5, <2>8
<1>7. CASE Stop
  <2>1. UNCHANGED <<chain, effects>> /\ proc'.stage = "down" /\ Idle'
    BY <1>7, Stopped
  <2>2. Len(stops') = Len(stops) + 1
    <3>1. stops \in Seq(Stages)
      BY DEF ChainInv
    <3>2. PICK s : stops' = Append(stops, s)
      BY <1>7 DEF Stop
    <3> QED
      BY <3>1, <3>2
  <2>3. PICK r \in {0, 1} : r = Replay[e]
    BY Bits
  <2>4. Replay' = Replay
    BY <2>1 DEF Replay
  <2>5. v = r /\ effects'[e] = effects[e]
    <3>1. Wanted(e)' = Replay'[e]
      BY <2>1, IdleWantsNext
    <3> QED
      BY <1>3, <2>1, <2>3, <2>4, <3>1
  <2>6. CASE proc.stage = "unsaved"
    <3>1. effects[e] - r \in -Len(stops) - 1..Len(stops) + 1
      BY <1>1, <2>3, <2>6
    <3>2. /\ effects'[e] \in -Len(stops')..Len(stops') + 1
          /\ Drift(e)' \in -Len(stops')..Len(stops')
      BY ONLY <1>1, <1>2, <1>4, <2>2, <2>5, <3>1, r \in {0, 1}
    <3> QED
      BY <2>1, <3>2
  <2>7. CASE proc.stage # "unsaved"
    <3>1. Drift(e) \in -Len(stops)..Len(stops)
      BY <1>1, <2>7
    <3>2. /\ effects'[e] \in -Len(stops')..Len(stops') + 1
          /\ Drift(e)' \in -Len(stops')..Len(stops')
      BY ONLY <1>1, <1>2, <1>4, <2>2, <2>5, <3>1, r \in {0, 1}, w \in {0, 1}
    <3> QED
      BY <2>1, <3>2
  <2> QED
    BY <2>6, <2>7
<1>8. CASE Reload \/ LastBlockFails
  <2>1. UNCHANGED stops /\ proc'.stage = "rebuilding" /\ effects'[e] = 0 /\ Drift(e)' = 0
    BY <1>8, Emptied DEF Faithful
  <2> QED
    BY <1>1, <2>1
<1>9. CASE LoadFails
  <2>1. UNCHANGED <<chain, effects, stops>> /\ proc'.stage = "stuck" /\ Idle'
    BY <1>9, Failed
  <2>2. CASE proc.stage = "down" /\ Idle
    <3>1. Replay' = Replay
      BY <2>1 DEF Replay
    <3>2. Wanted(e) = Replay[e] /\ Wanted(e)' = Replay'[e]
      BY <2>1, <2>2, IdleWants, IdleWantsNext
    <3>3. v = w
      BY <1>3, <3>1, <3>2
    <3>4. Drift(e)' = Drift(e)
      BY <1>4, <2>1, <3>3
    <3> QED
      BY <1>1, <2>1, <2>2, <3>4
  <2>3. CASE Rebuilding /\ proc.stage # "stuck" /\ stops # <<>>
    <3>1. Drift(e) = 0
      BY <2>3 DEF ExactInv, Faithful
    <3>2. Len(stops) >= 1
      <4>1. stops \in Seq(Stages)
        BY DEF ChainInv
      <4> QED
        BY <2>3, <4>1
    <3>3. /\ effects'[e] \in -Len(stops')..Len(stops') + 1
          /\ Drift(e)' \in -Len(stops')..Len(stops')
      <4>1. Len(stops') = Len(stops) /\ effects'[e] = effects[e]
        BY <2>1
      <4> QED
        BY ONLY <1>1, <1>2, <1>4, <3>1, <3>2, <4>1, v \in {0, 1}, w \in {0, 1}
    <3> QED
      BY <2>1, <3>3
  <2> QED
    BY <1>9, <2>2, <2>3, Failed
<1> QED
  BY <1>5, <1>6, <1>7, <1>8, <1>9, Split

LEMMA ExactKept ==
  ASSUME ChainInv, ProcInv, ExactInv, NoticedInv, ProcInv', RecoveryNext
  PROVE  ExactInv'
<1>1. CASE Steady
  <2>1. ASSUME Faithful PROVE Faithful'
    BY <1>1, <2>1, Steadied DEF Faithful
  <2>2. UNCHANGED stops /\ (Rebuilding' => Rebuilding)
    BY <1>1, SteadyStages
  <2>3. Good' <=> Good
    BY <2>2 DEF Good, StoppedIn
  <2>4. CASE UNCHANGED <<chain, effects, mark, rows, proc>>
    BY <2>1, <2>2, <2>3, <2>4 DEF ExactInv
  <2>5. CASE Start /\ proc.stage = "down" /\ proc'.stage = "up"
    <3>1. Consistent
      BY <2>5 DEF Start
    <3>2. ~(Rebuilding')
      BY <2>5 DEF ProcInv
    <3> QED
      BY <2>1, <2>3, <2>5, <3>1, <3>2 DEF ExactInv, NoticedInv
  <2>6. CASE /\ proc.stage \notin {"down", "stuck", "unsaved"}
             /\ proc'.stage \notin {"down", "stuck", "unsaved"}
    BY <2>1, <2>2, <2>3, <2>6 DEF ExactInv
  <2> QED
    BY <1>1, <2>4, <2>5, <2>6, SteadyStages
<1>2. CASE RoundTick /\ proc'.stage = "unsaved"
  BY <1>2, LostTick DEF ExactInv
<1>3. CASE Stop
  BY <1>3, Stopped DEF ExactInv
<1>4. CASE Reload \/ LastBlockFails
  BY <1>4, Emptied DEF ExactInv
<1>5. CASE LoadFails
  BY <1>5, Failed DEF ExactInv
<1> QED
  BY <1>1, <1>2, <1>3, <1>4, <1>5, Split

-----------------------------------------------------------------------------
(* The marks of the accounts tell the start what was cut off. *)

LEMMA MarkKept ==
  ASSUME ChainInv, ProcInv, MarkInv, ChainInv', ProcInv', RecoveryNext
  PROVE  MarkInv'
<1>1. proc \in Node
  BY DEF ProcInv
<1>2. mark \in [Account -> Block \cup {Genesis, Nobody}]
  BY DEF ChainInv
<1>3. ASSUME proc'.stage \in {"up", "verifying", "undoing", "down", "stuck"}
      PROVE  MarkInv'
  BY <1>3 DEF MarkInv
<1>4. CASE \/ \E b \in Block : ProcessBlock(b)
           \/ RejectBlock \/ PopLastBlock \/ UndoMerge \/ DeleteBlock \/ Stop \/ Start
           \/ LoadFails \/ LoadEnd
  <2>1. Up.stage = "up"
    BY DEF Up
  <2>2. CASE RejectBlock \/ DeleteBlock \/ Start \/ LoadEnd
    BY <1>3, <2>1, <2>2 DEF RejectBlock, DeleteBlock, Start, LoadLastBlock, LoadEnd
  <2>3. CASE (\E b \in Block : ProcessBlock(b)) \/ PopLastBlock \/ UndoMerge
    BY <1>1, <1>3, <2>3 DEF ProcessBlock, PopLastBlock, UndoMerge, Node
  <2>4. CASE Stop
    BY <1>3, <2>4, Stopped
  <2>5. CASE LoadFails
    BY <1>3, <2>5, Failed
  <2> QED
    BY <1>4, <2>2, <2>3, <2>4, <2>5
<1>5. CASE SigTerm \/ Cleanup
  <2>1. UNCHANGED <<chain, mark, proc>>
    BY <1>5 DEF SigTerm, Cleanup
  <2> QED
    BY <2>1 DEF MarkInv, Rebuilding, OrphanedBlocks
<1>6. CASE ApplyBlock
  <2>1. proc.stage = "verifying" /\ proc'.stage = "applying" /\ proc'.merged = 0 /\ proc'.rebuilt = proc.rebuilt
    BY <1>1, <1>6 DEF ApplyBlock, Node
  <2>2. ~(Rebuilding')
    BY <2>1 DEF ProcInv, Rebuilding
  <2> QED
    BY <2>1, <2>2 DEF MarkInv
<1>7. CASE ApplyMerge
  <2>1. /\ proc.stage = "applying" /\ proc'.stage = "applying" /\ UNCHANGED chain
        /\ proc'.block = proc.block /\ proc'.merged = proc.merged + 1 /\ proc'.rebuilt = proc.rebuilt
        /\ proc.merged < Len(Touched[proc.block])
    BY <1>1, <1>7 DEF ApplyMerge, Node
  <2>2. proc.block \in Block /\ proc.merged + 1 \in 1..Len(Touched[proc.block])
    BY <2>1, UnderWay, Touches
  <2>3. PICK a \in Account : a = Touched[proc.block][proc.merged + 1]
    BY <2>2, Touches
  <2>4. mark' = [mark EXCEPT ![a] = proc.block]
    BY <1>7, <2>3 DEF ApplyMerge
  <2>5. mark'[a] = proc.block /\ \A x \in Account : mark'[x] \in {mark[x], proc.block}
    BY <1>2, <2>4
  <2>6. Rebuilding' <=> Rebuilding
    BY <2>1 DEF Rebuilding
  <2>7. Rebuilding =>
          \A x \in Account : mark[x] \in {Genesis, proc.block} \cup {chain[j] : j \in 1..proc.rebuilt}
    BY <2>1 DEF MarkInv
  <2>8. Rebuilding' =>
          \A x \in Account : mark'[x] \in {Genesis, proc'.block} \cup {chain'[j] : j \in 1..proc'.rebuilt}
    BY <2>1, <2>5, <2>6, <2>7
  <2>9. mark'[Touched[proc'.block][proc'.merged]] = proc'.block
    BY <2>1, <2>3, <2>5
  <2> QED
    BY <2>1, <2>8, <2>9 DEF MarkInv
<1>8. CASE SaveBlock \/ SaveLost
  <2>1. /\ proc.stage = "applying" /\ proc'.stage = "saved" /\ UNCHANGED mark
        /\ proc'.block = proc.block /\ proc'.rebuilt = proc.rebuilt
        /\ Rebuilding => UNCHANGED chain
    BY <1>1, <1>8 DEF SaveBlock, SaveLost, Node
  <2>2. Rebuilding' <=> Rebuilding
    BY <2>1 DEF Rebuilding
  <2> QED
    BY <2>1, <2>2 DEF MarkInv
<1>9. CASE RoundTick
  <2>1. proc.stage = "saved" /\ UNCHANGED chain /\ proc' = TickedTo(proc.rebuilt + 1)
    BY <1>9 DEF RoundTick
  <2>2. PICK b, a : b \in Block /\ b = proc.block /\ a = Generator[b] /\ a \in Account
    BY <2>1, UnderWay, Touches
  <2>3. mark' = [mark EXCEPT ![a] = b]
    BY <1>9, <2>2 DEF RoundTick
  <2>4. mark'[a] = b /\ \A x \in Account : mark'[x] \in {mark[x], b}
    BY <1>2, <2>2, <2>3
  <2>5. CASE Rebuilding
    <3>1. proc' = [Up EXCEPT !.stage = "rebuilding", !.rebuilt = proc.rebuilt + 1]
      BY <2>1, <2>5 DEF TickedTo
    <3>2. proc'.stage = "rebuilding" /\ proc'.rebuilt = proc.rebuilt + 1
      BY <3>1 DEF Up
    <3>3. proc.rebuilt \in Nat /\ b = chain[proc.rebuilt + 1]
      <4>1. proc.rebuilt \in Nat
        BY <1>1, <2>5 DEF Node, Rebuilding
      <4>2. proc.block = chain[proc.rebuilt + 1]
        BY <2>1, <2>5 DEF ProcInv
      <4> QED
        BY <2>2, <4>1, <4>2
    <3>4. \A x \in Account : mark[x] \in {Genesis, b} \cup {chain[j] : j \in 1..proc.rebuilt}
      BY <2>1, <2>2, <2>5 DEF MarkInv
    <3>5. 1..proc.rebuilt + 1 = (1..proc.rebuilt) \cup {proc.rebuilt + 1}
      BY <3>3
    <3>6. \A x \in Account : mark'[x] \in {Genesis} \cup {chain[j] : j \in 1..proc.rebuilt + 1}
      BY <2>4, <3>3, <3>4, <3>5
    <3> QED
      BY <2>1, <3>2, <3>6 DEF MarkInv
  <2>6. CASE ~Rebuilding /\ proc.block \in ToSet(chain)
    <3>1. proc'.stage = "up"
      BY <2>1, <2>6 DEF TickedTo, Up
    <3> QED
      BY <1>3, <3>1
  <2>7. CASE ~Rebuilding /\ proc.block \notin ToSet(chain)
    <3>1. proc'.stage = "unsaved"
      BY <2>1, <2>7 DEF TickedTo, Up
    <3>2. mark'[a] \notin ToSet(chain') \cup {Genesis, Nobody}
      BY <2>1, <2>2, <2>4, <2>7, Touches
    <3>3. OrphanedBlocks'
      BY <2>2, <3>2 DEF OrphanedBlocks
    <3> QED
      BY <3>1, <3>3 DEF MarkInv
  <2> QED
    BY <2>5, <2>6, <2>7
<1>10. CASE BackwardTick
  <2>1. /\ proc.stage = "undoing" /\ proc'.stage = "ticked back" /\ proc'.block = proc.block
    BY <1>1, <1>10 DEF BackwardTick, Node
  <2>2. proc.block # Nobody
    BY <2>1, UnderWay, Touches
  <2>3. \A a \in Account : mark'[a] # proc.block
    BY <1>10, <2>2 DEF BackwardTick
  <2> QED
    BY <2>1, <2>3 DEF MarkInv
<1>11. CASE Reload \/ LastBlockFails
  BY <1>11, Emptied DEF MarkInv
<1>12. CASE LoadBlock
  <2>1. /\ UNCHANGED <<chain, mark>> /\ proc.stage = "rebuilding"
        /\ proc'.stage = "applying" /\ proc'.merged = 0 /\ proc'.rebuilt = proc.rebuilt
    BY <1>1, <1>12 DEF LoadBlock, Node
  <2> QED
    BY <2>1 DEF MarkInv
<1> QED
  BY <1>4, <1>5, <1>6, <1>7, <1>8, <1>9, <1>10, <1>11, <1>12 DEF RecoveryNext

\* A stop outside of the three windows leaves the tables right, or a mark of
\* what was cut off.
LEMMA StopNoticed ==
  ASSUME ChainInv, ProcInv, ExactInv, MarkInv, NoticedInv, Stop, Good', Idle',
         ProcInv', Consistent
  PROVE  Faithful'
<1>1. /\ UNCHANGED <<chain, effects>>
      /\ stops' = Append(stops, IF Rebuilding THEN "rebuilding" ELSE proc.stage)
  BY DEF Stop
<1>2. Good /\ ~Rebuilding /\ proc.stage \in Noticed
  <2>1. PICK s \in Stages : s = (IF Rebuilding THEN "rebuilding" ELSE proc.stage)
    BY DEF ProcInv, Node, Stages
  <2>2. stops \in Seq(Stages) /\ stops' = Append(stops, s)
    BY <1>1, <2>1 DEF ChainInv
  <2>3. ToSet(stops) \subseteq ToSet(stops') /\ s \in ToSet(stops')
    BY ONLY <2>2, s \in Stages DEF ToSet
  <2>4. ToSet(stops') \subseteq Noticed
    BY DEF Good, StoppedIn
  <2>5. Good /\ s \in Noticed
    BY <2>3, <2>4 DEF Good, StoppedIn
  <2> QED
    BY <2>1, <2>5 DEF Noticed
<1>3. ASSUME \A e \in Effect : effects[e] = Replay[e]
      PROVE  Faithful'
  <2> SUFFICES ASSUME NEW e \in Effect PROVE Drift(e)' = 0
    BY DEF Faithful
  <2>1. Wanted(e)' = Replay'[e] /\ Replay' = Replay
    BY <1>1, IdleWantsNext DEF Replay
  <2>2. effects'[e] = Replay[e]
    BY <1>1, <1>3
  <2>3. Replay[e] \in {0, 1}
    BY Bits
  <2> QED
    BY <2>1, <2>2, <2>3 DEF Drift
<1>4. ASSUME Faithful, NEW e \in Effect
      PROVE  effects[e] = Wanted(e)
  <2>1. effects[e] - Wanted(e) = 0 /\ effects[e] \in Int
    BY <1>4 DEF Faithful, Drift, ChainInv
  <2>2. Wanted(e) \in {0, 1}
    BY Bits
  <2> QED
    BY <2>1, <2>2
<1>5. ~OrphanedBlocks /\ ~MissedBlocks /\ chain # <<>>
  BY DEF Consistent
<1>6. CASE proc.stage \in {"up", "verifying"}
  <2>1. Faithful
    BY <1>2, <1>6 DEF ExactInv
  <2>2. Idle
    BY <1>6 DEF Idle
  <2> QED
    BY <1>3, <1>4, <2>1, <2>2, IdleWants
<1>7. CASE proc.stage = "applying"
  <2>1. proc.block \in Block \ ToSet(chain) /\ proc.merged \in Nat /\ proc.merged <= Len(Touched[proc.block])
    BY <1>2, <1>7, UnderWay DEF ProcInv
  <2>2. proc.merged = 0
    <3> SUFFICES ASSUME proc.merged > 0
                 PROVE  FALSE
      BY <2>1
    <3>1. PICK a \in Account : a = Touched[proc.block][proc.merged]
      BY <2>1, Touches
    <3>2. mark[a] = proc.block
      BY <1>2, <1>7, <3>1 DEF MarkInv
    <3>3. mark[a] \notin ToSet(chain) \cup {Genesis, Nobody}
      BY <2>1, <3>2, Touches
    <3> QED
      BY <1>5, <3>1, <3>3 DEF OrphanedBlocks
  <2>3. Faithful
    BY <1>2, <1>7 DEF ExactInv
  <2>4. InTables = ToSet(chain)
    BY <1>2, InTablesIs
  <2>5. ASSUME NEW e \in Effect PROVE effects[e] = Replay[e]
    <3>1. Holds(e) <=> e[1] \in ToSet(chain)
      BY <1>7, <2>1, <2>2, <2>4 DEF Holds
    <3>2. Wanted(e) = Replay[e]
      BY <3>1 DEF Wanted, Replay
    <3> QED
      BY <1>4, <2>3, <3>2
  <2> QED
    BY <1>3, <2>5
<1>8. CASE proc.stage = "unsaved"
  BY <1>5, <1>8 DEF MarkInv
<1>9. CASE proc.stage = "ticked back"
  <2>1. proc.block = LastId
    BY <1>5, <1>9 DEF ProcInv, LastId
  <2> QED
    BY <1>5, <1>9, <2>1 DEF MarkInv, MissedBlocks
<1>10. CASE proc.stage = "stuck"
  <2>1. Faithful
    BY <1>2, <1>10 DEF NoticedInv
  <2>2. Idle
    BY <1>10 DEF Idle
  <2> QED
    BY <1>3, <1>4, <2>1, <2>2, IdleWants
<1> QED
  BY <1>2, <1>6, <1>7, <1>8, <1>9, <1>10 DEF Noticed

LEMMA NoticedKept ==
  ASSUME ChainInv, ProcInv, ExactInv, MarkInv, NoticedInv, ProcInv', RecoveryNext
  PROVE  NoticedInv'
<1>1. CASE Steady
  <2>1. CASE UNCHANGED <<chain, effects, mark, rows, proc>>
    <3>1. UNCHANGED stops
      BY <1>1, SteadyStages
    <3>2. (Good' <=> Good) /\ (Rebuilding' <=> Rebuilding)
      BY <2>1, <3>1 DEF Good, StoppedIn, Rebuilding
    <3>3. Faithful' <=> Faithful
      BY <2>1 DEF Faithful, Drift, Wanted, Holds, InTables, Rebuilding
    <3>4. Consistent' <=> Consistent
      BY <2>1 DEF Consistent, MissedBlocks, UnappliedRounds, OrphanedBlocks, LastId
    <3> QED
      BY <2>1, <3>2, <3>3, <3>4 DEF NoticedInv
  <2>2. CASE proc'.stage \notin {"down", "stuck"}
    BY <2>2 DEF NoticedInv
  <2> QED
    BY <1>1, <2>1, <2>2, SteadyStages
<1>2. CASE RoundTick /\ proc'.stage = "unsaved"
  BY <1>2 DEF NoticedInv
<1>3. CASE Stop
  <2>1. UNCHANGED <<chain, mark, rows>> /\ Idle'
    BY <1>3, Stopped
  <2>2. Consistent' <=> Consistent
    BY <2>1 DEF Consistent, MissedBlocks, UnappliedRounds, OrphanedBlocks, LastId
  <2> QED
    BY <1>3, <2>1, <2>2, StopNoticed DEF NoticedInv
<1>4. CASE Reload \/ LastBlockFails
  BY <1>4, Emptied DEF NoticedInv
<1>5. CASE LoadFails
  <2>1. UNCHANGED <<chain, effects, mark, rows, stops>> /\ proc'.stage = "stuck" /\ Idle'
    BY <1>5, Failed
  <2>2. (Good' <=> Good) /\ (Consistent' <=> Consistent)
    BY <2>1 DEF Good, StoppedIn, Consistent, MissedBlocks, UnappliedRounds, OrphanedBlocks, LastId
  <2>3. CASE proc.stage = "down" /\ Idle
    <3>1. ASSUME Faithful PROVE Faithful'
      <4> SUFFICES ASSUME NEW e \in Effect PROVE Drift(e)' = Drift(e)
        BY <3>1 DEF Faithful
      <4>1. Wanted(e) = Replay[e] /\ Wanted(e)' = Replay'[e] /\ Replay' = Replay
        BY <2>1, <2>3, IdleWants, IdleWantsNext DEF Replay
      <4> QED
        BY <2>1, <4>1 DEF Drift
    <3> QED
      BY <2>2, <2>3, <3>1 DEF NoticedInv
  <2>4. CASE proc.stage = "rebuilding" /\ proc.rebuilt < Len(chain) /\ Rebuilding
    <3>1. proc.rebuilt \in Nat /\ proc.rebuilt + 1 \in 1..Len(chain)
      BY <2>4, NextOfRebuild
    <3>2. chain \in Seq(Block) /\ \A i, j \in 1..Len(chain) : chain[i] = chain[j] => i = j
      BY DEF ChainInv, IsInjective
    <3>3. Len(chain) \in Nat /\ \A i \in 1..Len(chain) : chain[i] \in Block
      BY ONLY <3>2, Members
    <3>4. LastId = chain[Len(chain)] /\ LastId # Genesis
      <4>1. chain # <<>>
        BY <3>1
      <4>2. chain[Len(chain)] \in Block
        BY ONLY <3>1, <3>3
      <4> QED
        BY <4>1, <4>2, Touches DEF LastId, Last
    <3>5. \A j \in 1..proc.rebuilt : chain[j] # chain[Len(chain)]
      BY ONLY <3>1, <3>2, <3>3
    <3>6. \A a \in Account : mark[a] \in {Genesis} \cup {chain[j] : j \in 1..proc.rebuilt}
      BY <2>4 DEF MarkInv
    <3>7. MissedBlocks
      BY <3>4, <3>5, <3>6 DEF MissedBlocks
    <3> QED
      BY <2>2, <3>7 DEF NoticedInv, Consistent
  <2>5. CASE Rebuilding'
    BY <2>1, <2>5 DEF NoticedInv
  <2> QED
    BY <1>5, <2>3, <2>4, <2>5, Failed
<1> QED
  BY <1>1, <1>2, <1>3, <1>4, <1>5, Split

-----------------------------------------------------------------------------
LEMMA RecoveryStarts ==
  ASSUME RecoveryInit
  PROVE  RecoveryInv
<1>1. /\ chain = <<>> /\ effects = NoEffects /\ mark = [a \in Account |-> Genesis] /\ rows = {}
      /\ proc = Up /\ cleaning = "no" /\ stops = <<>>
  BY DEF RecoveryInit
<1>2. proc \in Node /\ proc.stage = "up" /\ proc.rebuilt = -1 /\ ~Rebuilding
  BY <1>1 DEF Up, Node, Stages, Rebuilding
<1>3. Len(chain) = 0 /\ Len(stops) = 0 /\ MaxHeight \in Nat /\ MaxStops \in Nat
  BY <1>1, RecoveryAssumption
<1>4. ChainInv
  <2>1. chain \in Seq(Block) /\ IsInjective(chain) /\ stops \in Seq(Stages)
    BY <1>1 DEF IsInjective
  <2>2. effects \in [Effect -> Int] /\ mark \in [Account -> Block \cup {Genesis, Nobody}]
    BY <1>1 DEF NoEffects
  <2> QED
    BY <1>1, <1>3, <2>1, <2>2 DEF ChainInv
<1>5. ProcInv
  BY <1>2, <1>3 DEF ProcInv
<1>6. ASSUME NEW e \in Effect
      PROVE  effects[e] = 0 /\ Drift(e) = 0
  <2>1. effects[e] = 0
    BY <1>1 DEF NoEffects
  <2>2. Replay[e] = 0
    BY <1>1 DEF Replay, ToSet
  <2>3. Drift(e) = effects[e] - Replay[e]
    BY <1>2, <1>5, IdleWants DEF Idle
  <2> QED
    BY <2>1, <2>2, <2>3
<1>7. CloseInv
  BY <1>2, <1>3, <1>6 DEF CloseInv
<1>8. Faithful
  BY <1>6 DEF Faithful
<1>9. ExactInv /\ MarkInv /\ NoticedInv
  BY <1>2, <1>8 DEF ExactInv, MarkInv, NoticedInv
<1> QED
  BY <1>4, <1>5, <1>7, <1>9 DEF RecoveryInv

LEMMA RecoveryKept ==
  ASSUME RecoveryInv, [RecoveryNext]_recoveryVars
  PROVE  RecoveryInv'
<1>1. ChainInv /\ ProcInv /\ CloseInv /\ ExactInv /\ MarkInv /\ NoticedInv
  BY DEF RecoveryInv
<1>2. CASE RecoveryNext
  <2>1. ChainInv' /\ ProcInv'
    BY <1>1, <1>2, ChainKept, ProcKept
  <2>2. CloseInv' /\ ExactInv'
    BY <1>1, <1>2, <2>1, CloseKept, ExactKept
  <2>3. MarkInv' /\ NoticedInv'
    BY <1>1, <1>2, <2>1, MarkKept, NoticedKept
  <2> QED
    BY <2>1, <2>2, <2>3 DEF RecoveryInv
<1>3. CASE UNCHANGED recoveryVars
  <2>1. UNCHANGED <<chain, effects, mark, rows, proc, cleaning, stops>>
    BY <1>3 DEF recoveryVars
  <2>2. ChainInv'
    BY <1>1, <2>1 DEF ChainInv
  <2>3. ProcInv'
    BY <1>1, <2>1 DEF ProcInv, Rebuilding
  <2>4. /\ \A e : Drift(e)' = Drift(e)
        /\ Faithful' <=> Faithful
        /\ Good' <=> Good
        /\ Consistent' <=> Consistent
        /\ Rebuilding' <=> Rebuilding
        /\ Replay' = Replay
    BY <2>1 DEF Faithful, Drift, Wanted, Holds, InTables, Rebuilding, Good, StoppedIn, Consistent,
       MissedBlocks, UnappliedRounds, OrphanedBlocks, LastId, Replay
  <2>5. CloseInv'
    BY <1>1, <2>1, <2>4 DEF CloseInv
  <2>6. ExactInv' /\ NoticedInv'
    BY <1>1, <2>1, <2>4 DEF ExactInv, NoticedInv
  <2>7. MarkInv'
    BY <1>1, <2>1, <2>4 DEF MarkInv, OrphanedBlocks
  <2> QED
    BY <2>2, <2>3, <2>5, <2>6, <2>7 DEF RecoveryInv
<1> QED
  BY <1>2, <1>3

LEMMA RecoveryHolds ==
  ASSUME RecoveryInv
  PROVE  TablesOK
<1>1. ChainInv /\ ProcInv /\ CloseInv /\ ExactInv
  BY DEF RecoveryInv
<1>2. RecoveryTypeOK
  <2>1. effects \in [Effect -> -MaxStops..(MaxStops + 1)]
    <3>1. effects \in [Effect -> Int] /\ Len(stops) <= MaxStops
      BY <1>1 DEF ChainInv
    <3>2. Len(stops) \in Nat
      BY <1>1 DEF ChainInv
    <3>3. ASSUME NEW e \in Effect PROVE effects[e] \in -MaxStops..(MaxStops + 1)
      <4>1. effects[e] \in -Len(stops)..Len(stops) + 1
        BY <1>1 DEF CloseInv
      <4>2. MaxStops \in Nat
        BY RecoveryAssumption
      <4> QED
        BY ONLY <3>1, <3>2, <4>1, <4>2
    <3> QED
      BY <3>1, <3>3
  <2>2. /\ IsInjective(chain) /\ Len(chain) <= MaxHeight /\ cleaning \in {"no", "asked", "ready"}
        /\ mark \in [Account -> Block \cup {Genesis, Nobody}]
        /\ rows \subseteq 1..Calc(HeightOf(MaxHeight))
    BY <1>1 DEF ChainInv
  <2>3. proc.stage \in Stages /\ proc.rebuilt \in -1..Len(chain)
    BY <1>1 DEF ProcInv, Node
  <2> QED
    BY <2>1, <2>2, <2>3 DEF RecoveryTypeOK, Stages
<1>3. Recovered
  <2> SUFFICES ASSUME Serving, Good
               PROVE  effects = Replay
    BY DEF Recovered, Exact, Good, Noticed
  <2>1. Idle /\ Faithful
    BY <1>1 DEF Serving, Idle, ExactInv
  <2>2. effects \in [Effect -> Int]
    BY <1>1 DEF ChainInv
  <2>3. ASSUME NEW e \in Effect PROVE effects[e] = Replay[e]
    <3>1. effects[e] - Replay[e] = 0 /\ effects[e] \in Int
      BY <1>1, <2>1, <2>2, IdleWants DEF Faithful
    <3>2. Replay[e] \in {0, 1}
      BY Bits
    <3> QED
      BY <3>1, <3>2
  <2>4. Replay = [e \in Effect |-> Replay[e]]
    BY DEF Replay
  <2> QED
    BY <2>2, <2>3, <2>4
<1> QED
  BY <1>2, <1>3 DEF TablesOK

(***************************************************************************)
(* However often the node stops, its tables are what they can be, and one  *)
(* that serves has those of its chain if it stopped nowhere but where      *)
(* Loader.loadBlockChain notices it.                                       *)
(***************************************************************************)
THEOREM TablesRecovered == RecoverySpec => []TablesOK
<1>1. RecoveryInit => RecoveryInv
  BY RecoveryStarts
<1>2. RecoveryInv /\ [RecoveryNext]_recoveryVars => RecoveryInv'
  BY RecoveryKept
<1>3. RecoveryInv => TablesOK
  BY RecoveryHolds
<1> QED
  BY <1>1, <1>2, <1>3, PTL DEF RecoverySpec
=============================================================================
