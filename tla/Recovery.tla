------------------------------ MODULE Recovery ------------------------------
(***************************************************************************)
(* What a stop of the node leaves in the database, and what the next start *)
(* makes of it.  A block is applied by many writes: one merge after the    *)
(* other into mem_accounts and mem_round, then the rows of the block, then *)
(* the tick of the round; deleting a block takes as many.  The start of    *)
(* the node (Loader.loadBlockChain) compares the tables and either goes on *)
(* with them or rebuilds them from the blocks, and is stuck if it cannot   *)
(* read them.                                                              *)
(*                                                                         *)
(* The amounts do not matter here.  What counts is how often the tables    *)
(* hold the effect of a write: <<b, i>> of the i-th merge of block b and   *)
(* <<b, 0>> of its tick.                                                   *)
(***************************************************************************)
EXTENDS Integers, Sequences, SequencesExt

CONSTANTS Block,         \* blocks, without the genesis block
          Account,
          Touched,       \* the accounts that a block's transactions merge into
          Generator,     \* of a block
          Genesis,       \* the genesis block, as a mark of an account
          Nobody,        \* the blockId '0' of an account
          D,             \* blocks of a round
          MaxHeight,     \* bound: blocks after the genesis block
          MaxStops       \* bound: stops of the node

ASSUME RecoveryAssumption ==
  /\ Touched \in [Block -> Seq(Account)]
  /\ Generator \in [Block -> Account]
  /\ {Genesis, Nobody} \cap Block = {} /\ Genesis # Nobody
  /\ D \in Nat \ {0, 1}
  /\ MaxHeight \in Nat
  /\ MaxStops \in Nat

VARIABLES
  chain,      \* table blocks, after the genesis block
  effects,    \* how often mem_accounts and mem_round hold each effect
  mark,       \* mem_accounts.blockId
  rows,       \* the rounds of which mem_round holds rows
  proc,       \* the node: stage, block under way, merges of it, blocks rebuilt
  cleaning,   \* a shutdown: "no", "asked" (Blocks.cleanup waits), "ready"
  stops       \* history: the stages in which the node stopped, in order

recoveryVars == <<chain, effects, mark, rows, proc, cleaning, stops>>

Calc(height) == (height + D - 1) \div D
HeightOf(n) == n + 1              \* of the n-th block after the genesis block
EndsRound(height) == Calc(height) # Calc(height + 1)

Effect == UNION {{<<b, i>> : i \in 0..Len(Touched[b])} : b \in Block}
NoEffects == [e \in Effect |-> 0]
Replay == [e \in Effect |-> IF e[1] \in ToSet(chain) THEN 1 ELSE 0]

Up == [stage |-> "up", block |-> Genesis, merged |-> 0, rebuilt |-> -1]
Rebuilding == proc.rebuilt >= 0
HeightUnderWay ==
  IF Rebuilding THEN HeightOf(proc.rebuilt + 1)
  ELSE IF proc.block \in ToSet(chain) THEN HeightOf(Len(chain))
  ELSE HeightOf(Len(chain) + 1)

RecoveryInit ==
  /\ chain = <<>>
  /\ effects = NoEffects
  /\ mark = [a \in Account |-> Genesis]
  /\ rows = {}
  /\ proc = Up
  /\ cleaning = "no"
  /\ stops = <<>>

-----------------------------------------------------------------------------
(* processBlock asks for a shutdown once, before the verification          *)
ProcessBlock(b) ==
  /\ proc.stage = "up"
  /\ cleaning = "no"
  /\ b \notin ToSet(chain)
  /\ Len(chain) < MaxHeight
  /\ proc' = [proc EXCEPT !.stage = "verifying", !.block = b]
  /\ UNCHANGED <<chain, effects, mark, rows, cleaning, stops>>

RejectBlock ==
  /\ proc.stage = "verifying"
  /\ proc' = Up
  /\ UNCHANGED <<chain, effects, mark, rows, cleaning, stops>>

ApplyBlock ==
  /\ proc.stage = "verifying"
  /\ proc' = [proc EXCEPT !.stage = "applying", !.merged = 0]
  /\ UNCHANGED <<chain, effects, mark, rows, cleaning, stops>>

\* applyConfirmed: one merge, which also marks the account and adds rows
ApplyMerge ==
  /\ proc.stage = "applying"
  /\ proc.merged < Len(Touched[proc.block])
  /\ effects' = [effects EXCEPT ![<<proc.block, proc.merged + 1>>] = @ + 1]
  /\ mark' = [mark EXCEPT ![Touched[proc.block][proc.merged + 1]] = proc.block]
  /\ rows' = rows \cup {Calc(HeightUnderWay)}
  /\ proc' = [proc EXCEPT !.merged = @ + 1]
  /\ UNCHANGED <<chain, cleaning, stops>>

SaveBlock ==
  /\ proc.stage = "applying"
  /\ proc.merged = Len(Touched[proc.block])
  /\ proc' = [proc EXCEPT !.stage = "saved"]
  /\ chain' = IF Rebuilding THEN chain ELSE Append(chain, proc.block)
  /\ UNCHANGED <<effects, mark, rows, cleaning, stops>>

\* The transaction of saveBlock does not return the batch of its inserts: an
\* insert that fails rolls it back and nobody hears of it.
SaveLost ==
  /\ proc.stage = "applying" /\ ~Rebuilding
  /\ proc.merged = Len(Touched[proc.block])
  /\ proc' = [proc EXCEPT !.stage = "saved"]
  /\ UNCHANGED <<chain, effects, mark, rows, cleaning, stops>>

\* What a node does that goes on with a block that is not in its table is not
\* modelled, only that it stops.
TickedTo(rebuilt) ==
  IF Rebuilding THEN [Up EXCEPT !.stage = "rebuilding", !.rebuilt = rebuilt]
  ELSE IF proc.block \in ToSet(chain) THEN Up
  ELSE [Up EXCEPT !.stage = "unsaved"]

\* rounds.tick, in one database transaction
RoundTick ==
  /\ proc.stage = "saved"
  /\ rows' = IF EndsRound(HeightUnderWay) THEN rows \ {Calc(HeightUnderWay)} ELSE rows
  /\ effects' = [effects EXCEPT ![<<proc.block, 0>>] = @ + 1]
  /\ mark' = [mark EXCEPT ![Generator[proc.block]] = proc.block]
  /\ proc' = TickedTo(proc.rebuilt + 1)
  /\ UNCHANGED <<chain, cleaning, stops>>

-----------------------------------------------------------------------------
(* deleteLastBlock: nothing asks for a shutdown, nothing holds one up      *)
PopLastBlock ==
  /\ proc.stage = "up"
  /\ chain # <<>>
  /\ proc' = [proc EXCEPT !.stage = "undoing", !.block = Last(chain),
                          !.merged = Len(Touched[Last(chain)])]
  /\ UNCHANGED <<chain, effects, mark, rows, cleaning, stops>>

UndoMerge ==
  /\ proc.stage = "undoing"
  /\ proc.merged > 0
  /\ effects' = [effects EXCEPT ![<<proc.block, proc.merged>>] = @ - 1]
  /\ mark' = [mark EXCEPT ![Touched[proc.block][proc.merged]] = proc.block]
  /\ rows' = rows \cup {Calc(HeightOf(Len(chain)))}
  /\ proc' = [proc EXCEPT !.merged = @ - 1]
  /\ UNCHANGED <<chain, cleaning, stops>>

\* backwardTick, in one database transaction; the snapshot of mem_round that it
\* restores at the end of a round may hold rows of that round or none.
BackwardTick ==
  /\ proc.stage = "undoing"
  /\ proc.merged = 0
  /\ effects' = [effects EXCEPT ![<<proc.block, 0>>] = @ - 1]
  /\ mark' = [a \in Account |->
                IF mark[a] = proc.block \/ a = Generator[proc.block] THEN Nobody ELSE mark[a]]
  /\ LET height == HeightOf(Len(chain))
     IN  IF EndsRound(height)
         THEN rows' \in {rows \ {Calc(height)}, rows \cup {Calc(height)}}
         ELSE rows' = rows
  /\ proc' = [proc EXCEPT !.stage = "ticked back"]
  /\ UNCHANGED <<chain, cleaning, stops>>

DeleteBlock ==
  /\ proc.stage = "ticked back"
  /\ chain' = Front(chain)
  /\ proc' = Up
  /\ UNCHANGED <<effects, mark, rows, cleaning, stops>>

-----------------------------------------------------------------------------
(* Stops: a crash at any time, or a shutdown that Blocks.cleanup holds up  *)
(* until no block is being applied                                         *)
IsActive == proc.stage \in {"applying", "saved"}

Stop ==
  /\ proc.stage # "down"
  /\ Len(stops) < MaxStops
  /\ proc' = [Up EXCEPT !.stage = "down"]
  /\ stops' = Append(stops, IF Rebuilding THEN "rebuilding" ELSE proc.stage)
  /\ cleaning' = "no"
  /\ UNCHANGED <<chain, effects, mark, rows>>

SigTerm ==
  /\ proc.stage # "down"
  /\ cleaning = "no"
  /\ cleaning' = "asked"
  /\ UNCHANGED <<chain, effects, mark, rows, proc, stops>>

Cleanup ==
  /\ cleaning = "asked"
  /\ ~IsActive
  /\ cleaning' = "ready"
  /\ UNCHANGED <<chain, effects, mark, rows, proc, stops>>

-----------------------------------------------------------------------------
(* loadBlockChain *)
LastId == IF chain = <<>> THEN Genesis ELSE Last(chain)
MissedBlocks == \A a \in Account : mark[a] # LastId
UnappliedRounds == rows \ {Calc(HeightOf(Len(chain)))} # {}
OrphanedBlocks == \E a \in Account : mark[a] \notin ToSet(chain) \cup {Genesis, Nobody}

\* Mutant of Consistent: orphaned blocks are not looked for.
ConsistentButOrphans == chain # <<>> /\ ~MissedBlocks /\ ~UnappliedRounds

Consistent == chain # <<>> /\ ~MissedBlocks /\ ~UnappliedRounds /\ ~OrphanedBlocks

\* loadLastBlock
LoadLastBlock == proc' = Up

Start ==
  /\ proc.stage = "down"
  /\ Consistent
  /\ LoadLastBlock
  /\ UNCHANGED <<chain, effects, mark, rows, cleaning, stops>>

\* removeTables, createTables and the genesis block
EmptyTables ==
  /\ effects' = NoEffects
  /\ mark' = [a \in Account |-> Genesis]
  /\ rows' = {}

Rebuild ==
  /\ EmptyTables
  /\ proc' = [Up EXCEPT !.stage = "rebuilding", !.rebuilt = 0]
  /\ UNCHANGED <<chain, cleaning, stops>>

Reload ==
  /\ proc.stage = "down"
  /\ ~Consistent
  /\ Rebuild

\* The last block cannot be loaded: all is rebuilt although the tables are fit.
LastBlockFails ==
  /\ proc.stage = "down"
  /\ Consistent
  /\ Rebuild

\* Nothing catches an error of updateMemAccounts.  One of the rebuild, between
\* two blocks or in a tick, has no block to clip the chain at.  Either way
\* blockchainReady is never sent.
LoadFails ==
  /\ \/ /\ proc.stage = "down" /\ chain # <<>> /\ ~MissedBlocks /\ ~UnappliedRounds
        /\ proc' = [Up EXCEPT !.stage = "stuck"]
     \/ /\ proc.stage = "rebuilding" /\ proc.rebuilt < Len(chain)
        /\ proc' = [Up EXCEPT !.stage = "stuck"]
     \/ /\ proc.stage = "saved" /\ Rebuilding
        /\ proc' = [proc EXCEPT !.stage = "stuck"]
  /\ UNCHANGED <<chain, effects, mark, rows, cleaning, stops>>

\* A shutdown skips the blocks that are left; all that comes then is the exit.
LoadBlock ==
  /\ proc.stage = "rebuilding"
  /\ proc.rebuilt < Len(chain)
  /\ cleaning = "no"
  /\ proc' = [proc EXCEPT !.stage = "applying", !.block = chain[proc.rebuilt + 1], !.merged = 0]
  /\ UNCHANGED <<chain, effects, mark, rows, cleaning, stops>>

\* Mutant of LoadEnd: it waits for one block more than there are.
LoadEndLate ==
  /\ proc.stage = "rebuilding"
  /\ proc.rebuilt > Len(chain)
  /\ proc' = Up
  /\ UNCHANGED <<chain, effects, mark, rows, cleaning, stops>>

LoadEnd ==
  /\ proc.stage = "rebuilding"
  /\ proc.rebuilt = Len(chain)
  /\ proc' = Up
  /\ UNCHANGED <<chain, effects, mark, rows, cleaning, stops>>

RecoveryNext ==
  \/ \E b \in Block : ProcessBlock(b)
  \/ RejectBlock
  \/ ApplyBlock
  \/ ApplyMerge
  \/ SaveBlock
  \/ SaveLost
  \/ RoundTick
  \/ PopLastBlock
  \/ UndoMerge
  \/ BackwardTick
  \/ DeleteBlock
  \/ Stop
  \/ SigTerm
  \/ Cleanup
  \/ Start
  \/ Reload
  \/ LastBlockFails
  \/ LoadFails
  \/ LoadBlock
  \/ LoadEnd

RecoverySpec == RecoveryInit /\ [][RecoveryNext]_recoveryVars

\* The database answers, and a node that is down is started.
RecoveryFairSpec ==
  /\ RecoverySpec
  /\ WF_recoveryVars(ApplyMerge \/ SaveBlock \/ RoundTick)
  /\ WF_recoveryVars(UndoMerge \/ BackwardTick \/ DeleteBlock)
  /\ WF_recoveryVars(Start \/ Reload \/ LoadBlock \/ LoadEnd)

-----------------------------------------------------------------------------
RecoveryTypeOK ==
  /\ IsInjective(chain) /\ Len(chain) <= MaxHeight
  /\ effects \in [Effect -> -MaxStops..(MaxStops + 1)]
  /\ mark \in [Account -> Block \cup {Genesis, Nobody}]
  /\ rows \subseteq 1..Calc(HeightOf(MaxHeight))
  /\ proc.stage \in {"up", "verifying", "applying", "saved", "unsaved", "undoing",
                     "ticked back", "rebuilding", "stuck", "down"}
  /\ proc.rebuilt \in -1..Len(chain)
  /\ cleaning \in {"no", "asked", "ready"}

Serving == proc.stage \in {"up", "verifying"} /\ cleaning = "no"
Exact == effects = Replay
StoppedIn(S) == ToSet(stops) \subseteq S

(***************************************************************************)
(* A node that serves has the tables of its chain: the start finds a block *)
(* that was applied and not saved, wholly or in part, by its mark on the   *)
(* accounts, and one that was undone and not deleted by the missing mark.  *)
(* It does not notice a stop in three windows: between the save of a block *)
(* and its tick, while a block is undone, and in the last block of a       *)
(* rebuild.                                                                *)
(***************************************************************************)
Recovered ==
  Serving /\ StoppedIn({"up", "verifying", "applying", "unsaved", "ticked back", "stuck"}) => Exact

(***************************************************************************)
(* A node that is down serves again, is stopped again, or hangs after an   *)
(* error of its database: the checks never send it from one rebuild to the *)
(* next, and what it has under way ends.                                   *)
(***************************************************************************)
ServesAgain ==
  proc.stage = "down" /\ cleaning = "no" ~> Serving \/ cleaning # "no" \/ proc.stage = "stuck"

(***************************************************************************)
(* The tables are what they can be after stops, and those of the chain     *)
(* where the node serves.                                                  *)
(***************************************************************************)
TablesOK == RecoveryTypeOK /\ Recovered
=============================================================================
