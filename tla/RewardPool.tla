----------------------------- MODULE RewardPool -----------------------------
(***************************************************************************)
(* The pool of a delegate that shares its rewards with its voters          *)
(* (libs/pool.js): a process beside the node, with tables of its own.      *)
(*                                                                         *)
(* Every second it asks the node for the height, fetches a block that is   *)
(* new, and if its delegate forged it adds the shares to the rows of the   *)
(* voters and of the fee addresses: it reads a table and writes the sums.  *)
(* Every few hours it pays: it reads the rows, has the node send what they *)
(* hold, and sets each to zero when the node has answered.  All of these   *)
(* wait for the node or the database, and nothing orders them, except that *)
(* the delegate's own blocks are far enough apart that a table is updated  *)
(* for one before the next, and payments end before the next are due.      *)
(*                                                                         *)
(* Amounts are numbers, without the conversions between units; the fee of  *)
(* a payment is part of it.  The rows of history tables are left out.      *)
(***************************************************************************)
EXTENDS Integers, Sequences, FiniteSets, SequencesExt

CONSTANTS Voter,          \* rows of the table voters
          Fee,            \* rows of the table poolfees
          Share,          \* of a block's reward, by row
          WithdrawalMin,  \* config.pool.withdrawal_min
          MaxBlocks,      \* bound: the height of the chain
          MaxUpdates,     \* bound: updates of the voters
          MaxWithdrawals, \* bound: rounds of payments
          MaxFaults       \* bound: failures, restarts and replaced blocks

Row == Voter \cup Fee
Table == {"voters", "poolfees"}
Rows(t) == IF t = "voters" THEN Voter ELSE Fee

ASSUME RewardPoolAssumption ==
  /\ IsFiniteSet(Voter)
  /\ Voter \cap Fee = {}
  /\ Share \in [Row -> Nat \ {0}]
  /\ {WithdrawalMin, MaxBlocks, MaxUpdates, MaxWithdrawals, MaxFaults} \subseteq Nat

VARIABLES
  forged,     \* whether the delegate forged the block of a height
  replaced,   \* history: heights whose block was replaced
  last_block,
  heights,    \* answers to getHeight under way
  fetching,   \* heights whose block was asked for
  credit,     \* the update of a table under way
  balance,    \* of every row
  voters,     \* the rows of voters, by id
  active,     \* voters that are active
  reported,   \* history: who was reported last as holding enough
  unfollowed, \* history: the voters that the tables do not follow that report for
  payment,    \* of every row: the payment under way
  updates, withdrawals, faults, \* counted for the bounds
  paid,       \* what the node has sent to a row
  earned,     \* history: the shares of the blocks that a row was to get
  credited,   \* history: heights that a table was credited for
  missed,     \* history: heights that it was not credited for
  again,      \* history: heights that it was credited for once more
  stopped,    \* history: last_block when the pool was stopped
  mishap      \* history: what went wrong for a row

chainVars == <<forged, replaced>>
pollVars == <<last_block, heights, fetching>>
voterVars == <<voters, active, reported, unfollowed>>
heightVars == <<credited, missed, again, stopped>>
bounds == <<updates, withdrawals, faults>>
rowVars == <<balance, payment, paid, earned, mishap>>
payoutVars == <<chainVars, pollVars, voterVars, heightVars, bounds, rowVars, credit>>

Height == Len(forged)
Idle == [height |-> 0, read |-> FALSE, rows |-> {}, seen |-> [r \in Row |-> 0]]
NoPayment == [amount |-> 0, sent |-> FALSE]

Fault == faults < MaxFaults /\ faults' = faults + 1

-----------------------------------------------------------------------------
(* The node *)

NewBlock(own) ==
  /\ Height < MaxBlocks
  /\ forged' = Append(forged, own)
  /\ UNCHANGED <<replaced, pollVars, voterVars, heightVars, bounds, rowVars, credit>>

\* A fork: the last block gives way to one of another delegate.
ReplaceBlock ==
  /\ Height > 0 /\ forged[Height]
  /\ Fault
  /\ forged' = [forged EXCEPT ![Height] = FALSE]
  /\ replaced' = replaced \cup {Height}
  /\ UNCHANGED <<pollVars, voterVars, heightVars, updates, withdrawals, rowVars, credit>>

-----------------------------------------------------------------------------
(* updateBalances *)

\* The timer: the node answers with its height, and the answer is under way.
AskHeight ==
  /\ heights' = heights \cup {Height}
  /\ heights' # heights
  /\ UNCHANGED <<chainVars, last_block, fetching, voterVars, heightVars, bounds, rowVars, credit>>

\* Mutant of HeightAnswered: any other height is taken for a new one.
HeightAnsweredAny(h) ==
  /\ h \in heights
  /\ heights' = heights \ {h}
  /\ IF h \notin {0, last_block}
     THEN /\ last_block' = h
          /\ fetching' = fetching \cup {h}
          /\ missed' = [t \in Table |-> missed[t] \cup (last_block + 1..h - 1)]
     ELSE UNCHANGED <<last_block, fetching, missed>>
  /\ UNCHANGED <<chainVars, voterVars, credited, again, stopped, bounds, rowVars, credit>>

\* last_block is set before the block is fetched; heights in between are skipped.
HeightAnswered(h) ==
  /\ h \in heights
  /\ heights' = heights \ {h}
  /\ IF last_block < h
     THEN /\ last_block' = h
          /\ fetching' = fetching \cup {h}
          /\ missed' = [t \in Table |-> missed[t] \cup (last_block + 1..h - 1)]
     ELSE UNCHANGED <<last_block, fetching, missed>>
  /\ UNCHANGED <<chainVars, voterVars, credited, again, stopped, bounds, rowVars, credit>>

\* Both tables are asked for, if the delegate has forged the block.
BlockAnswered(h) ==
  /\ h \in fetching
  /\ fetching' = fetching \ {h}
  /\ IF forged[h]
     THEN /\ \A t \in Table : credit[t] = Idle
          /\ credit' = [t \in Table |-> [Idle EXCEPT !.height = h]]
     ELSE UNCHANGED credit
  /\ UNCHANGED <<chainVars, last_block, heights, voterVars, heightVars, bounds, rowVars>>

\* An answer to getHeight that is lost changes nothing.
RequestFails(h) ==
  /\ Fault
  /\ h \in fetching
  /\ fetching' = fetching \ {h}
  /\ missed' = [t \in Table |-> missed[t] \cup {h}]
  /\ UNCHANGED <<chainVars, last_block, heights, voterVars, credited, again, stopped, updates,
                 withdrawals, rowVars, credit>>

Asked(t) == credit[t].height # 0 /\ ~credit[t].read
Read(t) == credit[t].read

\* Active voters, every fee address: each is to get its share.
ToCredit(t) == IF t = "voters" THEN active ELSE Fee

ReadRows(t) ==
  LET h == credit[t].height
      rows == ToCredit(t)
  IN  /\ Asked(t)
      /\ credit' = [credit EXCEPT ![t] =
           IF rows = {} THEN Idle ELSE [@ EXCEPT !.read = TRUE, !.rows = rows, !.seen = balance]]
      /\ earned' = [r \in Row |-> IF r \in rows THEN earned[r] + Share[r] ELSE earned[r]]
      /\ credited' = [credited EXCEPT ![t] = @ \cup {h}]
      /\ again' = [again EXCEPT ![t] = @ \cup (credited[t] \cap {h})]
      /\ UNCHANGED <<chainVars, pollVars, voterVars, missed, stopped, bounds, balance, payment,
                     paid, mishap>>

\* The sums are of what was read, whatever the rows hold now.
WriteRows(t) ==
  /\ Read(t)
  /\ balance' = [r \in Row |-> IF r \in credit[t].rows THEN credit[t].seen[r] + Share[r]
                               ELSE balance[r]]
  /\ credit' = [credit EXCEPT ![t] = Idle]
  /\ UNCHANGED <<chainVars, pollVars, voterVars, heightVars, bounds, payment, paid, earned, mishap>>

QueryFails(t) ==
  /\ Fault
  /\ credit[t] # Idle
  /\ credit' = [credit EXCEPT ![t] = Idle]
  /\ missed' = [missed EXCEPT ![t] = @ \cup (IF Asked(t) THEN {credit[t].height} ELSE {})]
  /\ mishap' = [r \in Row |-> mishap[r] \cup (IF r \in credit[t].rows THEN {"unwritten"} ELSE {})]
  /\ UNCHANGED <<chainVars, pollVars, voterVars, credited, again, stopped, updates, withdrawals,
                 balance, payment, paid, earned>>

-----------------------------------------------------------------------------
(* updateVoters *)

\* The i-th row is judged by the i-th voter of the list.
Statuses(list, small) ==
  {voters[i] : i \in {j \in DOMAIN voters : voters[j] \in ToSet(list) /\ list[j] \notin small}}

\* Those whose row is judged by another voter's balance.
Misjudged(list) ==
  {voters[i] : i \in {j \in DOMAIN voters :
     voters[j] \in ToSet(list) /\ (j \in DOMAIN list => list[j] # voters[j])}}

\* A row of a voter beyond the end of the list throws.
Throws(list) == \E i \in DOMAIN voters : voters[i] \in ToSet(list) /\ i \notin DOMAIN list

\* A voter that has no row gets one.
AddVoter(rows, v) == IF v \in ToSet(rows) THEN rows ELSE Append(rows, v)

Queries == {"update", "insert"}

\* A list that is empty or throws writes nothing, not even that its voters have
\* left.  The rows that are there are updated by one query, new ones inserted by
\* another, and either fails alone: done is what does not.  No other step reads
\* what this one writes but ReadRows and Withdrawal: that it comes before or
\* after them is enough.
UpdateVoters(list, small, done) ==
  LET known == ToSet(voters)
      written == IF list = <<>> \/ Throws(list) THEN {} ELSE done
      added == IF "insert" \in written THEN list ELSE <<>>
  IN  /\ updates < MaxUpdates
      /\ heights \cup fetching = {}
      /\ \A t \in Table : credit[t] = Idle
      /\ \A r \in Row : payment[r] = NoPayment
      /\ updates' = updates + 1
      /\ IF done = Queries THEN UNCHANGED faults ELSE Fault
      /\ voters' = FoldLeft(AddVoter, voters, added)
      /\ active' = (IF "update" \in written THEN Statuses(list, small) ELSE active)
                     \cup (ToSet(added) \ (known \cup small))
      /\ reported' = ToSet(list) \ small
      /\ unfollowed' = (IF "update" \in written THEN Misjudged(list) ELSE known)
                         \cup (ToSet(list) \ (known \cup ToSet(added)))
      /\ UNCHANGED <<chainVars, pollVars, heightVars, withdrawals, rowVars, credit>>

-----------------------------------------------------------------------------
(* Withdrawal *)

Payable(r) == balance[r] > WithdrawalMin /\ r \in active \cup Fee

\* The rows are read; each is to be paid after a delay of its own.
Withdrawal ==
  /\ withdrawals < MaxWithdrawals
  /\ \A r \in Row : payment[r] = NoPayment
  /\ withdrawals' = withdrawals + 1
  /\ payment' = [r \in Row |-> IF Payable(r) THEN [amount |-> balance[r], sent |-> FALSE]
                               ELSE NoPayment]
  /\ UNCHANGED <<chainVars, pollVars, voterVars, heightVars, updates, faults, balance,
                 paid, earned, mishap, credit>>

Waiting(r) == payment[r].amount # 0 /\ ~payment[r].sent
Sent(r) == payment[r].amount # 0 /\ payment[r].sent

\* The node takes the transaction in, or refuses it.
NodePays(r) ==
  /\ Waiting(r)
  /\ payment' = [payment EXCEPT ![r].sent = TRUE]
  /\ paid' = [paid EXCEPT ![r] = @ + payment[r].amount]
  /\ UNCHANGED <<chainVars, pollVars, voterVars, heightVars, bounds, balance, earned, mishap, credit>>

NodeRefuses(r) ==
  /\ Waiting(r)
  /\ Fault
  /\ payment' = [payment EXCEPT ![r] = NoPayment]
  /\ UNCHANGED <<chainVars, pollVars, voterVars, heightVars, updates, withdrawals,
                 balance, paid, earned, mishap, credit>>

\* Mutant of Answered: the row keeps what was paid.
AnsweredKeeps(r) ==
  /\ Sent(r)
  /\ payment' = [payment EXCEPT ![r] = NoPayment]
  /\ UNCHANGED <<chainVars, pollVars, voterVars, heightVars, bounds, balance, paid, earned, mishap, credit>>

\* The answer: the row is set to zero, whatever it holds now.
Answered(r) ==
  /\ Sent(r)
  /\ balance' = [balance EXCEPT ![r] = 0]
  /\ payment' = [payment EXCEPT ![r] = NoPayment]
  /\ mishap' = [mishap EXCEPT ![r] = @ \cup
       (IF balance[r] # payment[r].amount THEN {"overtaken"} ELSE {}) \cup
       (IF \E t \in Table : r \in credit[t].rows THEN {"revived"} ELSE {})]
  /\ UNCHANGED <<chainVars, pollVars, voterVars, heightVars, bounds, paid, earned, credit>>

\* The answer is lost, or the row cannot be written.
Unheard(r) ==
  /\ Sent(r)
  /\ Fault
  /\ payment' = [payment EXCEPT ![r] = NoPayment]
  /\ mishap' = [mishap EXCEPT ![r] = @ \cup {"unheard"}]
  /\ UNCHANGED <<chainVars, pollVars, voterVars, heightVars, updates, withdrawals,
                 balance, paid, earned, credit>>

-----------------------------------------------------------------------------
(* The pool is stopped and started: updatePoolFeesAddress makes the rows of  *)
(* the fee addresses anew.  The sum that it reads is not what they held.     *)
Restart ==
  /\ Fault
  /\ stopped' = stopped \cup {last_block}
  /\ last_block' = 0
  /\ heights' = {} /\ fetching' = {}
  /\ credit' = [t \in Table |-> Idle]
  /\ payment' = [r \in Row |-> NoPayment]
  /\ missed' = [t \in Table |-> missed[t] \cup fetching \cup
                  (IF Asked(t) THEN {credit[t].height} ELSE {})]
  /\ balance' = [r \in Row |-> IF r \in Fee THEN 0 ELSE balance[r]]
  /\ mishap' = [r \in Row |-> mishap[r] \cup
       (IF Sent(r) THEN {"unheard"} ELSE {}) \cup
       (IF \E t \in Table : r \in credit[t].rows THEN {"unwritten"} ELSE {}) \cup
       (IF r \in Fee /\ balance[r] # 0 THEN {"reset"} ELSE {})]
  /\ UNCHANGED <<chainVars, voterVars, credited, again, updates, withdrawals, paid, earned>>

Reports == {s \in BoundedSeq(Voter, Cardinality(Voter)) : Cardinality(ToSet(s)) = Len(s)}

\* The table may be there from an earlier life, whatever was reported then.
PayoutInit ==
  /\ forged = <<>> /\ replaced = {}
  /\ last_block = 0 /\ heights = {} /\ fetching = {}
  /\ credit = [t \in Table |-> Idle]
  /\ balance = [r \in Row |-> 0]
  /\ voters \in {<<>>, SetToSeq(Voter)}
  /\ active \in SUBSET ToSet(voters)
  /\ reported = {} /\ unfollowed = ToSet(voters)
  /\ payment = [r \in Row |-> NoPayment]
  /\ updates = 0 /\ withdrawals = 0 /\ faults = 0
  /\ paid = [r \in Row |-> 0] /\ earned = [r \in Row |-> 0]
  /\ credited = [t \in Table |-> {}] /\ missed = [t \in Table |-> {}]
  /\ again = [t \in Table |-> {}] /\ stopped = {}
  /\ mishap = [r \in Row |-> {}]

PoolStep(h) == HeightAnswered(h) \/ BlockAnswered(h)
TableStep(t) == ReadRows(t) \/ WriteRows(t)
RowStep(r) == NodePays(r) \/ NodeRefuses(r) \/ Answered(r) \/ Unheard(r)

PayoutNext ==
  \/ \E own \in BOOLEAN : NewBlock(own)
  \/ ReplaceBlock \/ AskHeight \/ Withdrawal \/ Restart
  \/ \E h \in 0..MaxBlocks : PoolStep(h) \/ RequestFails(h)
  \/ \E t \in Table : TableStep(t) \/ QueryFails(t)
  \/ \E list \in Reports, small \in SUBSET Voter, done \in SUBSET Queries :
       UpdateVoters(list, small, done)
  \/ \E r \in Row : RowStep(r)

PayoutSpec == PayoutInit /\ [][PayoutNext]_payoutVars

-----------------------------------------------------------------------------
Mishaps == {"unwritten", "overtaken", "revived", "unheard", "reset"}

PayoutTypeOK ==
  /\ forged \in Seq(BOOLEAN) /\ Height <= MaxBlocks
  /\ {last_block} \cup heights \cup replaced \cup stopped \subseteq 0..Height
  /\ fetching \subseteq 1..Height
  /\ DOMAIN credit = Table
  /\ \A t \in Table :
       /\ credit[t].height \in 0..Height /\ credit[t].read \in BOOLEAN
       /\ credit[t].rows \subseteq Rows(t) /\ credit[t].seen \in [Row -> Nat]
       /\ credit[t].rows # {} => credit[t].read
  /\ {balance, paid, earned} \subseteq [Row -> Nat]
  /\ ToSet(voters) \subseteq Voter /\ active \subseteq ToSet(voters)
  /\ payment \in [Row -> [amount : Nat, sent : BOOLEAN]]
  /\ mishap \in [Row -> SUBSET Mishaps]

\* The share that is on its way to a row, and the payment that is not yet
\* taken off it.
Pending(r) == IF \E t \in Table : r \in credit[t].rows THEN Share[r] ELSE 0
Unsettled(r) == IF Sent(r) THEN payment[r].amount ELSE 0

(***************************************************************************)
(* Reading, adding, paying and zeroing interleave: a row is never paid     *)
(* more than its shares, unless an answer of the node was not heard or a   *)
(* credit that had read the row before it was zeroed was written after.    *)
(***************************************************************************)
NotOverpaid ==
  \A r \in Row : mishap[r] \cap {"unheard", "revived"} = {} =>
    balance[r] + paid[r] + Pending(r) <= earned[r] + Unsettled(r)

(***************************************************************************)
(* What a row was to get it holds or has been paid, unless a share was not *)
(* written, was written between reading and zeroing of a payment, or was   *)
(* thrown away with the rows of the fee addresses when the pool started.   *)
(***************************************************************************)
NothingLost ==
  \A r \in Row : mishap[r] \cap {"unwritten", "overtaken", "reset"} = {} =>
    balance[r] + paid[r] + Pending(r) >= earned[r] + Unsettled(r)

(***************************************************************************)
(* A block is credited once, in whatever order the answers come, unless    *)
(* the pool was stopped at its height; and every block of the delegate up  *)
(* to last_block is, or is about to be, unless the pool has skipped its    *)
(* height, its request or query failed, or another block was there.        *)
(***************************************************************************)
CreditedOnce ==
  \A t \in Table :
    /\ again[t] \subseteq stopped
    /\ \A h \in 1..last_block :
         forged[h] => h \in credited[t] \cup missed[t] \cup fetching \cup {credit[t].height}

(***************************************************************************)
(* A voter counts just if it was reported last and holds enough, whatever  *)
(* went wrong in earlier updates, unless that report was empty, failed to  *)
(* be written or was in another order than the rows, and only for those    *)
(* voters whose row that left unwritten or judged by another's balance.    *)
(***************************************************************************)
VotersFollowed == \A v \in Voter \ unfollowed : v \in active <=> v \in reported

(***************************************************************************)
(* A row holds what it is owed, no more and no less.                       *)
(***************************************************************************)
RowsExact == NotOverpaid /\ NothingLost

(***************************************************************************)
(* The tables and the voters that count follow the chain and the reports of *)
(* the node.                                                               *)
(***************************************************************************)
CreditsOK == PayoutTypeOK /\ CreditedOnce /\ VotersFollowed
=============================================================================
