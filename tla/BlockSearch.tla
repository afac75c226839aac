---------------------------- MODULE BlockSearch ----------------------------
(***************************************************************************)
(* findLatestBlockBeforeTimestamp of src/tdhLoop/tdh.ts: which block the   *)
(* TDH of a day is calculated at.  A binary search over block numbers that *)
(* asks the provider for one block after the other, starting from an       *)
(* estimate, while the chain goes on growing.                              *)
(*                                                                         *)
(* The provider and the chain are external: blocks are numbered from 0 and *)
(* come averageBlockTime seconds apart or more (a slot may be missed).     *)
(***************************************************************************)
EXTENDS Integers

CONSTANTS averageBlockTime,
          MaxBlock, MaxTime    \* bounds on the chain: blocks and seconds

ASSUME TimeAssumption ==
  averageBlockTime \in Nat \ {0} /\ MaxBlock \in Nat /\ MaxTime \in Nat

VARIABLES head,         \* number of the last block
          timestamp,    \* of every block
          pc, target, latest, startBlock, endBlock, found

chain == <<head, timestamp>>
search == <<pc, target, latest, startBlock, endBlock, found>>
vars == <<chain, search>>

Time == 0 .. MaxTime

TypeOK ==
  /\ head \in 0 .. MaxBlock
  /\ timestamp \in [0 .. head -> Time]
  /\ pc \in {"idle", "search", "done"}
  /\ target \in Time
  /\ latest \in 0 .. head
  /\ startBlock \in Int /\ endBlock \in Int /\ found \in Int

Init ==
  /\ head = 0 /\ timestamp = [b \in 0 .. 0 |-> 0]
  /\ pc = "idle" /\ target = 0 /\ latest = 0
  /\ startBlock = 0 /\ endBlock = 0 /\ found = 0

MineBlock ==
  /\ head < MaxBlock
  /\ \E t \in Time :
       /\ t >= timestamp[head] + averageBlockTime
       /\ timestamp' = [b \in 0 .. head + 1 |-> IF b = head + 1 THEN t ELSE timestamp[b]]
  /\ head' = head + 1
  /\ UNCHANGED search

\* Mutant of BlocksBack: an average that is a second too long.
BlocksBackTooFew(seconds) == seconds \div (averageBlockTime + 1)

\* Math.floor of the average number of blocks in a time, which is negative when
\* the last block is older than the target.
BlocksBack(seconds) == seconds \div averageBlockTime

AtLeast0(n) == IF n < 0 THEN 0 ELSE n

\* A run asks for the last block and estimates where to start.
Begin ==
  /\ pc # "search"
  /\ \E t \in Time : target' = t
  /\ latest' = head
  /\ startBlock' = AtLeast0(head - BlocksBack(timestamp[head] - target'))
  /\ endBlock' = head
  /\ pc' = "search"
  /\ UNCHANGED <<chain, found>>

Middle == (startBlock + endBlock) \div 2

\* Mutant of Earlier: the probed block stays in the range.
KeepMiddle(block) == block

Earlier(block) == block - 1
Later(block) == block + 1

\* One more block is looked at.
Probe ==
  /\ pc = "search"
  /\ startBlock <= endBlock
  /\ LET t == timestamp[Middle] IN
     \/ t = target /\ found' = Middle /\ pc' = "done" /\ UNCHANGED <<startBlock, endBlock>>
     \/ t < target /\ startBlock' = Later(Middle) /\ UNCHANGED <<pc, endBlock, found>>
     \/ t > target /\ endBlock' = Earlier(Middle) /\ UNCHANGED <<pc, startBlock, found>>
  /\ UNCHANGED <<chain, target, latest>>

Return ==
  /\ pc = "search"
  /\ startBlock > endBlock
  /\ found' = endBlock
  /\ pc' = "done"
  /\ UNCHANGED <<chain, target, latest, startBlock, endBlock>>

Next == MineBlock \/ Begin \/ Probe \/ Return

Spec == Init /\ [][Next]_vars

\* A search goes on as long as the provider answers.
FairSpec == Spec /\ WF_vars(Probe \/ Return)

-----------------------------------------------------------------------------
(* Properties.                                                             *)

\* The search ends with the last block up to the target, of those there were
\* when it began; if the chain was past the target by then, of all there will
\* ever be: every run of the day, and every other service, finds the same.
FindsLastBlock ==
  pc = "done" =>
    /\ found \in 0 .. latest
    /\ timestamp[found] <= target
    /\ \A b \in 0 .. latest : timestamp[b] <= target => b <= found
    /\ timestamp[latest] > target => \A b \in 0 .. head : timestamp[b] <= target => b <= found

\* The provider is only asked for blocks there are: a block that is missing
\* would throw, and a TDH run that throws exits the process.
AsksForExistingBlocks ==
  pc = "search" =>
    /\ startBlock <= endBlock => Middle \in 0 .. latest
    /\ startBlock > endBlock => endBlock \in 0 .. latest

\* Every search ends.
SearchEnds == pc = "search" ~> pc = "done"

-----------------------------------------------------------------------------
(* The inductive invariant.  A block is as many block times older than     *)
(* another as there are blocks between them, which is why the estimate is  *)
(* never too late; below the range no block is after the target, above it  *)
(* every block is.                                                         *)

ChainOK ==
  /\ timestamp[0] = 0
  /\ \A a, b \in 0 .. head :
       a <= b => timestamp[b] >= timestamp[a] + averageBlockTime * (b - a)

\* b is not after the target and the block above it is.
Divides(b) ==
  /\ b \in 0 .. latest
  /\ timestamp[b] <= target
  /\ b < latest => timestamp[b + 1] > target

RangeOK ==
  /\ startBlock >= 0 /\ endBlock <= latest
  /\ endBlock < latest => timestamp[endBlock + 1] > target
  /\ \/ startBlock <= endBlock + 1 /\ (startBlock >= 1 => timestamp[startBlock - 1] <= target)
     \/ startBlock > endBlock /\ endBlock = latest /\ timestamp[latest] <= target

IndInv ==
  /\ TypeOK
  /\ ChainOK
  /\ pc = "search" => RangeOK
  /\ pc = "done" => Divides(found)
=============================================================================
