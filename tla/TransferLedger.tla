---------------------------- MODULE TransferLedger ----------------------------
(***************************************************************************)
(* What the transactions table promises the TDH calculation that reads it: *)
(* at any moment it holds the contract's transfers up to some block, whole *)
(* and without a gap, and that block only moves forward.                   *)
(***************************************************************************)
EXTENDS Integers, Sequences

CONSTANT Key

VARIABLES chain,    \* transfer entries [block, key] of the contract
          rows,     \* rows[k]: the entries summed into the row of k
          indexed   \* the block up to which the table is complete

vars == <<chain, rows, indexed>>

UpTo(b) ==
  [k \in Key |-> {i \in 1 .. Len(chain) : chain[i].key = k /\ chain[i].block <= b}]

Init ==
  /\ chain = <<>>
  /\ rows = UpTo(0)
  /\ indexed = 0

\* The chain only grows, by blocks above its last one.
Grow ==
  /\ Len(chain') > Len(chain)
  /\ \A i \in 1 .. Len(chain) : chain'[i] = chain[i]
  /\ \A i \in 1 .. Len(chain), j \in Len(chain) + 1 .. Len(chain') :
       chain[i].block < chain'[j].block
  /\ UNCHANGED <<rows, indexed>>

\* One atomic step takes the table to a later block of the chain.
Advance ==
  /\ indexed' \in {chain[i].block : i \in 1 .. Len(chain)}
  /\ indexed' > indexed
  /\ rows' = UpTo(indexed')
  /\ UNCHANGED chain

Next == Grow \/ Advance

Spec == Init /\ [][Next]_vars

=============================================================================
