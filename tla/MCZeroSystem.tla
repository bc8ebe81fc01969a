---------------------------- MODULE MCZeroSystem ----------------------------
(* A bound on the number of transactions for TLC, and the symmetry of the  *)
(* borrowers.  Price changes are not counted.                              *)
EXTENDS ZeroSystem, TLC

CONSTANT MaxTransactions

VARIABLE count      \* the transactions started so far

MCInit == Init /\ count = 0

MCNext ==
    \/ /\ count < MaxTransactions
       /\ BorrowerTransaction \/ LiquidatorTransaction \/ RedeemerTransaction
          \/ DepositorTransaction
       /\ count' = count + 1
    \/ (Continue \/ \E p \in Prices : setPrice(p)) /\ UNCHANGED count

MCSpec == MCInit /\ [][MCNext]_<<vars, count>>

(* A transaction in progress runs to its end: the code is not interruptible. *)
MCFairSpec == MCSpec /\ WF_<<vars, count>>(Continue /\ UNCHANGED count)

Symmetry == Permutations(Borrowers)
=============================================================================
