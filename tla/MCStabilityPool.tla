--------------------------- MODULE MCStabilityPool ---------------------------
(* A bound on the number of calls for TLC, what the pool's rounding has     *)
(* come to so far and what it has missed.  Changes of the troves are not    *)
(* counted.                                                                 *)
EXTENDS StabilityPool, TLC

CONSTANT MaxCalls

VARIABLES
    calls,          \* the calls made so far
    peak,           \* the most ZUSD the pool has ever held
    covered,        \* the claims on the pool were always within its ZUSD
    missed          \* the ZERO issued while there were no deposits

(* What a stake is worth before the divisions round down, rounded up. *)
worth(initialStake, snapshot) ==
    LET scaleDiff == pool.scale - snapshot.scale
        divisor == snapshot.P * (IF scaleDiff = 1 THEN SCALE_FACTOR ELSE 1)
    IN  IF initialStake = 0 \/ snapshot.epoch < pool.epoch \/ scaleDiff > 1 THEN 0
        ELSE (initialStake * pool.P + divisor - 1) \div divisor

(* The gains of a tag are paid for its deposits and for its stake. *)
claim(tag) ==
    LET tagged == {u \in Users : deposits[u].frontEndTag = tag}
        depositWorth(u) == worth(deposits[u].initialValue, depositSnapshots[u])
    IN  Max({MapThenSumSet(depositWorth, tagged),
             worth(frontEndStakes[tag], frontEndSnapshots[tag])})

Covered == MapThenSumSet(claim, Users \cup {NULL}) <= pool.totalZUSDDeposits

MCInit == Init /\ calls = 0 /\ peak = 0 /\ covered = TRUE /\ missed = 0

MCNext ==
    \/ /\ calls < MaxCalls
       /\ Deposit \/ Withdraw \/ Liquidation \/ Register
       /\ calls' = calls + 1
       /\ peak' = Max({peak, pool'.totalZUSDDeposits})
       /\ covered' = (covered /\ Covered')
       /\ missed' = missed + (IF pool.totalZUSDDeposits = 0
                              THEN issuance'.issued - issuance.issued ELSE 0)
    \/ trovesChange /\ UNCHANGED <<calls, peak, covered, missed>>

MCSpec == MCInit /\ [][MCNext]_<<vars, calls, peak, covered, missed>>

Symmetry == Permutations(Users)

(* Liquidations that take little of the pool, that leave some of it, that   *)
(* empty it, and that take it across a scale.                               *)
FewOffsets ==
    {[debt |-> 8, coll |-> 7], [debt |-> 73, coll |-> 9], [debt |-> 97, coll |-> 5],
     [debt |-> 137, coll |-> 20]}
-----------------------------------------------------------------------------
(* What the depositors may withdraw exceeds the ZUSD of the pool by        *)
(* rounding at most: by 1e-18 of the most it ever held.                    *)
DepositsCoveredUpToRounding ==
    MapThenSumSet(getCompoundedZUSDDeposit, Users)
        <= pool.totalZUSDDeposits + peak \div DECIMAL_PRECISION + 1

(* The collateral gains promised to all depositors are in the pool, so     *)
(* that ETH.sub in _sendETHGainTo does not revert for the last of them,    *)
(* unless rounding has let the deposits outgrow the pool's ZUSD before.    *)
GainsCovered == covered => MapThenSumSet(getDepositorETHGain, Users) <= pool.ETH

(* ZERO sent and ZERO still owed to depositors and front ends never exceed *)
(* what was issued to deposits: sendZERO does not run out of balance, and  *)
(* what was issued without deposits is missed out on, not handed to later  *)
(* depositors.  Under the same proviso.                                    *)
IssuanceCovered ==
    LET owed(u) == getDepositorZEROGain(u, deposits[u].frontEndTag, pool)
                    + getFrontEndZEROGain(u, pool)
    IN  covered => issuance.sent + MapThenSumSet(owed, Users) <= issuance.issued - missed
=============================================================================
