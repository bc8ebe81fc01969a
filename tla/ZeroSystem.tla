----------------------------- MODULE ZeroSystem -----------------------------
(***************************************************************************)
(* The core of the protocol: borrowers, liquidators, redeemers and         *)
(* depositors issue transactions against the shared contracts in any       *)
(* order, and the price moves between them.                                *)
(*                                                                         *)
(* Of the Stability Pool this module has the total of the deposits; what   *)
(* each depositor owns of it is a matter of its own.                       *)
(***************************************************************************)
EXTENDS BorrowerOperations, TroveManager, TroveManagerRedeemOps

CONSTANTS
    Prices,             \* what the price feed may report
    OpenColl,           \* collateral a trove is opened with
    OpenZUSD,           \* ZUSD a trove is opened for
    AdjustColl,         \* collateral an adjustment adds or takes out
    AdjustZUSD,         \* ZUSD an adjustment borrows or repays
    BorrowingRates,     \* borrowing rates
    Deposits,           \* ZUSD moved into and out of the Stability Pool
    RedeemAmounts,      \* ZUSD redeemed
    RedemptionRates,    \* redemption rates
    MaxBatch            \* length of the arrays given to batchLiquidateTroves

ASSUME InputsAssumption ==
    /\ Prices \subseteq Nat \ {0} /\ Prices # {}
    /\ OpenColl \subseteq Nat /\ OpenZUSD \subseteq Nat
    /\ AdjustColl \subseteq Nat /\ AdjustZUSD \subseteq Nat
    /\ BorrowingRates \subseteq Nat
    /\ Deposits \subseteq Nat /\ RedeemAmounts \subseteq Nat
    /\ RedemptionRates \subseteq Nat
    /\ MaxBatch \in Nat

Init == InitContracts /\ price \in Prices

setPrice(p) ==
    /\ tx = Idle
    /\ price' = p
    /\ UNCHANGED <<contracts, tx>>

provideToSP(amount) ==
    /\ tx = Idle
    /\ amount > 0
    /\ zusd.users >= amount
    /\ zusd' = [zusd EXCEPT !.users = zusd.users - amount,
                            !.stabilityPool = zusd.stabilityPool + amount]
    /\ UNCHANGED <<Troves, TroveOwners, sortedTroves, stakes, rewards,
                   activePool, defaultPool, surplus, price, tx>>

(* A slip: the trove at the head is asked. *)
requireFirstTroveCollateralized ==
    sortedTroves # << >> => getCurrentICR(sortedTroves[1]) >= MCR

(* The trove at the tail stands for all of them. *)
requireNoUnderCollateralizedTroves ==
    sortedTroves # << >> => getCurrentICR(last(sortedTroves)) >= MCR

withdrawFromSP(amount) ==
    /\ tx = Idle
    /\ amount # 0 => requireNoUnderCollateralizedTroves
    /\ zusd.stabilityPool >= amount
    /\ zusd' = [zusd EXCEPT !.users = zusd.users + amount,
                            !.stabilityPool = zusd.stabilityPool - amount]
    /\ UNCHANGED <<Troves, TroveOwners, sortedTroves, stakes, rewards,
                   activePool, defaultPool, surplus, price, tx>>

Batches == UNION {[1 .. n -> Borrowers] : n \in 1 .. MaxBatch}

BorrowerTransaction ==
    \E b \in Borrowers :
        \/ \E coll \in OpenColl, amount \in OpenZUSD, rate \in BorrowingRates :
              openTrove(b, coll, amount, rate)
        \/ \E collIn, collOut \in AdjustColl \cup {0}, amount \in AdjustZUSD \cup {0},
              rate \in BorrowingRates, isDebtIncrease \in BOOLEAN :
              adjustTrove(b, collIn, collOut, amount, isDebtIncrease, rate)
        \/ closeOwnTrove(b)
        \/ claimCollateral(b)

LiquidatorTransaction ==
    \/ \E n \in 1 .. Cardinality(Borrowers) : liquidateTroves(n)
    \/ \E array \in Batches : batchLiquidateTroves(array)
    \/ \E b \in Borrowers : liquidate(b)

RedeemerTransaction ==
    \E amount \in RedeemAmounts, hint \in Borrowers \cup {NULL},
       maxIterations \in 0 .. 1, rate \in RedemptionRates :
        redeemCollateral(amount, hint, maxIterations, rate)

DepositorTransaction ==
    \E amount \in Deposits : provideToSP(amount) \/ withdrawFromSP(amount)

(* An iteration, the end or the revert of the transaction in progress. *)
Continue ==
    \/ liquidateTrove \/ skipTrove \/ finishLiquidation \/ revertLiquidation
    \/ redeemWholeTrove \/ redeemPartOfTrove \/ cancelPartial
    \/ finishRedemption \/ revertRedemption

Next ==
    \/ BorrowerTransaction
    \/ LiquidatorTransaction
    \/ RedeemerTransaction
    \/ DepositorTransaction
    \/ \E p \in Prices : setPrice(p)
    \/ Continue

Spec == Init /\ [][Next]_vars

(* A transaction that started runs to its end. *)
FairSpec == Spec /\ WF_vars(Continue)
-----------------------------------------------------------------------------
(* Properties *)

Active == {b \in Borrowers : isActive(b)}

Liquidating == tx.op = "liquidate"
Redeeming == tx.op = "redeem"

(* Collateral and ZUSD that the transaction in progress has taken from     *)
(* troves and not yet settled with the pools.                              *)
UnsettledColl ==
    IF Liquidating THEN tx.totals.entireTroveColl ELSE IF Redeeming THEN tx.totalETHDrawn ELSE 0
UnsettledDebt ==
    IF Liquidating THEN tx.totals.entireTroveDebt
    ELSE IF Redeeming THEN tx.totalZUSDToRedeem ELSE 0
UnsettledReserve == IF Liquidating THEN tx.totals.ZUSDGasCompensation ELSE 0
UnsettledSurplus == IF Liquidating THEN tx.totals.collSurplus ELSE 0

TroveType == [status : Status, debt : Nat, coll : Nat, stake : Nat, arrayIndex : Nat,
              ETH : Nat, ZUSDDebt : Nat]

(* The types of the contracts' storage.  That every amount is a natural    *)
(* number says that no subtraction of a pool balance, of a stake or of     *)
(* collateral ever underflows, so that none of SafeMath's reverts blocks a *)
(* liquidation, a redemption or a borrower.  The last conjunct is the      *)
(* assertion of _computeNewStake: with a collateral snapshot to divide by  *)
(* there is a stake snapshot to scale with.                                *)
TypeOK ==
    /\ Troves \in [Borrowers -> TroveType]
    /\ TroveOwners \in Seq(Borrowers)
    /\ sortedTroves \in Seq(Borrowers)
    /\ stakes \in [total : Nat, totalSnapshot : Nat, collateralSnapshot : Nat]
    /\ rewards \in [L_ETH : Nat, L_ZUSDDebt : Nat, ETHError : Nat, ZUSDDebtError : Nat]
    /\ activePool \in [ETH : Nat, ZUSDDebt : Nat]
    /\ defaultPool \in [ETH : Nat, ZUSDDebt : Nat]
    /\ surplus \in [ETH : Nat, balances : [Borrowers -> Nat]]
    /\ zusd \in [users : Nat, gasPool : Nat, stabilityPool : Nat]
    /\ price \in Prices
    /\ tx.op \in {"none", "liquidate", "redeem"}
    /\ stakes.collateralSnapshot > 0 => stakes.totalSnapshot > 0

(* Every ZUSD in circulation is owed by a trove, and every debt is in      *)
(* circulation: what is minted, burned, offset and redistributed keeps the *)
(* token's supply equal to the debt of the two pools.                      *)
SupplyIsDebt ==
    zusd.users + zusd.gasPool + zusd.stabilityPool
      = activePool.ZUSDDebt + defaultPool.ZUSDDebt

(* The ActivePool holds exactly the recorded collateral and debt of the    *)
(* active troves, and what the transaction in progress is about to settle: *)
(* pending rewards, partial redemptions and liquidations lose nothing.     *)
ActivePoolHoldsTroves ==
    /\ activePool.ETH = SumFunction([b \in Borrowers |-> Troves[b].coll]) + UnsettledColl
    /\ activePool.ZUSDDebt = SumFunction([b \in Borrowers |-> Troves[b].debt]) + UnsettledDebt

(* The DefaultPool covers the pending collateral of all troves together    *)
(* with the rounding error carried to the next redistribution: however     *)
(* often rewards accrued and were applied, rounding never promises more    *)
(* than was redistributed.                                                 *)
DefaultPoolCoversETH ==
    SumFunction([b \in Borrowers |-> Troves[b].stake * (rewards.L_ETH - Troves[b].ETH)])
      + rewards.ETHError
      <= DECIMAL_PRECISION * defaultPool.ETH

(* The same of the pending debt, though the code asks only the collateral  *)
(* whether a trove has pending rewards.                                    *)
DefaultPoolCoversDebt ==
    SumFunction([b \in Borrowers |-> Troves[b].stake * (rewards.L_ZUSDDebt - Troves[b].ZUSDDebt)])
      + rewards.ZUSDDebtError
      <= DECIMAL_PRECISION * defaultPool.ZUSDDebt

(* totalStakes, the divisor of every redistribution, is the sum of the     *)
(* stakes of the active troves.                                            *)
TotalStakesIsSum ==
    /\ stakes.total = SumFunction([b \in Borrowers |-> Troves[b].stake])
    /\ \A b \in Borrowers \ Active : Troves[b].stake = 0

(* The owners array, the index kept in each trove, the sorted list and the *)
(* status agree on which troves exist, through every swap-and-pop removal. *)
OwnersIndexed ==
    /\ Len(TroveOwners) = Cardinality(Active)
    /\ Len(sortedTroves) = Cardinality(Active)
    /\ \A b \in Active :
          /\ indexOf(b) \in 1 .. Len(TroveOwners) /\ TroveOwners[indexOf(b)] = b
          /\ \E i \in 1 .. Len(sortedTroves) : sortedTroves[i] = b

(* The GasPool holds one liquidation reserve for each active trove: none   *)
(* is paid twice, and none is left behind by a closing or a redemption.    *)
ReservePerTrove ==
    zusd.gasPool = ZUSD_GAS_COMPENSATION * Len(TroveOwners) + UnsettledReserve

(* The CollSurplusPool can pay every claim on it at once. *)
SurplusBacked ==
    surplus.ETH + UnsettledSurplus = SumFunction(surplus.balances)

(* Every active trove owes at least the minimum net debt on top of its     *)
(* reserve, after any mix of repayments, redistributions and partial       *)
(* redemptions; so closing, redeeming and liquidating it divides by a      *)
(* positive debt.                                                          *)
DebtAboveMinimum == \A b \in Active : getNetDebt(Troves[b].debt) >= MIN_NET_DEBT

(* The sorted list is in descending order of the current NICRs, as the     *)
(* header of SortedTroves.sol has it: "Thus, Nodes remain sorted by        *)
(* current NICR".                                                          *)
ListInOrder ==
    \A i \in 1 .. Len(sortedTroves) - 1 :
        getNominalICR(sortedTroves[i]) >= getNominalICR(sortedTroves[i + 1])

(* A trove's collateral and debt before the roundings, at best. *)
collAtMost(b) == entireColl(b) + 1
debtAtLeast(b) == entireDebt(b) - 1

(* Out of order by no more than the roundings of a trove's stake and of    *)
(* its pending rewards: liquidateTroves and redeemCollateral, which take   *)
(* the list for sorted, pass over no trove that is worse by more.          *)
ListInOrderUpToRounding ==
    \A i, j \in 1 .. Len(sortedTroves) :
        i < j => computeNominalCR(collAtMost(sortedTroves[i]), debtAtLeast(sortedTroves[i]))
                   >= getNominalICR(sortedTroves[j])

(* Once there is a trove there is always one: the system never reaches the *)
(* state without stakes in which a redistribution would divide by zero.    *)
LastTroveStays == [][TroveOwners # << >> => TroveOwners' # << >>]_vars

(* As long as the price stands still, borrowers do not bring about         *)
(* Recovery Mode, and in Recovery Mode they never lower the total          *)
(* collateral ratio by more than a rounding: new debt must improve the     *)
(* borrower's own ratio, "and by extension improves the TCR".              *)
BorrowersKeepTCR ==
    [][tx = Idle /\ tx' = Idle /\ price' = price =>
          getTCR' >= CCR \/ getTCR' >= getTCR - 1]_vars

(* The ratio of the system when the liquidations of the transaction in     *)
(* progress are settled, as far as they concern depositors and owners.     *)
RunningTCR ==
    computeCR(getEntireSystemColl - tx.totals.collToSendToSP - tx.totals.collSurplus,
              getEntireSystemDebt - tx.totals.debtToOffset, price)

Liquidated(b) == isActive(b) /\ Troves'[b].status = "closedByLiquidation"

BelowTCR(b) ==
    \/ getCurrentICR(b) < MCR
    \/ getCurrentICR(b) < RunningTCR /\ RunningTCR < CCR

(* A trove is liquidated only below MCR, or in Recovery Mode below the     *)
(* "current TCR (accounting for the preceding liquidations in the current  *)
(* sequence)", as _liquidateRecoveryMode puts it.                          *)
LiquidatedBelowTCR == [][\A b \in Borrowers : Liquidated(b) => BelowTCR(b)]_vars

(* The same of liquidateTroves, which tracks every amount that leaves the  *)
(* system while it walks the list.                                         *)
SequenceLiquidatesBelowTCR ==
    [][\A b \in Borrowers : Liquidated(b) /\ ~tx.batch => BelowTCR(b)]_vars

(* A liquidation that has closed a trove is undone. *)
WorkUndone ==
    Liquidating /\ tx.totals.entireTroveDebt > 0 /\ tx' = Idle /\ Troves' # Troves

(* In Recovery Mode a batch tracks the system's collateral with the        *)
(* liquidator's compensation left in.  Once that sum has reached CCR it    *)
(* treats the rest as in Normal Mode, where the last trove is not passed   *)
(* over.                                                                   *)
BatchReachesLastTrove == tx.batch /\ tx.backToNormalMode /\ Len(TroveOwners) = 1

(* Rounding may leave no stakes, and then nobody to redistribute to. *)
NoStakesLeft == ~(stakes.total > 0)

(* A liquidation that has closed a trove goes through to the settlement,   *)
(* except in these two cases: no trove it meets on the way makes the guard *)
(* of the last trove or the division by the stakes undo the work.          *)
NoRevertAfterLiquidation ==
    [][WorkUndone => BatchReachesLastTrove \/ NoStakesLeft]_vars

ICRAtMost(b) == computeCR(collAtMost(b), debtAtLeast(b), price)

(* Deposits leave the Stability Pool only while no trove at all is below   *)
(* MCR by more than a rounding, though the code looks at the tail of the   *)
(* list alone.                                                             *)
DepositsStayForLiquidations ==
    [][tx = Idle /\ zusd'.stabilityPool < zusd.stabilityPool =>
          \A b \in Active : ICRAtMost(b) >= MCR]_vars

(* A redemption takes from a trove at or above MCR, and only when no other *)
(* such trove is lower by more than a rounding: first hints that are stale *)
(* or point into the middle of the list do not spare the lowest trove.  At *)
(* any trove the loop gets to there is collateral for the whole lot.       *)
RedeemsLowestFirst ==
    [][/\ redeeming => collCoversLot(applyPendingRewards(tx.user))
       /\ tx.op = "redeem" /\ tx'.op = "redeem" /\ tx'.totalZUSDToRedeem > tx.totalZUSDToRedeem =>
             /\ getCurrentICR(tx.user) >= MCR
             /\ \A b \in Active :
                   getCurrentICR(b) >= MCR => ICRAtMost(b) >= getCurrentICR(tx.user)]_vars

(* Every liquidation and every redemption comes to an end. *)
TransactionsEnd == (tx # Idle) ~> (tx = Idle)
=============================================================================
