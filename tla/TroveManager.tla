---------------------------- MODULE TroveManager ----------------------------
(***************************************************************************)
(* Liquidation (TroveManager.sol): liquidateTroves walks the sorted list   *)
(* from its tail, batchLiquidateTroves (and liquidate) a given array.  One *)
(* step per trove tallies what the trove yields and closes it; a last step *)
(* settles the totals with the Stability Pool, the remaining troves, the   *)
(* CollSurplusPool and the liquidator.                                     *)
(***************************************************************************)
EXTENDS TroveManagerBase

(* struct LiquidationValues, and LiquidationTotals *)
LiquidationFields == {"entireTroveDebt", "entireTroveColl",
                      "collGasCompensation", "ZUSDGasCompensation",
                      "debtToOffset", "collToSendToSP",
                      "debtToRedistribute", "collToRedistribute", "collSurplus"}
zeroVals == [f \in LiquidationFields |-> 0]

(* A slip: the surplus of the last trove replaces that of the others. *)
totalsWithLastSurplus(totals, v) ==
    [f \in LiquidationFields |-> IF f = "collSurplus" THEN v[f] ELSE totals[f] + v[f]]

addLiquidationValuesToTotals(totals, v) == [f \in LiquidationFields |-> totals[f] + v[f]]

(* A slip: the debt that is offset is redistributed as well. *)
redistributeWholeDebt(b, debtToOffset) ==
    LET gasCompensation == getCollGasCompensation(entireColl(b))
        coll == entireColl(b) - gasCompensation
    IN  [zeroVals EXCEPT !.entireTroveDebt = entireDebt(b),
                         !.entireTroveColl = entireColl(b),
                         !.collGasCompensation = gasCompensation,
                         !.ZUSDGasCompensation = ZUSD_GAS_COMPENSATION,
                         !.debtToOffset = debtToOffset,
                         !.debtToRedistribute = entireDebt(b),
                         !.collToRedistribute = coll]

(* A trove's debt and collateral split into debtToOffset against the       *)
(* deposits in the Stability Pool and a remainder to redistribute.         *)
getOffsetAndRedistributionVals(b, debtToOffset) ==
    LET gasCompensation == getCollGasCompensation(entireColl(b))
        coll == entireColl(b) - gasCompensation
        collToSendToSP == (coll * debtToOffset) \div entireDebt(b)
    IN  [entireTroveDebt |-> entireDebt(b),
         entireTroveColl |-> entireColl(b),
         collGasCompensation |-> gasCompensation,
         ZUSDGasCompensation |-> ZUSD_GAS_COMPENSATION,
         debtToOffset |-> debtToOffset,
         collToSendToSP |-> collToSendToSP,
         debtToRedistribute |-> entireDebt(b) - debtToOffset,
         collToRedistribute |-> coll - collToSendToSP,
         collSurplus |-> 0]

(* The whole debt is offset, at no more than MCR; the owner keeps the rest. *)
getCappedOffsetVals(b) ==
    LET collToOffset == (entireDebt(b) * MCR) \div price
        gasCompensation == getCollGasCompensation(collToOffset)
    IN  [entireTroveDebt |-> entireDebt(b),
         entireTroveColl |-> entireColl(b),
         collGasCompensation |-> gasCompensation,
         ZUSDGasCompensation |-> ZUSD_GAS_COMPENSATION,
         debtToOffset |-> entireDebt(b),
         collToSendToSP |-> collToOffset - gasCompensation,
         debtToRedistribute |-> 0,
         collToRedistribute |-> 0,
         collSurplus |-> entireColl(b) - collToOffset]

liquidateNormalMode(b, ZUSDInStabPool) ==
    getOffsetAndRedistributionVals(b, min(entireDebt(b), ZUSDInStabPool))

(* A slip: the last trove is not spared. *)
liquidateLastToo(b, ICR, ZUSDInStabPool, TCR) ==
    IF ICR < MCR THEN liquidateNormalMode(b, ZUSDInStabPool) ELSE zeroVals

liquidateRecoveryMode(b, ICR, ZUSDInStabPool, TCR) ==
    IF Len(TroveOwners) <= 1 THEN zeroVals
    ELSE IF ICR <= DECIMAL_PRECISION THEN getOffsetAndRedistributionVals(b, 0)
    ELSE IF ICR < MCR THEN liquidateNormalMode(b, ZUSDInStabPool)
    ELSE IF ICR < TCR /\ entireDebt(b) <= ZUSDInStabPool THEN getCappedOffsetVals(b)
    ELSE zeroVals
-----------------------------------------------------------------------------
(* The loops.  tx.array is the part of the batch still to visit; the       *)
(* sequences use tx.user and tx.left instead.                              *)

startLiquidation(batch, array, n) ==
    /\ tx = Idle
    /\ TroveOwners # << >>
    /\ tx' = [op |-> "liquidate", batch |-> batch, array |-> array,
              user |-> last(sortedTroves), firstUser |-> sortedTroves[1], left |-> n,
              recoveryModeAtStart |-> checkRecoveryMode, backToNormalMode |-> FALSE,
              remainingZUSDInStabPool |-> zusd.stabilityPool,
              entireSystemDebt |-> getEntireSystemDebt,
              entireSystemColl |-> getEntireSystemColl,
              totals |-> zeroVals, saved |-> saved]
    /\ UNCHANGED <<contracts, price>>

liquidateTroves(n) == startLiquidation(FALSE, << >>, n)

batchLiquidateTroves(array) == array # << >> /\ startLiquidation(TRUE, array, 0)

liquidate(b) == isActive(b) /\ batchLiquidateTroves(<<b>>)

inRecoveryMode == tx.recoveryModeAtStart /\ ~tx.backToNormalMode

(* The trove that the next iteration visits. *)
visited ==
    IF tx.batch THEN tx.array[1]
    ELSE IF tx.recoveryModeAtStart THEN tx.user
    ELSE last(sortedTroves)

(* The conditions under which the body of a loop passes over a trove: a    *)
(* sequence ends there, a batch goes on to its next entry.                 *)
passesOver(b) ==
    \/ getCurrentICR(b) >= MCR /\ (inRecoveryMode => tx.remainingZUSDInStabPool = 0)
    \/ tx.batch /\ tx.recoveryModeAtStart /\ ~isActive(b)

looping ==
    /\ tx.op = "liquidate"
    /\ IF tx.batch THEN tx.array # << >>
       ELSE /\ tx.left > 0
            /\ tx.recoveryModeAtStart => tx.user # tx.firstUser
            /\ ~passesOver(visited)

singleLiquidation(b) ==
    IF passesOver(b) THEN zeroVals
    ELSE IF inRecoveryMode
    THEN liquidateRecoveryMode(b, getCurrentICR(b), tx.remainingZUSDInStabPool,
                               computeCR(tx.entireSystemColl, tx.entireSystemDebt, price))
    ELSE liquidateNormalMode(b, tx.remainingZUSDInStabPool)

(* The system's collateral as the loop tracks it: the batch forgets that   *)
(* the surplus leaves the system as well.                                  *)
collAfter(v) ==
    tx.entireSystemColl - v.collToSendToSP - (IF tx.batch THEN 0 ELSE v.collSurplus)

(* A slip: the pools are asked, which are only settled after the loop. *)
systemInRecoveryMode(coll, debt) == checkRecoveryMode

checkPotentialRecoveryMode(coll, debt) == computeCR(coll, debt, price) < CCR

(* A slip: the loop does not move on. *)
tallyOnly(b, v) == [tx EXCEPT !.totals = addLiquidationValuesToTotals(tx.totals, v)]

(* The locals after the iteration for b that yielded v. *)
advance(b, v) ==
    LET debt == tx.entireSystemDebt - v.debtToOffset
        tracks == inRecoveryMode /\ ~passesOver(b)
    IN  [tx EXCEPT
           !.array = IF tx.batch THEN SubSeq(tx.array, 2, Len(tx.array)) ELSE << >>,
           !.user = getPrev(b),
           !.left = IF tx.batch THEN 0 ELSE tx.left - 1,
           !.remainingZUSDInStabPool = tx.remainingZUSDInStabPool - v.debtToOffset,
           !.entireSystemDebt = IF tracks THEN debt ELSE tx.entireSystemDebt,
           !.entireSystemColl = IF tracks THEN collAfter(v) ELSE tx.entireSystemColl,
           !.backToNormalMode = IF tracks THEN ~checkPotentialRecoveryMode(collAfter(v), debt)
                                ELSE tx.backToNormalMode,
           !.totals = addLiquidationValuesToTotals(tx.totals, v)]

(* One iteration that leaves the trove alone. *)
skipTrove ==
    /\ looping
    /\ singleLiquidation(visited) = zeroVals
    /\ tx' = advance(visited, zeroVals)
    /\ UNCHANGED <<contracts, price>>

(* One iteration that liquidates the trove: its pending rewards move to    *)
(* the ActivePool, the trove is closed and its surplus recorded.           *)
liquidateTrove ==
    LET b == visited
        v == singleLiquidation(b)
    IN  /\ looping
        /\ v # zeroVals
        /\ requireMoreThanOneTroveInSystem
        /\ activePool' = adding(activePool, getPendingETHReward(b), getPendingZUSDDebtReward(b))
        /\ defaultPool' = adding(defaultPool, -getPendingETHReward(b),
                                              -getPendingZUSDDebtReward(b))
        /\ closeTrove(b, "closedByLiquidation")
        /\ surplus' = [surplus EXCEPT !.balances =
                         [surplus.balances EXCEPT ![b] = surplus.balances[b] + v.collSurplus]]
        /\ tx' = advance(b, v)
        /\ UNCHANGED <<rewards, zusd, price>>
-----------------------------------------------------------------------------
(* Settlement *)

(* A slip: rounded to the nearest. *)
perUnitStakedToNearest(amount, error) ==
    (amount * DECIMAL_PRECISION + error + stakes.total \div 2) \div stakes.total

(* One of the two accumulators of _redistributeDebtAndColl, with the error *)
(* of the previous division fed back into the numerator.                   *)
perUnitStaked(amount, error) == (amount * DECIMAL_PRECISION + error) \div stakes.total
errorAfter(amount, error) == (amount * DECIMAL_PRECISION + error) % stakes.total

redistributeDebtAndColl(debt, coll) ==
    IF debt = 0 THEN rewards
    ELSE [L_ETH |-> rewards.L_ETH + perUnitStaked(coll, rewards.ETHError),
          L_ZUSDDebt |-> rewards.L_ZUSDDebt + perUnitStaked(debt, rewards.ZUSDDebtError),
          ETHError |-> errorAfter(coll, rewards.ETHError),
          ZUSDDebtError |-> errorAfter(debt, rewards.ZUSDDebtError)]

(* StabilityPool.offset does nothing without deposits or debt. *)
offsetsDebt == zusd.stabilityPool # 0 /\ tx.totals.debtToOffset # 0

requireLiquidation ==
    /\ tx.totals.entireTroveDebt > 0
    /\ tx.totals.debtToRedistribute > 0 => stakes.total > 0

(* A slip: the liquidator is paid, the GasPool does not pay. *)
mintGasCompensation(z, amount) == [z EXCEPT !.users = z.users + amount]

sendGasCompensation(z, amount) ==
    [z EXCEPT !.users = z.users + amount, !.gasPool = z.gasPool - amount]

finishLiquidation ==
    LET t == tx.totals
        collToSP == IF offsetsDebt THEN t.collToSendToSP ELSE 0
        debtToSP == IF offsetsDebt THEN t.debtToOffset ELSE 0
        collToShare == IF t.debtToRedistribute = 0 THEN 0 ELSE t.collToRedistribute
    IN  /\ tx.op = "liquidate" /\ ~looping
        /\ requireLiquidation
        /\ rewards' = redistributeDebtAndColl(t.debtToRedistribute, t.collToRedistribute)
        /\ activePool' = adding(activePool,
                                -(collToSP + collToShare + t.collSurplus + t.collGasCompensation),
                                -(debtToSP + t.debtToRedistribute))
        /\ defaultPool' = adding(defaultPool, collToShare, t.debtToRedistribute)
        /\ surplus' = [surplus EXCEPT !.ETH = surplus.ETH + t.collSurplus]
        /\ stakes' = [stakes EXCEPT !.totalSnapshot = stakes.total,
                                    !.collateralSnapshot = activePool'.ETH + defaultPool'.ETH]
        /\ zusd' = sendGasCompensation(
                       [zusd EXCEPT !.stabilityPool = zusd.stabilityPool - debtToSP],
                       t.ZUSDGasCompensation)
        /\ tx' = Idle
        /\ UNCHANGED <<Troves, TroveOwners, sortedTroves, price>>

(* A require in the loop or before the settlement fails. *)
revertLiquidation ==
    /\ tx.op = "liquidate"
    /\ IF looping
       THEN singleLiquidation(visited) # zeroVals /\ ~requireMoreThanOneTroveInSystem
       ELSE ~requireLiquidation
    /\ restore
=============================================================================
