------------------------- MODULE BorrowerOperations -------------------------
(***************************************************************************)
(* What a borrower does with their own trove (BorrowerOperations.sol):     *)
(* open it, adjust its collateral and debt, close it, and claim collateral *)
(* that a liquidation or a redemption left over.  Each is one action.      *)
(*                                                                         *)
(* The holders of ZUSD are not told apart: zusd.users is what borrowers,   *)
(* redeemers and the recipients of fees hold together, since the token can *)
(* be transferred between any two actions.  The borrowing rate is an       *)
(* input; the base rate it comes from is not part of this model.           *)
(***************************************************************************)
EXTENDS TroveManagerBase

calcBorrowingFee(rate, debt) == (rate * debt) \div DECIMAL_PRECISION

(* _triggerBorrowingFee: the fee on new debt, waived in Recovery Mode. *)
borrowingFee(rate, debt) == IF checkRecoveryMode THEN 0 ELSE calcBorrowingFee(rate, debt)

getNewTCRFromTroveChange(collChange, debtChange) ==
    computeCR(getEntireSystemColl + collChange, getEntireSystemDebt + debtChange, price)

requireAtLeastMinNetDebt(netDebt) == netDebt >= MIN_NET_DEBT

(* A slip: the wrong threshold. *)
requireNewTCRisAboveMCR(collChange, debtChange) ==
    getNewTCRFromTroveChange(collChange, debtChange) >= MCR

requireNewTCRisAboveCCR(collChange, debtChange) ==
    getNewTCRFromTroveChange(collChange, debtChange) >= CCR

openTrove(b, coll, ZUSDAmount, rate) ==
    LET netDebt == ZUSDAmount + borrowingFee(rate, ZUSDAmount)
        compositeDebt == getCompositeDebt(netDebt)
        ICR == computeCR(coll, compositeDebt, price)
        opened == staked([NoTrove EXCEPT !.status = "active",
                                         !.coll = coll, !.debt = compositeDebt,
                                         !.ETH = rewards.L_ETH,
                                         !.ZUSDDebt = rewards.L_ZUSDDebt,
                                         !.arrayIndex = Len(TroveOwners)])
    IN  /\ tx = Idle
        /\ ~isActive(b)
        /\ requireAtLeastMinNetDebt(netDebt)
        /\ IF checkRecoveryMode
           THEN ICR >= CCR
           ELSE ICR >= MCR /\ requireNewTCRisAboveCCR(coll, compositeDebt)
        /\ computeNominalCR(coll, compositeDebt) > 0
        /\ Troves' = [Troves EXCEPT ![b] = opened]
        /\ stakes' = totalStakesAfter(Troves[b], opened)
        /\ reInsert(b, computeNominalCR(coll, compositeDebt))
        /\ TroveOwners' = Append(TroveOwners, b)
        /\ activePool' = adding(activePool, coll, compositeDebt)
        /\ zusd' = [zusd EXCEPT !.users = zusd.users + netDebt,
                                !.gasPool = zusd.gasPool + ZUSD_GAS_COMPENSATION]
        /\ UNCHANGED <<rewards, defaultPool, surplus, price, tx>>

(* In Recovery Mode no collateral leaves, and new debt must improve the    *)
(* trove; in Normal Mode neither the trove nor the system may get too low. *)
requireValidAdjustmentInCurrentMode(collOut, isDebtIncrease, oldICR, newICR, dColl, dDebt) ==
    IF checkRecoveryMode
    THEN collOut = 0 /\ (isDebtIncrease => newICR >= CCR /\ newICR >= oldICR)
    ELSE newICR >= MCR /\ requireNewTCRisAboveCCR(dColl, dDebt)

(* addColl, withdrawColl, withdrawZUSD, repayZUSD, adjustTrove and         *)
(* moveETHGainToTrove: all of them are _adjustSenderTrove.                 *)
adjustTrove(b, collIn, collOut, ZUSDChange, isDebtIncrease, rate) ==
    LET t == applyPendingRewards(b)
        netDebtChange == IF isDebtIncrease THEN ZUSDChange + borrowingFee(rate, ZUSDChange)
                         ELSE ZUSDChange
        collChange == collIn - collOut
        debtChange == IF isDebtIncrease THEN netDebtChange ELSE -netDebtChange
        newColl == t.coll + collChange
        newDebt == t.debt + debtChange
        adjusted == staked([t EXCEPT !.coll = newColl, !.debt = newDebt])
    IN  /\ tx = Idle
        /\ isDebtIncrease => ZUSDChange > 0
        /\ collIn = 0 \/ collOut = 0
        /\ collIn # 0 \/ collOut # 0 \/ ZUSDChange # 0
        /\ isActive(b)
        /\ newColl >= 0 /\ newDebt >= 0
        /\ requireValidAdjustmentInCurrentMode(collOut, isDebtIncrease,
               computeCR(t.coll, t.debt, price), computeCR(newColl, newDebt, price),
               collChange, debtChange)
        /\ ~isDebtIncrease /\ ZUSDChange > 0 =>
              /\ requireAtLeastMinNetDebt(getNetDebt(t.debt) - netDebtChange)
              /\ zusd.users >= netDebtChange
        /\ computeNominalCR(newColl, newDebt) > 0
        /\ Troves' = [Troves EXCEPT ![b] = adjusted]
        /\ stakes' = totalStakesAfter(t, adjusted)
        /\ reInsert(b, computeNominalCR(newColl, newDebt))
        /\ activePool' = adding(activePool, appliedETH(b) + collChange,
                                            appliedZUSDDebt(b) + debtChange)
        /\ defaultPool' = adding(defaultPool, -appliedETH(b), -appliedZUSDDebt(b))
        /\ zusd' = [zusd EXCEPT !.users = zusd.users + debtChange]
        /\ UNCHANGED <<TroveOwners, rewards, surplus, price, tx>>

(* _closeTrove of BorrowerOperations, with the one of TroveManager in it. *)
closeOwnTrove(b) ==
    LET t == applyPendingRewards(b)
    IN  /\ tx = Idle
        /\ isActive(b)
        /\ ~checkRecoveryMode
        /\ zusd.users >= getNetDebt(t.debt)
        /\ requireNewTCRisAboveCCR(-t.coll, -t.debt)
        /\ requireMoreThanOneTroveInSystem
        /\ closeTrove(b, "closedByOwner")
        /\ activePool' = adding(activePool, appliedETH(b) - t.coll, appliedZUSDDebt(b) - t.debt)
        /\ defaultPool' = adding(defaultPool, -appliedETH(b), -appliedZUSDDebt(b))
        /\ zusd' = burnReserve([zusd EXCEPT !.users = zusd.users - getNetDebt(t.debt)])
        /\ UNCHANGED <<rewards, surplus, price, tx>>

(* CollSurplusPool.claimColl *)
claimCollateral(b) ==
    /\ tx = Idle
    /\ surplus.balances[b] > 0
    /\ surplus' = [ETH |-> surplus.ETH - surplus.balances[b],
                   balances |-> [surplus.balances EXCEPT ![b] = 0]]
    /\ UNCHANGED <<Troves, TroveOwners, sortedTroves, stakes, rewards,
                   activePool, defaultPool, zusd, price, tx>>
=============================================================================
