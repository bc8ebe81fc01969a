------------------------ MODULE TroveManagerRedeemOps ------------------------
(***************************************************************************)
(* Redemption of ZUSD for collateral at face value, from the trove with    *)
(* the lowest ratio of at least MCR upwards                                *)
(* (Dependencies/TroveManagerRedeemOps.sol).  One step per trove, and a    *)
(* last one that burns the ZUSD and pays out the collateral.               *)
(*                                                                         *)
(* The hints of the caller may be stale.  The first redemption hint is an  *)
(* input; the partial redemption hint either equals the new NICR of the    *)
(* trove when the loop gets there, or it does not.  The rate of the fee is *)
(* an input as well.                                                       *)
(***************************************************************************)
EXTENDS TroveManagerBase

(* A slip: any trove at or above MCR will do. *)
isRedeemable(hint) ==
    hint # NULL /\ isActive(hint) /\ getCurrentICR(hint) >= MCR

isValidFirstRedemptionHint(hint) ==
    /\ hint # NULL
    /\ \E i \in 1 .. Len(sortedTroves) :
          /\ sortedTroves[i] = hint
          /\ getCurrentICR(hint) >= MCR
          /\ i # Len(sortedTroves) => getCurrentICR(sortedTroves[i + 1]) < MCR

(* The first trove from the tail with a ratio of at least MCR, or NULL. *)
firstRedeemable ==
    LET good == {i \in 1 .. Len(sortedTroves) : getCurrentICR(sortedTroves[i]) >= MCR}
    IN  IF good = {} THEN NULL ELSE sortedTroves[Max(good)]

(* maxIterations = 0 stands for no limit; no loop has more iterations than *)
(* there are borrowers.                                                    *)
redeemCollateral(ZUSDamount, firstHint, maxIterations, rate) ==
    /\ tx = Idle
    /\ getTCR >= MCR
    /\ ZUSDamount > 0
    /\ zusd.users >= ZUSDamount
    /\ tx' = [op |-> "redeem",
              user |-> IF isValidFirstRedemptionHint(firstHint) THEN firstHint
                       ELSE firstRedeemable,
              left |-> IF maxIterations = 0 THEN Cardinality(Borrowers) ELSE maxIterations,
              remainingZUSD |-> ZUSDamount, totalZUSDToRedeem |-> 0, totalETHDrawn |-> 0,
              rate |-> rate, saved |-> saved]
    /\ UNCHANGED <<contracts, price>>

redeeming ==
    tx.op = "redeem" /\ tx.user # NULL /\ tx.remainingZUSD > 0 /\ tx.left > 0

(* The lot taken from trove t, and the trove without it. *)
ZUSDLot(t) == min(tx.remainingZUSD, getNetDebt(t.debt))
ETHLot(t) == (ZUSDLot(t) * DECIMAL_PRECISION) \div price

(* A slip: the collateral stays recorded. *)
redeemedDebtOnly(t) == [t EXCEPT !.debt = t.debt - ZUSDLot(t)]

redeemed(t) == [t EXCEPT !.debt = t.debt - ZUSDLot(t), !.coll = t.coll - ETHLot(t)]

(* SafeMath refuses a lot that is worth more than the trove holds. *)
collCoversLot(t) == ETHLot(t) <= t.coll
closesTrove(t) == redeemed(t).debt = ZUSD_GAS_COMPENSATION

(* The locals after a lot was taken from t, the trove of the borrower b. *)
drawn(b, t) ==
    [tx EXCEPT !.user = getPrev(b),
               !.left = tx.left - 1,
               !.remainingZUSD = tx.remainingZUSD - ZUSDLot(t),
               !.totalZUSDToRedeem = tx.totalZUSDToRedeem + ZUSDLot(t),
               !.totalETHDrawn = tx.totalETHDrawn + ETHLot(t)]

(* The whole net debt is redeemed: the reserve in the GasPool pays the     *)
(* rest of the debt, what collateral is left goes to the CollSurplusPool.  *)
redeemWholeTrove ==
    LET b == tx.user
        t == applyPendingRewards(b)
        left == redeemed(t).coll
    IN  /\ redeeming
        /\ collCoversLot(t)
        /\ closesTrove(t)
        /\ requireMoreThanOneTroveInSystem
        /\ closeTrove(b, "closedByRedemption")
        /\ activePool' = adding(activePool, appliedETH(b) - left,
                                appliedZUSDDebt(b) - ZUSD_GAS_COMPENSATION)
        /\ defaultPool' = adding(defaultPool, -appliedETH(b), -appliedZUSDDebt(b))
        /\ surplus' = [ETH |-> surplus.ETH + left,
                       balances |-> [surplus.balances EXCEPT ![b] = surplus.balances[b] + left]]
        /\ zusd' = burnReserve(zusd)
        /\ tx' = drawn(b, t)
        /\ UNCHANGED <<rewards, price>>

(* A slip: the reserve counts towards the minimum. *)
leavesMinimumWithReserve(t) == t.debt >= MIN_NET_DEBT

leavesMinimum(t) == getNetDebt(t.debt) >= MIN_NET_DEBT

(* Part of the debt is redeemed, and the hint for the trove was up to date. *)
redeemPartOfTrove ==
    LET b == tx.user
        t == applyPendingRewards(b)
        u == staked(redeemed(t))
    IN  /\ redeeming
        /\ collCoversLot(t)
        /\ ~closesTrove(t)
        /\ leavesMinimum(u)
        /\ computeNominalCR(u.coll, u.debt) > 0
        /\ reInsert(b, computeNominalCR(u.coll, u.debt))
        /\ Troves' = [Troves EXCEPT ![b] = u]
        /\ stakes' = totalStakesAfter(t, u)
        /\ activePool' = adding(activePool, appliedETH(b), appliedZUSDDebt(b))
        /\ defaultPool' = adding(defaultPool, -appliedETH(b), -appliedZUSDDebt(b))
        /\ tx' = drawn(b, t)
        /\ UNCHANGED <<TroveOwners, rewards, surplus, zusd, price>>

(* The hint was out of date, or too little debt would be left: the loop    *)
(* ends.  The pending rewards of the trove stay applied.                   *)
cancelPartial ==
    LET b == tx.user
        t == applyPendingRewards(b)
    IN  /\ redeeming
        /\ collCoversLot(t)
        /\ ~closesTrove(t)
        /\ Troves' = [Troves EXCEPT ![b] = t]
        /\ activePool' = adding(activePool, appliedETH(b), appliedZUSDDebt(b))
        /\ defaultPool' = adding(defaultPool, -appliedETH(b), -appliedZUSDDebt(b))
        /\ tx' = [tx EXCEPT !.left = 0]
        /\ UNCHANGED <<TroveOwners, sortedTroves, stakes, rewards, surplus, zusd, price>>

(* _calcRedemptionFee: the fee may not eat up the collateral. *)
feeLeavesCollateral == (tx.rate * tx.totalETHDrawn) \div DECIMAL_PRECISION < tx.totalETHDrawn

(* The fee goes to the fee distributor and the rest to the redeemer: both  *)
(* leave the ActivePool.                                                   *)
finishRedemption ==
    /\ tx.op = "redeem" /\ ~redeeming
    /\ tx.totalETHDrawn > 0
    /\ feeLeavesCollateral
    /\ zusd' = [zusd EXCEPT !.users = zusd.users - tx.totalZUSDToRedeem]
    /\ activePool' = adding(activePool, -tx.totalETHDrawn, -tx.totalZUSDToRedeem)
    /\ tx' = Idle
    /\ UNCHANGED <<Troves, TroveOwners, sortedTroves, stakes, rewards,
                   defaultPool, surplus, price>>

(* A lot is not covered, the last trove cannot be closed, nothing was      *)
(* drawn, or the fee is too high.                                          *)
revertRedemption ==
    /\ tx.op = "redeem"
    /\ IF redeeming
       THEN LET t == applyPendingRewards(tx.user)
            IN  collCoversLot(t) => closesTrove(t) /\ ~requireMoreThanOneTroveInSystem
       ELSE tx.totalETHDrawn = 0 \/ ~feeLeavesCollateral
    /\ restore
=============================================================================
