-------------------------------- MODULE Trove --------------------------------
(***************************************************************************)
(* The SDK's algebra of troves (lib-base/src/Trove.ts): the change that    *)
(* turns one trove into another, as a borrower would send it, and the      *)
(* trove that results from a change.  The front end, the hints and the fee *)
(* limits of every transaction are computed with it.                       *)
(*                                                                         *)
(* A change is a record; an absent parameter is 0, which is what           *)
(* _normalizeTroveAdjustment makes of it.  Throws is the result of a       *)
(* method that throws.                                                     *)
(***************************************************************************)
EXTENDS Decimal

CONSTANTS
    MINIMUM_COLLATERAL_RATIO,
    CRITICAL_COLLATERAL_RATIO,
    ZUSD_LIQUIDATION_RESERVE,
    ZUSD_MINIMUM_NET_DEBT

ASSUME TroveAssumption ==
    /\ MINIMUM_COLLATERAL_RATIO \in Nat /\ CRITICAL_COLLATERAL_RATIO \in Nat
    /\ ZUSD_LIQUIDATION_RESERVE \in Nat \ {0} /\ ZUSD_MINIMUM_NET_DEBT \in Nat

ZUSD_MINIMUM_DEBT == ZUSD_LIQUIDATION_RESERVE + ZUSD_MINIMUM_NET_DEBT

Trove(collateral, debt) == [collateral |-> collateral, debt |-> debt]
emptyTrove == Trove(0, 0)
isEmpty(t) == t.collateral = 0 /\ t.debt = 0

Throws == [type |-> "throws"]
undefined == [type |-> "undefined"]

(* Only where t.debt is no less than the reserve: the getter throws below. *)
netDebtOf(t) == t.debt - ZUSD_LIQUIDATION_RESERVE

collateralRatio(t, price) == mulDiv(t.collateral, price, t.debt)
collateralRatioIsBelowMinimum(t, price) == collateralRatio(t, price) < MINIMUM_COLLATERAL_RATIO
collateralRatioIsBelowCritical(t, price) == collateralRatio(t, price) < CRITICAL_COLLATERAL_RATIO
isOpenableInRecoveryMode(t, price) == collateralRatio(t, price) >= CRITICAL_COLLATERAL_RATIO

addTrove(t, u) == Trove(t.collateral + u.collateral, t.debt + u.debt)
subtractTrove(t, u) == Trove(monus(t.collateral, u.collateral), monus(t.debt, u.debt))

applyFee(borrowingRate, debtIncrease) == mul(debtIncrease, ONE + borrowingRate)
unapplyFee(borrowingRate, debtIncrease) == divCeil(debtIncrease, ONE + borrowingRate)

(* TroveAdjustmentParams *)
Params(depositCollateral, withdrawCollateral, borrowZUSD, repayZUSD) ==
    [depositCollateral |-> depositCollateral, withdrawCollateral |-> withdrawCollateral,
     borrowZUSD |-> borrowZUSD, repayZUSD |-> repayZUSD]

invalidCreation(t) == [type |-> "invalidCreation", invalidTrove |-> t]
troveCreation(deposit, borrow) == [type |-> "creation", params |-> Params(deposit, 0, borrow, 0)]
troveClosure(withdraw, repay) == [type |-> "closure", params |-> Params(0, withdraw, 0, repay)]
troveAdjustment(params, setToZero) ==
    [type |-> "adjustment", params |-> params, setToZero |-> setToZero]

(* _debtChange and _collateralChange; equal debts or collateral change     *)
(* nothing.                                                                *)
adjustmentParams(t, u, borrowingRate) ==
    Params(monus(u.collateral, t.collateral), monus(t.collateral, u.collateral),
           IF u.debt > t.debt THEN unapplyFee(borrowingRate, u.debt - t.debt) ELSE 0,
           monus(t.debt, u.debt))

(* Which side the edit empties: only one that it changes counts. *)
setToZeroOf(t, u) ==
    IF u.debt = 0 /\ u.debt # t.debt THEN "debt"
    ELSE IF u.collateral = 0 /\ u.collateral # t.collateral THEN "collateral" ELSE "none"

whatChanged(t, u, borrowingRate) ==
    CASE t = u -> undefined
      [] t # u /\ isEmpty(t) ->
            IF u.debt < ZUSD_LIQUIDATION_RESERVE THEN invalidCreation(u)
            ELSE troveCreation(u.collateral, unapplyFee(borrowingRate, netDebtOf(u)))
      [] t # u /\ ~isEmpty(t) /\ isEmpty(u) ->
            IF t.debt < ZUSD_LIQUIDATION_RESERVE THEN Throws
            ELSE troveClosure(t.collateral, netDebtOf(t))
      [] OTHER -> troveAdjustment(adjustmentParams(t, u, borrowingRate), setToZeroOf(t, u))

(* The adjustment of a trove: what comes in is added before what goes out  *)
(* is taken, and nothing falls below zero.                                 *)
adjusted(t, change, borrowingRate) ==
    LET p == change.params
        increase == Trove(p.depositCollateral, applyFee(borrowingRate, p.borrowZUSD))
        decrease == Trove(p.withdrawCollateral, p.repayZUSD)
        result == subtractTrove(addTrove(t, increase), decrease)
    IN  CASE change.setToZero = "collateral" -> [result EXCEPT !.collateral = 0]
          [] change.setToZero = "debt" -> [result EXCEPT !.debt = 0]
          [] OTHER -> result

apply(t, change, borrowingRate) ==
    CASE change.type = "undefined" -> t
      [] change.type = "invalidCreation" -> IF isEmpty(t) THEN change.invalidTrove ELSE Throws
      [] change.type = "creation" ->
            IF isEmpty(t)
            THEN Trove(change.params.depositCollateral,
                       ZUSD_LIQUIDATION_RESERVE + applyFee(borrowingRate, change.params.borrowZUSD))
            ELSE Throws
      [] change.type = "closure" -> IF isEmpty(t) THEN Throws ELSE emptyTrove
      [] change.type = "adjustment" -> adjusted(t, change, borrowingRate)

(* TroveWithPendingRedistribution.applyRedistribution *)
applyRedistribution(t, stake, totalRedistributed, snapshot) ==
    LET share == subtractTrove(totalRedistributed, snapshot)
    IN  addTrove(t, Trove(mul(share.collateral, stake), mul(share.debt, stake)))
=============================================================================
