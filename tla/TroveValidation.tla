--------------------------- MODULE TroveValidation ---------------------------
(***************************************************************************)
(* Which edits of a trove the front end lets its user send                 *)
(* (dev-frontend/src/components/Trove/validation/validateTroveChange.tsx). *)
(*                                                                         *)
(* ctx is the part of the store that is selected for validation: price,    *)
(* total, accountBalance, zusdBalance and numberOfTroves.  Each validator  *)
(* holds when the code returns no error description.                       *)
(***************************************************************************)
EXTENDS Trove

(* A slip: the system as it is, not as the change would leave it. *)
triggersRecoveryModeNow(original, resulting, ctx) ==
    collateralRatioIsBelowCritical(ctx.total, ctx.price)

(* A slip: the trove is counted before and after the change. *)
addsToTotal(original, resulting, ctx) ==
    collateralRatioIsBelowCritical(addTrove(ctx.total, resulting), ctx.price)

wouldTriggerRecoveryMode(original, resulting, ctx) ==
    collateralRatioIsBelowCritical(addTrove(subtractTrove(ctx.total, original), resulting), ctx.price)

recoveryMode(ctx) == collateralRatioIsBelowCritical(ctx.total, ctx.price)

validateTroveCreation(params, original, resulting, ctx) ==
    /\ resulting.debt >= ZUSD_MINIMUM_DEBT
    /\ IF recoveryMode(ctx)
       THEN isOpenableInRecoveryMode(resulting, ctx.price)
       ELSE /\ ~collateralRatioIsBelowMinimum(resulting, ctx.price)
            /\ ~wouldTriggerRecoveryMode(original, resulting, ctx)
    /\ params.depositCollateral <= ctx.accountBalance

(* What new debt in recovery mode has to meet. *)
borrowsInRecoveryMode(original, resulting, ctx) ==
    /\ ~collateralRatioIsBelowCritical(resulting, ctx.price)
    /\ collateralRatio(resulting, ctx.price) >= collateralRatio(original, ctx.price)

validateTroveAdjustment(params, original, resulting, ctx) ==
    /\ IF recoveryMode(ctx)
       THEN /\ params.withdrawCollateral = 0
            /\ params.borrowZUSD > 0 => borrowsInRecoveryMode(original, resulting, ctx)
       ELSE /\ ~collateralRatioIsBelowMinimum(resulting, ctx.price)
            /\ ~wouldTriggerRecoveryMode(original, resulting, ctx)
    /\ params.repayZUSD > 0 =>
          /\ resulting.debt >= ZUSD_MINIMUM_DEBT
          /\ params.repayZUSD <= ctx.zusdBalance
    /\ params.depositCollateral <= ctx.accountBalance

validateTroveClosure(params, original, resulting, ctx) ==
    /\ ctx.numberOfTroves # 1
    /\ ~recoveryMode(ctx)
    /\ params.repayZUSD <= ctx.zusdBalance
    /\ ~wouldTriggerRecoveryMode(original, resulting, ctx)

(* The change that may be sent, or undefined. *)
validateTroveChange(original, edited, borrowingRate, ctx) ==
    LET change == whatChanged(original, edited, borrowingRate)
        resulting == apply(original, change, borrowingRate)
    IN  IF CASE change.type = "creation" ->
                  validateTroveCreation(change.params, original, resulting, ctx)
             [] change.type = "closure" ->
                  validateTroveClosure(change.params, original, resulting, ctx)
             [] change.type = "adjustment" ->
                  validateTroveAdjustment(change.params, original, resulting, ctx)
             [] OTHER -> FALSE
        THEN change ELSE undefined
=============================================================================
