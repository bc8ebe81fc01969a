------------------------------ MODULE BaseRate ------------------------------
(***************************************************************************)
(* The base rate of the borrowing and redemption fees: it rises with every *)
(* redemption and decays with time, in whole minutes and only when a fee   *)
(* is charged (Dependencies/TroveManagerBase.sol, TroveManager.sol,        *)
(* Dependencies/TroveManagerRedeemOps.sol, BorrowerOperations.sol).        *)
(*                                                                         *)
(* Of a redemption this module has the fraction of the supply it redeems   *)
(* at face value, and the collateral drawn.                                *)
(***************************************************************************)
EXTENDS LiquityMath

CONSTANTS
    SECONDS_IN_ONE_MINUTE,
    MINUTE_DECAY_FACTOR,    \* half-life of 12 hours in the code
    BETA,                   \* 2 in the code
    BORROWING_FEE_FLOOR, REDEMPTION_FEE_FLOOR, MAX_BORROWING_FEE,
    BlockTimes,             \* seconds that may pass between two blocks
    MaxTime,                \* bound on the clock
    Amounts,                \* ZUSD borrowed, or collateral drawn
    Fractions               \* fractions of the supply redeemed

ASSUME BaseRateAssumption ==
    /\ SECONDS_IN_ONE_MINUTE \in Nat \ {0}
    /\ MINUTE_DECAY_FACTOR \in 0..DECIMAL_PRECISION
    /\ BETA \in Nat \ {0}
    /\ BORROWING_FEE_FLOOR \in 0..DECIMAL_PRECISION
    /\ REDEMPTION_FEE_FLOOR \in 0..DECIMAL_PRECISION
    /\ MAX_BORROWING_FEE \in 0..DECIMAL_PRECISION
    /\ BlockTimes \subseteq Nat /\ MaxTime \in Nat
    /\ Amounts \subseteq Nat \ {0} /\ Fractions \subseteq Nat

VARIABLES
    now,                    \* block.timestamp
    baseRate,
    lastFeeOperationTime,
    decay                   \* since the last redemption: when it was, and the
                            \* minutes the base rate has been decayed for

rateVars == <<now, baseRate, lastFeeOperationTime, decay>>

InitRate ==
    /\ now = 0
    /\ baseRate = 0
    /\ lastFeeOperationTime = 0
    /\ decay = [since |-> 0, minutes |-> 0]
-----------------------------------------------------------------------------
minutesPassedSinceLastFeeOp == (now - lastFeeOperationTime) \div SECONDS_IN_ONE_MINUTE

calcDecayedBaseRate ==
    (baseRate * decPow(MINUTE_DECAY_FACTOR, minutesPassedSinceLastFeeOp))
        \div DECIMAL_PRECISION

(* A slip: every fee operation restarts the clock. *)
updateLastFeeOpTimeAlways == lastFeeOperationTime' = now

(* "Update the last fee operation time only if time passed >= decay interval." *)
updateLastFeeOpTime ==
    lastFeeOperationTime' =
        IF now - lastFeeOperationTime >= SECONDS_IN_ONE_MINUTE THEN now
        ELSE lastFeeOperationTime

calcBorrowingRate(rate) == min(BORROWING_FEE_FLOOR + rate, MAX_BORROWING_FEE)
calcRedemptionRate(rate) == min(REDEMPTION_FEE_FLOOR + rate, DECIMAL_PRECISION)
calcFee(rate, amount) == (rate * amount) \div DECIMAL_PRECISION

requireUserAcceptsFee(fee, amount, maxFee) ==
    (fee * DECIMAL_PRECISION) \div amount <= maxFee

requireValidMaxFeePercentage(maxFee, floor) == floor <= maxFee /\ maxFee <= DECIMAL_PRECISION
-----------------------------------------------------------------------------

decayBaseRateFromBorrowing ==
    /\ baseRate' = calcDecayedBaseRate
    /\ updateLastFeeOpTime

(* ZUSD is borrowed outside of Recovery Mode (_triggerBorrowingFee). *)
triggerBorrowingFee(amount, maxFee) ==
    /\ requireValidMaxFeePercentage(maxFee, BORROWING_FEE_FLOOR)
    /\ decayBaseRateFromBorrowing
    /\ requireUserAcceptsFee(calcFee(calcBorrowingRate(baseRate'), amount), amount, maxFee)
    /\ decay' = [decay EXCEPT !.minutes = @ + minutesPassedSinceLastFeeOp]
    /\ UNCHANGED now

baseRateFromRedemption(redeemedZUSDFraction) ==
    min(calcDecayedBaseRate + redeemedZUSDFraction \div BETA, DECIMAL_PRECISION)

(* The fee part of redeemCollateral. *)
redeem(redeemedZUSDFraction, ETHDrawn, maxFee) ==
    LET newBaseRate == baseRateFromRedemption(redeemedZUSDFraction)
        fee == calcFee(calcRedemptionRate(newBaseRate), ETHDrawn)
    IN  /\ requireValidMaxFeePercentage(maxFee, REDEMPTION_FEE_FLOOR)
        /\ newBaseRate > 0              \* assert(newBaseRate > 0)
        /\ fee < ETHDrawn
        /\ requireUserAcceptsFee(fee, ETHDrawn, maxFee)
        /\ baseRate' = newBaseRate
        /\ updateLastFeeOpTime
        /\ decay' = [since |-> now, minutes |-> 0]
        /\ UNCHANGED now

tick(seconds) ==
    /\ now + seconds <= MaxTime
    /\ now' = now + seconds
    /\ UNCHANGED <<baseRate, lastFeeOperationTime, decay>>

-----------------------------------------------------------------------------
(* Properties *)

(* Fee operations do not keep the base rate from decaying, however they    *)
(* are timed ("This prevents base rate griefing"): although seconds are    *)
(* dropped whenever the clock restarts, at least half of the time since    *)
(* the last redemption counts.                                             *)
DecayNotPostponed ==
    now - decay.since
        < (2 * decay.minutes + minutesPassedSinceLastFeeOp + 1) * SECONDS_IN_ONE_MINUTE

=============================================================================
