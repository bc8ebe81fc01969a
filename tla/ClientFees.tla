----------------------------- MODULE ClientFees -----------------------------
(***************************************************************************)
(* The fees as the SDK sees them (lib-base/src/Fees.ts) and the highest     *)
(* rates that it puts into transactions by default                          *)
(* (lib-ethers/src/PopulatableEthersLiquity.ts), against the checks of the  *)
(* contracts in a later block, after others borrowed and redeemed.          *)
(*                                                                         *)
(* Amounts to be redeemed are fractions of the supply, which the SDK and    *)
(* the contracts are taken to agree on, as they are on the floors and the   *)
(* cap of the rates, which the SDK has as constants (constants.ts) and the  *)
(* contracts as parameters.                                                 *)
(***************************************************************************)
EXTENDS BaseRate

CONSTANTS
    BORROWING_TOLERANCE,    \* defaultBorrowingRateSlippageTolerance: 0.5 %
    REDEMPTION_TOLERANCE,   \* defaultRedemptionRateSlippageTolerance: 0.1 %
    MINIMUM_NET_DEBT,       \* ZUSD_MINIMUM_NET_DEBT, as a fraction of the supply
    MAX_BASE_RATE,          \* bound: redemptions are made at base rates up to this
    NONE

VARIABLES
    recoveryMode,
    quote,      \* the fields of Fees as getFees reads them, NONE before
    tx,         \* the populated transaction, or NONE
    since       \* what has happened since getFees began to read

vars == <<rateVars, recoveryMode, quote, tx, since>>

D == INSTANCE Decimal WITH DIGITS <- DECIMAL_PRECISION, INFINITY <- DECIMAL_PRECISION * DECIMAL_PRECISION

unread == [field \in {"base", "lastFee", "latest", "recovery"} |-> NONE]
nothing == [event \in {"feeOpInRead", "redeemed", "mode"} |-> FALSE]
isRead == \A field \in DOMAIN quote : quote[field] # NONE
-----------------------------------------------------------------------------
(* Fees *)

(* A slip: a minute that has begun counts. *)
clientBaseRateRounded(fees) ==
    D!mul(D!pow(MINUTE_DECAY_FACTOR,
                (D!monus(fees.latest, fees.lastFee) + SECONDS_IN_ONE_MINUTE - 1) \div SECONDS_IN_ONE_MINUTE),
          fees.base)

clientBaseRate(fees) ==
    D!mul(D!pow(MINUTE_DECAY_FACTOR, D!monus(fees.latest, fees.lastFee) \div SECONDS_IN_ONE_MINUTE),
          fees.base)

clientBorrowingRate(fees) ==
    IF fees.recovery THEN 0
    ELSE D!lesser(BORROWING_FEE_FLOOR + clientBaseRate(fees), MAX_BORROWING_FEE)

(* A slip: what the redemption itself adds is forgotten. *)
clientRedemptionRateBefore(fees, fraction) ==
    D!lesser(REDEMPTION_FEE_FLOOR + clientBaseRate(fees), D!ONE)

(* BETA is a whole number. *)
clientRedemptionRate(fees, fraction) ==
    D!lesser(REDEMPTION_FEE_FLOOR + D!div(fraction, BETA * D!ONE) + clientBaseRate(fees), D!ONE)

defaultMaxRedemptionRate(fees, fraction) ==
    D!lesser(clientRedemptionRate(fees, fraction) + REDEMPTION_TOLERANCE, D!ONE)
-----------------------------------------------------------------------------
(* The client *)

(* getFees: calls without a block tag, answered one by one. *)
read(field) ==
    /\ tx = NONE
    /\ quote[field] = NONE
    /\ quote' = [quote EXCEPT ![field] =
           CASE field = "base" -> baseRate
             [] field = "lastFee" -> lastFeeOperationTime
             [] field = "latest" -> now
             [] field = "recovery" -> recoveryMode]
    /\ since' = IF quote = unread THEN nothing ELSE since
    /\ UNCHANGED <<rateVars, recoveryMode, tx>>

populate(t) ==
    /\ isRead /\ tx = NONE
    /\ tx' = t
    /\ UNCHANGED <<rateVars, recoveryMode, quote, since>>

(* openTrove, openNueTrove, and adjustTrove and adjustNueTrove with borrowZUSD. *)
populateBorrowing(amount) ==
    populate([kind |-> "borrow", amount |-> amount, attempted |-> amount,
              max |-> clientBorrowingRate(quote) + BORROWING_TOLERANCE])

(* withdrawZusdAndConvertToDLLR: the amount is normalized as a repayment, so that no *)
(* fees are read and the highest rate is Decimal.ZERO.                               *)
populateWithdrawal(amount) ==
    /\ tx = NONE /\ quote = unread
    /\ tx' = [kind |-> "withdraw", amount |-> amount, attempted |-> amount, max |-> 0]
    /\ since' = nothing
    /\ UNCHANGED <<rateVars, recoveryMode, quote>>

(* redeemZUSD: the hints truncate the amount, and if to nothing it throws. *)
populateRedemption(attempted, truncated) ==
    /\ truncated > 0 /\ truncated <= attempted
    /\ baseRate <= MAX_BASE_RATE
    /\ populate([kind |-> "redeem", amount |-> truncated, attempted |-> attempted,
                 max |-> defaultMaxRedemptionRate(quote, truncated)])

increaseAmountByMinimumNetDebt ==
    /\ tx # NONE
    /\ tx.amount < tx.attempted
    /\ LET amount == tx.amount + MINIMUM_NET_DEBT
       IN  tx' = [tx EXCEPT !.amount = amount, !.attempted = amount,
                            !.max = defaultMaxRedemptionRate(quote, amount)]
    /\ UNCHANGED <<rateVars, recoveryMode, quote, since>>
-----------------------------------------------------------------------------
(* The chain *)

(* Whether a contract takes the rate of a transaction, now. *)
accepts(t) ==
    IF t.kind = "redeem"
    THEN LET rate == calcRedemptionRate(baseRateFromRedemption(t.amount))
             fee == calcFee(rate, t.amount)
         IN  /\ requireValidMaxFeePercentage(t.max, REDEMPTION_FEE_FLOOR)
             /\ baseRateFromRedemption(t.amount) > 0
             /\ fee < t.amount
             /\ requireUserAcceptsFee(fee, t.amount, t.max)
    ELSE IF recoveryMode THEN t.max <= DECIMAL_PRECISION
    ELSE /\ requireValidMaxFeePercentage(t.max, BORROWING_FEE_FLOOR)
         /\ requireUserAcceptsFee(calcFee(calcBorrowingRate(calcDecayedBaseRate), t.amount), t.amount, t.max)

mined ==
    /\ tx # NONE
    /\ IF ~accepts(tx) \/ (tx.kind # "redeem" /\ recoveryMode) THEN UNCHANGED rateVars
       ELSE IF tx.kind = "redeem" THEN redeem(tx.amount, tx.amount, tx.max)
       ELSE triggerBorrowingFee(tx.amount, tx.max)
    /\ tx' = NONE
    /\ quote' = unread
    /\ since' = nothing
    /\ UNCHANGED recoveryMode

moves(redeems, feeOp) ==
    since' = [since EXCEPT !.feeOpInRead = @ \/ (feeOp /\ ~isRead),
                           !.redeemed = @ \/ redeems]

othersBorrow(amount) ==
    /\ ~recoveryMode
    /\ triggerBorrowingFee(amount, DECIMAL_PRECISION)
    /\ moves(FALSE, TRUE)
    /\ UNCHANGED <<recoveryMode, quote, tx>>

othersRedeem(fraction) ==
    /\ baseRate <= MAX_BASE_RATE
    /\ redeem(fraction, fraction, DECIMAL_PRECISION)
    /\ moves(TRUE, TRUE)
    /\ UNCHANGED <<recoveryMode, quote, tx>>

block(seconds) ==
    /\ tick(seconds)
    /\ moves(FALSE, FALSE)
    /\ UNCHANGED <<recoveryMode, quote, tx>>

(* The price moves or Troves change. *)
toggleRecoveryMode ==
    /\ recoveryMode' = ~recoveryMode
    /\ since' = [since EXCEPT !.mode = TRUE]
    /\ UNCHANGED <<rateVars, quote, tx>>
-----------------------------------------------------------------------------
Init ==
    /\ InitRate
    /\ recoveryMode = FALSE
    /\ quote = unread
    /\ tx = NONE
    /\ since = nothing

Next ==
    \/ \E field \in DOMAIN quote : read(field)
    \/ \E amount \in Amounts : populateBorrowing(amount) \/ populateWithdrawal(amount)
    \/ \E attempted, truncated \in Fractions : populateRedemption(attempted, truncated)
    \/ increaseAmountByMinimumNetDebt
    \/ mined
    \/ \E amount \in Amounts : othersBorrow(amount)
    \/ \E fraction \in Fractions : othersRedeem(fraction)
    \/ \E seconds \in BlockTimes : block(seconds)
    \/ toggleRecoveryMode

Spec == Init /\ [][Next]_vars
-----------------------------------------------------------------------------

(* Properties *)

(* A transaction that borrows at the default highest rate is accepted in   *)
(* whatever block it is mined, also when the reads of getFees fall into    *)
(* different blocks, unless Recovery Mode has changed, others redeemed, or *)
(* a fee operation fell between the reads.                                 *)
QuotedBorrowingIsMined ==
    tx # NONE /\ ~since.feeOpInRead /\ ~since.redeemed /\ ~since.mode =>
        (tx.kind = "borrow" => accepts(tx))

(* The same of a redemption, also after increaseAmountByMinimumNetDebt,    *)
(* unless the fee would take all of the collateral.                        *)
QuotedRedemptionIsMined ==
    tx # NONE /\ ~since.feeOpInRead /\ ~since.redeemed =>
        (tx.kind = "redeem" /\ tx.max < DECIMAL_PRECISION => accepts(tx))

=============================================================================
