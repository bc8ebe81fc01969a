---------------------------- MODULE StabilityPool ----------------------------
(***************************************************************************)
(* The Stability Pool (StabilityPool.sol) and the issuance of ZERO to its  *)
(* depositors (ZERO/CommunityIssuance.sol).                                *)
(*                                                                         *)
(* Nobody's deposit is written when a liquidation takes ZUSD from all of   *)
(* them.  A running product P and running sums S (collateral) and G (ZERO) *)
(* stand for all liquidations since deployment, and what a deposit is      *)
(* worth follows from them and the snapshot taken when it was last         *)
(* touched.  All of it is integer arithmetic that rounds.                  *)
(*                                                                         *)
(* A call is one action.  ZUSD enters and leaves through the same two      *)
(* internal functions whether it comes from a wallet or is converted from  *)
(* or to DLLR on the way.  SafeMath subtractions that the calls' own       *)
(* guards do not cover are conjuncts (the call reverts).                   *)
(***************************************************************************)
EXTENDS LiquityMath, FiniteSets, FiniteSetsExt

CONSTANTS
    Users,              \* addresses: depositors and front ends
    NULL,               \* address zero, the tag of a deposit without front end
    SCALE_FACTOR,       \* 1e9, the square root of DECIMAL_PRECISION
    Amounts,            \* ZUSD provided or asked for
    KickbackRates,      \* what a front end may leave to its depositors
    Offsets,            \* [debt, coll] of the liquidations offset by the pool
    Issuances,          \* ZERO issued since the call before
    ZEROSupplyCap       \* what CommunityIssuance was funded with

Assumptions ==
    /\ NULL \notin Users
    /\ SCALE_FACTOR \in Nat \ {0}
    /\ SCALE_FACTOR * SCALE_FACTOR = DECIMAL_PRECISION
    /\ Amounts \subseteq Nat /\ Issuances \subseteq Nat
    /\ KickbackRates \subseteq Nat
    /\ Offsets \subseteq [debt : Nat, coll : Nat]
    /\ ZEROSupplyCap \in Nat

ASSUME StabilityPoolAssumption == Assumptions

VARIABLES
    deposits,           \* initialValue and frontEndTag of every depositor
    depositSnapshots,   \* P, S, G, scale and epoch when it was last touched
    frontEnds,          \* registered, and the kickback rate
    frontEndStakes,     \* what is deposited through a front end, or through none
    frontEndSnapshots,
    pool,               \* P, S, G, scale, epoch, rounding errors and holdings
    issuance,           \* CommunityIssuance: ZERO issued, and ZERO sent
    collateralized      \* no trove is below MCR

vars == <<deposits, depositSnapshots, frontEnds, frontEndStakes,
          frontEndSnapshots, pool, issuance, collateralized>>

NoSnapshot == [P |-> 0, S |-> 0, G |-> 0, scale |-> 0, epoch |-> 0]
NoDeposit == [initialValue |-> 0, frontEndTag |-> NULL]

Init ==
    /\ deposits = [u \in Users |-> NoDeposit]
    /\ depositSnapshots = [u \in Users |-> NoSnapshot]
    /\ frontEnds = [u \in Users |-> [registered |-> FALSE, kickbackRate |-> 0]]
    /\ frontEndStakes = [u \in Users \cup {NULL} |-> 0]
    /\ frontEndSnapshots = [u \in Users \cup {NULL} |-> NoSnapshot]
    /\ pool = [P |-> DECIMAL_PRECISION, scale |-> 0, epoch |-> 0,
               S |-> << >>, G |-> << >>,
               lastETHError |-> 0, lastZUSDLossError |-> 0, lastZEROError |-> 0,
               totalZUSDDeposits |-> 0, ETH |-> 0]
    /\ issuance = [issued |-> 0, sent |-> 0]
    /\ collateralized = TRUE
-----------------------------------------------------------------------------
(* Mappings from epoch and scale to a sum: absent keys read as 0. *)

at(sums, epoch, scale) ==
    IF <<epoch, scale>> \in DOMAIN sums THEN sums[<<epoch, scale>>] ELSE 0

addedTo(sums, epoch, scale, marginalGain) ==
    [k \in DOMAIN sums \cup {<<epoch, scale>>} |->
        IF k = <<epoch, scale>> THEN at(sums, epoch, scale) + marginalGain
        ELSE sums[k]]
-----------------------------------------------------------------------------
(* What a stake is worth *)

(* A slip: a stake keeps its share when the pool has been emptied. *)
compoundedAcrossEpochs(initialStake, snapshot, p) ==
    IF initialStake = 0 THEN 0 ELSE (initialStake * p.P) \div snapshot.P

getCompoundedStakeFromSnapshots(initialStake, snapshot, p) ==
    LET scaleDiff == p.scale - snapshot.scale
        compoundedStake ==
            CASE scaleDiff = 0 -> (initialStake * p.P) \div snapshot.P
              [] scaleDiff = 1 -> ((initialStake * p.P) \div snapshot.P) \div SCALE_FACTOR
              [] OTHER -> 0
    IN  IF initialStake = 0 \/ snapshot.epoch < p.epoch
           \/ compoundedStake < initialStake \div SCALE_FACTOR
        THEN 0
        ELSE compoundedStake

(* A slip: the portion after a scale change is not scaled down. *)
unscaledGain(initialStake, snapshot, sums, sumSnapshot) ==
    IF initialStake = 0 THEN 0
    ELSE ((initialStake
            * (at(sums, snapshot.epoch, snapshot.scale) - sumSnapshot
               + at(sums, snapshot.epoch, snapshot.scale + 1)))
          \div snapshot.P) \div DECIMAL_PRECISION

(* _getETHGainFromSnapshots and _getZEROGainFromSnapshots. *)
gainFromSnapshots(initialStake, snapshot, sums, sumSnapshot) ==
    IF initialStake = 0 THEN 0
    ELSE LET firstPortion == at(sums, snapshot.epoch, snapshot.scale) - sumSnapshot
             secondPortion == at(sums, snapshot.epoch, snapshot.scale + 1)
                                \div SCALE_FACTOR
         IN  ((initialStake * (firstPortion + secondPortion)) \div snapshot.P)
                \div DECIMAL_PRECISION

getCompoundedZUSDDeposit(u) ==
    getCompoundedStakeFromSnapshots(deposits[u].initialValue, depositSnapshots[u], pool)

getCompoundedFrontEndStake(f) ==
    getCompoundedStakeFromSnapshots(frontEndStakes[f], frontEndSnapshots[f], pool)

getDepositorETHGain(u) ==
    gainFromSnapshots(deposits[u].initialValue, depositSnapshots[u], pool.S,
                      depositSnapshots[u].S)

(* The depositor's cut is the kickback rate, or all of it without a tag. *)
getDepositorZEROGain(u, tag, p) ==
    LET kickbackRate == IF tag = NULL THEN DECIMAL_PRECISION
                        ELSE frontEnds[tag].kickbackRate
    IN  (kickbackRate * gainFromSnapshots(deposits[u].initialValue,
                            depositSnapshots[u], p.G, depositSnapshots[u].G))
            \div DECIMAL_PRECISION

getFrontEndZEROGain(f, p) ==
    ((DECIMAL_PRECISION - frontEnds[f].kickbackRate)
        * gainFromSnapshots(frontEndStakes[f], frontEndSnapshots[f], p.G,
                            frontEndSnapshots[f].G))
        \div DECIMAL_PRECISION
-----------------------------------------------------------------------------
(* ZERO issuance.  The time passed decides how much is issued; here any    *)
(* amount of Issuances that the cap still covers.                          *)

mayIssue(amount) == issuance.issued + amount <= ZEROSupplyCap

(* A slip: the gain replaces the sum instead of adding to it. *)
updateGAnew(p, amount) ==
    IF p.totalZUSDDeposits = 0 \/ amount = 0 THEN p
    ELSE LET perUnitStaked == (amount * DECIMAL_PRECISION) \div p.totalZUSDDeposits
         IN  [p EXCEPT !.G = addedTo(<< >>, p.epoch, p.scale, perUnitStaked * p.P)]

(* A slip: what is issued without deposits is kept for the next ones. *)
updateGLater(p, amount) ==
    LET numerator == amount * DECIMAL_PRECISION + p.lastZEROError
        perUnitStaked == numerator \div p.totalZUSDDeposits
    IN  IF p.totalZUSDDeposits = 0 THEN [p EXCEPT !.lastZEROError = numerator]
        ELSE [p EXCEPT !.G = addedTo(p.G, p.epoch, p.scale, perUnitStaked * p.P),
                       !.lastZEROError = numerator - perUnitStaked * p.totalZUSDDeposits]

(* Without deposits nobody gets the issuance, now or later. *)
updateG(p, amount) ==
    IF p.totalZUSDDeposits = 0 \/ amount = 0 THEN p
    ELSE LET numerator == amount * DECIMAL_PRECISION + p.lastZEROError
             perUnitStaked == numerator \div p.totalZUSDDeposits
         IN  [p EXCEPT !.G = addedTo(p.G, p.epoch, p.scale, perUnitStaked * p.P),
                       !.lastZEROError = numerator - perUnitStaked * p.totalZUSDDeposits]
-----------------------------------------------------------------------------
(* Deposits *)

snapshotOf(p, value) ==
    IF value = 0 THEN NoSnapshot
    ELSE [P |-> p.P, S |-> at(p.S, p.epoch, p.scale), G |-> at(p.G, p.epoch, p.scale),
          scale |-> p.scale, epoch |-> p.epoch]

(* What providing, withdrawing and moving gains to a trove share: issue    *)
(* ZERO, pay all gains, write the deposit and the front end's stake anew,  *)
(* with fresh snapshots.                                                   *)
settle(u, tag, amountIn, amountOut, issued) ==
    LET p == updateG(pool, issued)
        newDeposit == getCompoundedZUSDDeposit(u) + amountIn - amountOut
        newFrontEndStake == getCompoundedFrontEndStake(tag) + amountIn - amountOut
        frontEndGain == IF tag = NULL THEN 0 ELSE getFrontEndZEROGain(tag, p)
    IN  /\ mayIssue(issued)
        /\ newFrontEndStake >= 0
        /\ amountOut <= pool.totalZUSDDeposits
        /\ issuance' = [issued |-> issuance.issued + issued,
                        sent |-> issuance.sent + frontEndGain
                                    + getDepositorZEROGain(u, tag, p)]
        /\ frontEndStakes' = [frontEndStakes EXCEPT ![tag] = newFrontEndStake]
        /\ frontEndSnapshots' =
               [frontEndSnapshots EXCEPT ![tag] = snapshotOf(p, newFrontEndStake)]
        /\ deposits' = [deposits EXCEPT ![u] =
               [initialValue |-> newDeposit,
                frontEndTag |-> IF newDeposit = 0 THEN NULL ELSE tag]]
        /\ depositSnapshots' = [depositSnapshots EXCEPT ![u] = snapshotOf(p, newDeposit)]
        /\ pool' = [p EXCEPT !.totalZUSDDeposits = @ + amountIn - amountOut,
                             !.ETH = @ - getDepositorETHGain(u)]
        /\ UNCHANGED <<frontEnds, collateralized>>

(* A returning depositor keeps the tag of the deposit. *)
provideToSP(u, amount, frontEndTag, issued) ==
    /\ frontEndTag # NULL => frontEnds[frontEndTag].registered
    /\ ~frontEnds[u].registered
    /\ amount > 0
    /\ settle(u, IF deposits[u].initialValue = 0 THEN frontEndTag
                 ELSE deposits[u].frontEndTag, amount, 0, issued)

provideToSpFromDLLR(u, amount, issued) == provideToSP(u, amount, NULL, issued)

(* withdrawFromSP and withdrawFromSpAndConvertToDLLR. *)
withdrawFromSP(u, amount, issued) ==
    /\ amount # 0 => collateralized
    /\ deposits[u].initialValue > 0
    /\ settle(u, deposits[u].frontEndTag, 0, min(amount, getCompoundedZUSDDeposit(u)),
              issued)

(* That u has a trove is left open: troves are not in this module. *)
withdrawETHGainToTrove(u, issued) ==
    /\ deposits[u].initialValue > 0
    /\ getDepositorETHGain(u) > 0
    /\ settle(u, deposits[u].frontEndTag, 0, 0, issued)

registerFrontEnd(u, kickbackRate) ==
    /\ ~frontEnds[u].registered
    /\ deposits[u].initialValue = 0
    /\ kickbackRate <= DECIMAL_PRECISION
    /\ frontEnds' = [frontEnds EXCEPT ![u] =
           [registered |-> TRUE, kickbackRate |-> kickbackRate]]
    /\ UNCHANGED <<deposits, depositSnapshots, frontEndStakes, frontEndSnapshots,
                   pool, issuance, collateralized>>
-----------------------------------------------------------------------------
(* Liquidations *)

(* "slightly too much" ZUSD loss, given back with the next one. *)
lossPerUnitStaked(p, debt) ==
    IF debt = p.totalZUSDDeposits THEN [perUnitStaked |-> DECIMAL_PRECISION, error |-> 0]
    ELSE LET numerator == debt * DECIMAL_PRECISION - p.lastZUSDLossError
             perUnitStaked == numerator \div p.totalZUSDDeposits + 1
         IN  [perUnitStaked |-> perUnitStaked,
              error |-> perUnitStaked * p.totalZUSDDeposits - numerator]

(* P, scale and epoch after every deposit is multiplied by factor. *)
product(p, factor) ==
    LET scaled == (p.P * factor) \div DECIMAL_PRECISION
    IN  CASE factor = 0 ->
               [P |-> DECIMAL_PRECISION, scale |-> 0, epoch |-> p.epoch + 1]
          [] factor # 0 /\ scaled < SCALE_FACTOR ->
               [P |-> (p.P * factor * SCALE_FACTOR) \div DECIMAL_PRECISION,
                scale |-> p.scale + 1, epoch |-> p.epoch]
          [] OTHER -> [P |-> scaled, scale |-> p.scale, epoch |-> p.epoch]

(* The pool after debt is cancelled against it for coll: S first, since   *)
(* the gain depends on the deposits before the loss.                       *)
updateRewardSumAndProduct(p, debt, coll) ==
    LET loss == lossPerUnitStaked(p, debt)
        q == product(p, DECIMAL_PRECISION - loss.perUnitStaked)
        numerator == coll * DECIMAL_PRECISION + p.lastETHError
        gainPerUnit == numerator \div p.totalZUSDDeposits
    IN  [p EXCEPT !.P = q.P, !.scale = q.scale, !.epoch = q.epoch,
                  !.S = addedTo(p.S, p.epoch, p.scale, gainPerUnit * p.P),
                  !.lastETHError = numerator - gainPerUnit * p.totalZUSDDeposits,
                  !.lastZUSDLossError = loss.error,
                  !.totalZUSDDeposits = @ - debt,
                  !.ETH = @ + coll]

(* The TroveManager offsets no more than the pool holds. *)
mayOffset(o) ==
    /\ pool.totalZUSDDeposits > 0
    /\ 0 < o.debt /\ o.debt <= pool.totalZUSDDeposits

offset(o, issued) ==
    LET p == updateRewardSumAndProduct(updateG(pool, issued), o.debt, o.coll)
    IN  /\ mayOffset(o)
        /\ mayIssue(issued)
        /\ o.debt = pool.totalZUSDDeposits \/ pool.lastZUSDLossError <= o.debt * DECIMAL_PRECISION
        /\ p.P > 0                      \* assert(newP > 0)
        /\ pool' = p
        /\ issuance' = [issuance EXCEPT !.issued = @ + issued]
        /\ UNCHANGED <<deposits, depositSnapshots, frontEnds, frontEndStakes,
                       frontEndSnapshots, collateralized>>

(* Prices and borrowers decide whether some trove is below MCR. *)
trovesChange ==
    /\ collateralized' = ~collateralized
    /\ UNCHANGED <<deposits, depositSnapshots, frontEnds, frontEndStakes,
                   frontEndSnapshots, pool, issuance>>

Deposit ==
    \E u \in Users, amount \in Amounts, issued \in Issuances :
        \/ \E tag \in Users \cup {NULL} : provideToSP(u, amount, tag, issued)
        \/ provideToSpFromDLLR(u, amount, issued)

Withdraw ==
    \E u \in Users, issued \in Issuances :
        \/ \E amount \in Amounts \cup {0} : withdrawFromSP(u, amount, issued)
        \/ withdrawETHGainToTrove(u, issued)

Liquidation == \E o \in Offsets, issued \in Issuances : offset(o, issued)

Register == \E u \in Users, rate \in KickbackRates : registerFrontEnd(u, rate)

Next == Deposit \/ Withdraw \/ Liquidation \/ Register \/ trovesChange

Spec == Init /\ [][Next]_vars
-----------------------------------------------------------------------------
(* Properties *)

(* A call by one user leaves what everybody else's deposit is worth and    *)
(* has gained in collateral as it was, and takes no ZERO from them.  Only  *)
(* a liquidation changes all deposits at once.                             *)
OthersUndisturbed ==
    [][Deposit \/ Withdraw \/ Register =>
        \A u \in Users :
            deposits'[u] = deposits[u] /\ depositSnapshots'[u] = depositSnapshots[u] =>
            /\ getCompoundedZUSDDeposit(u)' = getCompoundedZUSDDeposit(u)
            /\ getDepositorETHGain(u)' = getDepositorETHGain(u)
            /\ getDepositorZEROGain(u, deposits[u].frontEndTag, pool)'
                 >= getDepositorZEROGain(u, deposits[u].frontEndTag, pool)]_vars
=============================================================================
