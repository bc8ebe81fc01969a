----------------------------- MODULE LiquityBase -----------------------------
(***************************************************************************)
(* The parameters and the ratio arithmetic every contract of the core      *)
(* shares (Dependencies/LiquityBase.sol, LiquityMath.sol,                  *)
(* LiquityBaseParams.sol).  Amounts are integers in the smallest unit and  *)
(* divisions round down, as in the code; only the scale is smaller.        *)
(***************************************************************************)
EXTENDS LiquityMath

CONSTANTS
    NICR_PRECISION,         \* 1e20 in the code
    MaxRatio,               \* 2^256 - 1, the ratio of a position without debt
    MCR,                    \* minimum collateral ratio, 110%
    CCR,                    \* critical collateral ratio, 150%
    PERCENT_DIVISOR,        \* coll / PERCENT_DIVISOR rewards the liquidator
    ZUSD_GAS_COMPENSATION,  \* ZUSD set aside by every trove for its liquidator
    MIN_NET_DEBT            \* least debt of a trove, without that reserve

ASSUME LiquityBaseAssumption ==
    /\ DECIMAL_PRECISION \in Nat \ {0}
    /\ NICR_PRECISION \in Nat \ {0}
    /\ MaxRatio \in Nat
    /\ MCR \in Nat /\ CCR \in Nat
    /\ DECIMAL_PRECISION < MCR /\ MCR < CCR /\ CCR < MaxRatio
    /\ PERCENT_DIVISOR \in Nat \ {0}
    /\ ZUSD_GAS_COMPENSATION \in Nat
    /\ MIN_NET_DEBT \in Nat \ {0}

computeCR(coll, debt, price) ==
    IF debt > 0 THEN (coll * price) \div debt ELSE MaxRatio

computeNominalCR(coll, debt) ==
    IF debt > 0 THEN (coll * NICR_PRECISION) \div debt ELSE MaxRatio

getCompositeDebt(debt) == debt + ZUSD_GAS_COMPENSATION
getNetDebt(debt) == debt - ZUSD_GAS_COMPENSATION
getCollGasCompensation(entireColl) == entireColl \div PERCENT_DIVISOR
=============================================================================
