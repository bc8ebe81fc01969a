------------------------------ MODULE TrovePurse ------------------------------
(***************************************************************************)
(* One account's dealings with Zero in ZUSD: the trove it borrows from,    *)
(* its deposit in the Stability Pool and the ZUSD in its purse, as the     *)
(* plain operations of BorrowerOperations, StabilityPool and               *)
(* TroveManagerRedeemOps move them.  Collateral and the ratio rules are in *)
(* ZeroSystem; here a call that those rules refuse is a call not made.     *)
(*                                                                         *)
(* Every operation exists in a second form that pays and is paid in DLLR   *)
(* (module NueTroves).  To be shared with it, an operation that pays takes *)
(* what the payer has when the payment is made, and one that is paid takes *)
(* what reaches the account's own purse.                                   *)
(***************************************************************************)
EXTENDS Integers, FiniteSetsExt

CONSTANTS
    ZUSD_GAS_COMPENSATION,  \* the reserve every trove's debt includes
    MIN_NET_DEBT,           \* the least debt beside the reserve
    MAX_AMOUNT,             \* bound: the largest amount of one call
    MAX_FEE,                \* bound: the largest borrowing fee
    MAX_TOTAL               \* bound: the largest debt, purse or deposit

VARIABLES
    debt,     \* the trove's recorded debt, 0 when it has no trove
    pending,  \* the debt redistributed to it and not yet applied
    deposit,  \* its compounded deposit in the Stability Pool
    purse     \* the ZUSD it holds

purseVars == <<debt, pending, deposit, purse>>

Amounts == 1..MAX_AMOUNT
owed == debt + pending
net == owed - ZUSD_GAS_COMPENSATION

openTrove(amount, fee, received) ==
    /\ debt = 0
    /\ amount + fee >= MIN_NET_DEBT
    /\ debt' = amount + fee + ZUSD_GAS_COMPENSATION
    /\ pending' = 0
    /\ purse' = purse + received
    /\ UNCHANGED deposit

\* a debt increase; amount 0 is an adjustment of the collateral alone
borrow(amount, fee, received) ==
    /\ debt > 0
    /\ amount = 0 => fee = 0
    /\ debt' = owed + amount + fee
    /\ pending' = 0
    /\ purse' = purse + received
    /\ UNCHANGED deposit

repay(amount, have) ==
    /\ debt > 0
    /\ net - amount >= MIN_NET_DEBT
    /\ have >= amount
    /\ debt' = owed - amount
    /\ pending' = 0
    /\ purse' = have - amount
    /\ UNCHANGED deposit

closeTrove(have) ==
    /\ debt > 0
    /\ have >= net
    /\ purse' = have - net
    /\ debt' = 0
    /\ pending' = 0
    /\ UNCHANGED deposit

provideToSP(amount, have) ==
    /\ have >= amount
    /\ deposit' = deposit + amount
    /\ purse' = have - amount
    /\ UNCHANGED <<debt, pending>>

withdrawn(amount) == Min({amount, deposit})

withdrawFromSP(amount, received) ==
    /\ deposit > 0
    /\ deposit' = deposit - withdrawn(amount)
    /\ purse' = purse + received
    /\ UNCHANGED <<debt, pending>>

\* own is what a redemption takes from the account's own trove; a trove it comes to
\* and takes nothing from (the partial redemption is cancelled) has its rewards applied
redeemFromTrove(own) ==
    \/ own = 0 /\ UNCHANGED <<debt, pending>>
    \/ /\ debt > 0
       /\ own > 0 => own = net \/ net - own >= MIN_NET_DEBT
       /\ debt' = IF own = net THEN 0 ELSE owed - own
       /\ pending' = 0

redeemCollateral(amount, lot, own, have) ==
    /\ have >= amount
    /\ lot \in 1..amount
    /\ own \in 0..lot
    /\ redeemFromTrove(own)
    /\ purse' = have - lot
    /\ UNCHANGED deposit

(***************************************************************************)
(* What others do to the account: liquidations that redistribute debt to   *)
(* its trove, that take the trove or use its deposit, redemptions from its *)
(* trove, and transfers.                                                   *)
(***************************************************************************)
redistributed(amount) ==
    /\ debt > 0
    /\ pending' = pending + amount
    /\ UNCHANGED <<debt, deposit, purse>>

liquidated ==
    /\ debt > 0
    /\ debt' = 0
    /\ pending' = 0
    /\ UNCHANGED <<deposit, purse>>

offset(amount) ==
    /\ amount <= deposit
    /\ deposit' = deposit - amount
    /\ UNCHANGED <<debt, pending, purse>>

redeemedByOthers(own) ==
    /\ redeemFromTrove(own)
    /\ UNCHANGED <<deposit, purse>>

transfer(amount) ==
    /\ purse + amount >= 0
    /\ purse' = purse + amount
    /\ UNCHANGED <<debt, pending, deposit>>

PurseInit == debt = 0 /\ pending = 0 /\ deposit = 0 /\ purse = 0

PurseNext ==
    \/ \E a \in Amounts, fee \in 0..MAX_FEE : openTrove(a, fee, a)
    \/ \E a \in Amounts \cup {0}, fee \in 0..MAX_FEE : borrow(a, fee, a)
    \/ \E a \in Amounts : repay(a, purse)
    \/ closeTrove(purse)
    \/ \E a \in Amounts : provideToSP(a, purse)
    \/ \E a \in Amounts \cup {0} : withdrawFromSP(a, withdrawn(a))
    \/ \E a, lot \in Amounts, own \in Amounts \cup {0} : redeemCollateral(a, lot, own, purse)
    \/ \E a \in Amounts : redistributed(a) \/ offset(a)
    \/ \E own \in Amounts \cup {0} : redeemedByOthers(own)
    \/ \E a \in Amounts : transfer(a) \/ transfer(-a)
    \/ liquidated

PurseSpec == PurseInit /\ [][PurseNext]_purseVars
================================================================================
