------------------------------- MODULE NueTroves -------------------------------
(***************************************************************************)
(* The operations that pay or are paid in DLLR ("NUE"), Sovryn Mynt's      *)
(* aggregate of stablecoins, beside the plain ones they wrap.  A call that *)
(* pays first burns the caller's DLLR for ZUSD (MyntLib) and then runs the *)
(* plain operation on the caller's ZUSD; a call that is paid has the ZUSD  *)
(* sent to the contract itself and then converted into DLLR for the        *)
(* caller.  Mynt's manager is external: as the contracts use it, it        *)
(* exchanges one for one.                                                  *)
(***************************************************************************)
EXTENDS Integers

CONSTANTS ZUSD_GAS_COMPENSATION, MIN_NET_DEBT, MAX_AMOUNT, MAX_FEE, MAX_TOTAL

\* What the theorems assume of the constants.
Assumptions ==
    {ZUSD_GAS_COMPENSATION, MIN_NET_DEBT, MAX_AMOUNT, MAX_FEE, MAX_TOTAL} \subseteq Nat \ {0}

VARIABLES
    debt, pending, deposit,  \* as in TrovePurse
    zusd,     \* the ZUSD the account holds
    dllr,     \* the DLLR the account holds
    held,     \* the ZUSD BorrowerOperations holds
    pool,     \* the ZUSD StabilityPool holds for this account
    reverted  \* did the last call revert?

vars == <<debt, pending, deposit, zusd, dllr, held, pool, reverted>>

\* the plain operations, on the account's ZUSD
Zusd == INSTANCE TrovePurse WITH purse <- zusd

\* what the account has, in whichever of the two
Either == INSTANCE TrovePurse WITH purse <- zusd + dllr

Amounts == Zusd!Amounts
owed == Zusd!owed
Fees == 0..MAX_FEE

Init == Zusd!PurseInit /\ dllr = 0 /\ held = 0 /\ pool = 0 /\ reverted = FALSE

Done == reverted' = FALSE
Elsewhere == UNCHANGED <<held, pool>>

\* Mynt's manager takes a contract's ZUSD and mints DLLR to the caller
mintTo(amount) == dllr' = dllr + amount

\* The caller's DLLR goes to the contract and is redeemed to the caller's ZUSD.
redeemZusdFromDllr(amount) == dllr >= amount /\ dllr' = dllr - amount

--------------------------------------------------------------------------------

openNueTrove(amount, fee) ==
    /\ Zusd!openTrove(amount, fee, 0)
    /\ held' = held + amount - amount
    /\ mintTo(amount)
    /\ UNCHANGED pool
    /\ Done

\* also withdrawZusdAndConvertToDLLR
adjustNueTroveBorrowing(amount, fee) ==
    /\ Zusd!borrow(amount, fee, 0)
    /\ held' = held + amount - amount
    /\ mintTo(amount)
    /\ UNCHANGED pool
    /\ Done

\* also repayZusdFromDLLR
adjustNueTroveRepaying(amount) ==
    /\ redeemZusdFromDllr(amount)
    /\ Zusd!repay(amount, zusd + amount)
    /\ Elsewhere
    /\ Done

\* The amount is the recorded debt, read before the pending rewards are applied.
closeNueTrove ==
    LET converted == debt - ZUSD_GAS_COMPENSATION
    IN  /\ debt > 0
        /\ Elsewhere
        /\ \/ /\ redeemZusdFromDllr(converted)
              /\ Zusd!closeTrove(zusd + converted)
              /\ Done
           \/ /\ dllr < converted \/ zusd + converted < Zusd!net
              /\ reverted' = TRUE
              /\ UNCHANGED <<debt, pending, deposit, zusd, dllr>>

provideToSpFromDLLR(amount) ==
    /\ redeemZusdFromDllr(amount)
    /\ Zusd!provideToSP(amount, zusd + amount)
    /\ pool' = pool + amount
    /\ UNCHANGED held
    /\ Done

withdrawFromSpAndConvertToDLLR(amount) ==
    /\ Zusd!withdrawFromSP(amount, 0)
    /\ pool' = pool - Zusd!withdrawn(amount)
    /\ mintTo(Zusd!withdrawn(amount))
    /\ UNCHANGED held
    /\ Done

redeemCollateralViaDLLR(amount, lot, own) ==
    /\ redeemZusdFromDllr(amount)
    /\ Zusd!redeemCollateral(amount, lot, own, zusd + amount)
    /\ Elsewhere
    /\ Done

NueCall ==
    \/ \E a \in Amounts, fee \in Fees : openNueTrove(a, fee)
    \/ \E a \in Amounts \cup {0}, fee \in Fees : adjustNueTroveBorrowing(a, fee)
    \/ \E a \in Amounts : adjustNueTroveRepaying(a) \/ provideToSpFromDLLR(a)
    \/ \E a \in Amounts : withdrawFromSpAndConvertToDLLR(a)
    \/ \E a, lot \in Amounts, own \in Amounts \cup {0} : redeemCollateralViaDLLR(a, lot, own)
    \/ closeNueTrove

\* every plain operation, and what others do to the account
PlainStep ==
    /\ Zusd!PurseNext
    /\ pool' = pool + (deposit' - deposit)
    /\ UNCHANGED <<dllr, held>>
    /\ Done

\* DLLR from and to others
transferDLLR(amount) ==
    /\ dllr + amount >= 0
    /\ dllr' = dllr + amount
    /\ UNCHANGED <<debt, pending, deposit, zusd, held, pool>>
    /\ Done

Within == debt' + pending' <= MAX_TOTAL /\ zusd' + dllr' <= MAX_TOTAL /\ deposit' <= MAX_TOTAL

Next ==
    /\ NueCall \/ PlainStep \/ \E a \in Amounts : transferDLLR(a) \/ transferDLLR(-a)
    /\ Within

Spec == Init /\ [][Next]_vars

--------------------------------------------------------------------------------

(***************************************************************************)
(* "This method is identical to ..., but operates on NUE tokens instead of *)
(* ZUSD" (IBorrowerOperations): to an account that counts its DLLR and its *)
(* ZUSD together, a call in DLLR does what the plain call does.            *)
(***************************************************************************)
NueIsPlain == Either!PurseSpec

(***************************************************************************)
(* No ZUSD is left behind: BorrowerOperations, which is the recipient of   *)
(* what a call borrows, holds none between transactions, and the Stability *)
(* Pool, which pays a withdrawal to itself, holds what its records say.    *)
(***************************************************************************)
NothingLeftBehind == held = 0 /\ pool = deposit

(***************************************************************************)
(* A call in DLLR takes none of the caller's ZUSD, but for closing a trove *)
(* with a redistributed debt: that part, and no more, is paid in ZUSD.     *)
(***************************************************************************)
NueSparesZusd ==
    [][NueCall => IF debt > 0 /\ debt' = 0 THEN zusd' >= zusd - pending ELSE zusd' >= zusd]_vars
================================================================================
