-------------------------- MODULE MCTroveValidation --------------------------
(***************************************************************************)
(* The front end beside the contracts: in every state of the protocol, for *)
(* every borrower and every edit of their trove, what validateTroveChange  *)
(* and Trove.apply say is compared with what BorrowerOperations does.      *)
(* These are two implementations, in two languages, of the same rules.     *)
(***************************************************************************)
EXTENDS MCZeroSystem, TroveValidation

CONSTANTS
    EditedColl, EditedDebt,     \* what a user may type into the two fields
    AccountBalance,             \* collateral in the user's wallet
    ClientRate                  \* the borrowing rate in Normal Mode

(* Trove and total as the SDK reads them. *)
getTrove(b) ==
    IF isActive(b)
    THEN applyRedistribution(Trove(Troves[b].coll, Troves[b].debt), Troves[b].stake,
                             Trove(rewards.L_ETH, rewards.L_ZUSDDebt),
                             Trove(Troves[b].ETH, Troves[b].ZUSDDebt))
    ELSE emptyTrove

getTotal == addTrove(Trove(activePool.ETH, activePool.ZUSDDebt),
                     Trove(defaultPool.ETH, defaultPool.ZUSDDebt))

(* The SDK's borrowing rate is zero in recovery mode. *)
clientBorrowingRate == IF collateralRatioIsBelowCritical(getTotal, price) THEN 0 ELSE ClientRate

(* selectForTroveChangeValidation *)
context == [price |-> price, total |-> getTotal, accountBalance |-> AccountBalance,
            zusdBalance |-> zusd.users, numberOfTroves |-> Len(TroveOwners)]

(* The contract call that TroveAction makes of a change. *)
send(b, change) ==
    LET p == change.params
    IN  CASE change.type = "creation" ->
               openTrove(b, p.depositCollateral, p.borrowZUSD, ClientRate)
          [] change.type = "closure" -> closeOwnTrove(b)
          [] change.type = "adjustment" ->
               adjustTrove(b, p.depositCollateral, p.withdrawCollateral,
                           p.borrowZUSD + p.repayZUSD, p.borrowZUSD > 0, ClientRate)

Edits == {Trove(c, d) : c \in EditedColl, d \in EditedDebt}

validChange(b, edited) == validateTroveChange(getTrove(b), edited, clientBorrowingRate, context)

(* What the front end lets through is mined, and leaves exactly the trove  *)
(* that was shown: Trove.apply, which the comment in validateTroveChange   *)
(* calls "the exact state the Trove will end up in", agrees with           *)
(* BorrowerOperations to the last unit, pending redistributions and fee    *)
(* rounding included.  It is the trove that was typed, but for one unit of *)
(* debt when something is borrowed; so a borrower never gets less ZUSD     *)
(* than the debt they agreed to pays for.                                  *)
ValidChangeIsMined ==
    tx = Idle =>
        \A b \in Borrowers, edited \in Edits :
          \A change \in {validChange(b, edited)} :
            \A resulting \in {apply(getTrove(b), change, clientBorrowingRate)} :
              change # undefined =>
                 /\ ENABLED (/\ send(b, change)
                             /\ Troves'[b].coll = resulting.collateral
                             /\ Troves'[b].debt = resulting.debt)
                 /\ resulting.collateral = edited.collateral
                 /\ resulting.debt - edited.debt \in
                        IF change.params.borrowZUSD > 0 THEN 0 .. 1 ELSE {0}

(* What the front end refuses would revert: its checks are no stricter     *)
(* than the contract's, except that it looks at the user's balance.        *)
RefusedChangeReverts ==
    tx = Idle =>
        \A b \in Borrowers, edited \in Edits :
          \A change \in {whatChanged(getTrove(b), edited, clientBorrowingRate)} :
            /\ change.type \in {"creation", "closure", "adjustment"}
            /\ validChange(b, edited) = undefined
            /\ change.params.depositCollateral <= AccountBalance
            => ~ENABLED send(b, change)
=============================================================================
