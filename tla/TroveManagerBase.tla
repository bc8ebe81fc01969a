-------------------------- MODULE TroveManagerBase --------------------------
(***************************************************************************)
(* The state of the core contracts and the trove bookkeeping that every    *)
(* operation on a trove shares: pending rewards of redistributions,        *)
(* stakes, and the removal of a trove (Dependencies/TroveManagerBase.sol,  *)
(* TroveManagerStorage.sol, the pools and the ZUSD token).                 *)
(*                                                                         *)
(* A transaction is atomic.  One without a loop is one action.  One with a *)
(* loop over troves (a liquidation, a redemption) is a step per iteration: *)
(* `tx` holds its locals, no other transaction starts meanwhile, and       *)
(* tx.saved is the state that a revert restores.                           *)
(*                                                                         *)
(* Subtractions are not guarded against underflow, although SafeMath would *)
(* revert: TypeOK has every balance in Nat, so it says that those reverts  *)
(* never strike.  The exception is the collateral a redemption takes from  *)
(* a trove, which depends on the order of the list.                        *)
(***************************************************************************)
EXTENDS LiquityBase, Sequences, FiniteSets, FiniteSetsExt

CONSTANTS Borrowers, NULL

ASSUME BorrowersAssumption == IsFiniteSet(Borrowers) /\ NULL \notin Borrowers

VARIABLES
    Troves,         \* struct Trove and rewardSnapshots of every borrower
    TroveOwners,    \* the array of borrowers with an active trove
    sortedTroves,   \* the sorted list, first = highest NICR
    stakes,         \* totalStakes and its snapshots
    rewards,        \* L_ETH, L_ZUSDDebt and their rounding errors
    activePool,     \* ETH and ZUSDDebt of the ActivePool
    defaultPool,    \* ETH and ZUSDDebt of the DefaultPool
    surplus,        \* CollSurplusPool: ETH, and the balance of every borrower
    zusd,           \* who holds the ZUSD: users, the GasPool, the StabilityPool
    price,          \* what priceFeed.fetchPrice() returns
    tx              \* the transaction that is looping over troves, or Idle

contracts == <<Troves, TroveOwners, sortedTroves, stakes, rewards,
               activePool, defaultPool, surplus, zusd>>
vars == <<Troves, TroveOwners, sortedTroves, stakes, rewards,
          activePool, defaultPool, surplus, zusd, price, tx>>

Status == {"nonExistent", "active", "closedByOwner", "closedByLiquidation",
           "closedByRedemption"}

Idle == [op |-> "none"]

NoTrove == [status |-> "nonExistent", debt |-> 0, coll |-> 0, stake |-> 0,
            arrayIndex |-> 0, ETH |-> 0, ZUSDDebt |-> 0]

(* The contracts after deployment. *)
InitContracts ==
    /\ Troves = [b \in Borrowers |-> NoTrove]
    /\ TroveOwners = << >>
    /\ sortedTroves = << >>
    /\ stakes = [total |-> 0, totalSnapshot |-> 0, collateralSnapshot |-> 0]
    /\ rewards = [L_ETH |-> 0, L_ZUSDDebt |-> 0, ETHError |-> 0, ZUSDDebtError |-> 0]
    /\ activePool = [ETH |-> 0, ZUSDDebt |-> 0]
    /\ defaultPool = [ETH |-> 0, ZUSDDebt |-> 0]
    /\ surplus = [ETH |-> 0, balances |-> [b \in Borrowers |-> 0]]
    /\ zusd = [users |-> 0, gasPool |-> 0, stabilityPool |-> 0]
    /\ tx = Idle

isActive(b) == Troves[b].status = "active"
-----------------------------------------------------------------------------
(* System totals *)

getEntireSystemColl == activePool.ETH + defaultPool.ETH
getEntireSystemDebt == activePool.ZUSDDebt + defaultPool.ZUSDDebt
getTCR == computeCR(getEntireSystemColl, getEntireSystemDebt, price)
checkRecoveryMode == getTCR < CCR
-----------------------------------------------------------------------------
(* Pending rewards *)

(* A slip: all rewards ever distributed, whenever the trove was opened. *)
pendingSinceDeployment(t, L, snapshot) ==
    IF t.status # "active" THEN 0 ELSE (t.stake * L) \div DECIMAL_PRECISION

pendingOf(t, L, snapshot) ==
    IF L - snapshot = 0 \/ t.status # "active" THEN 0
    ELSE (t.stake * (L - snapshot)) \div DECIMAL_PRECISION

getPendingETHReward(b) == pendingOf(Troves[b], rewards.L_ETH, Troves[b].ETH)
getPendingZUSDDebtReward(b) == pendingOf(Troves[b], rewards.L_ZUSDDebt, Troves[b].ZUSDDebt)

entireColl(b) == Troves[b].coll + getPendingETHReward(b)
entireDebt(b) == Troves[b].debt + getPendingZUSDDebtReward(b)

getCurrentICR(b) == computeCR(entireColl(b), entireDebt(b), price)
getNominalICR(b) == computeNominalCR(entireColl(b), entireDebt(b))

hasPendingRewards(b) == isActive(b) /\ Troves[b].ETH < rewards.L_ETH

(* What _applyPendingRewards moves, and the trove it leaves behind. *)
appliedETH(b) == IF hasPendingRewards(b) THEN getPendingETHReward(b) ELSE 0
appliedZUSDDebt(b) == IF hasPendingRewards(b) THEN getPendingZUSDDebtReward(b) ELSE 0

(* A slip: the snapshots stay behind. *)
applyWithoutSnapshot(b) ==
    [Troves[b] EXCEPT !.coll = Troves[b].coll + appliedETH(b),
                      !.debt = Troves[b].debt + appliedZUSDDebt(b)]

applyPendingRewards(b) ==
    IF hasPendingRewards(b)
    THEN [Troves[b] EXCEPT !.coll = entireColl(b), !.debt = entireDebt(b),
                           !.ETH = rewards.L_ETH, !.ZUSDDebt = rewards.L_ZUSDDebt]
    ELSE Troves[b]

(* A pool after ETH and debt came in; what leaves is negative. *)
adding(pool, ETH, ZUSDDebt) ==
    [ETH |-> pool.ETH + ETH, ZUSDDebt |-> pool.ZUSDDebt + ZUSDDebt]
-----------------------------------------------------------------------------
(* Stakes *)

(* The assertion in the code is a conjunct of TypeOK. *)
computeNewStake(coll) ==
    IF stakes.collateralSnapshot = 0 THEN coll
    ELSE (coll * stakes.totalSnapshot) \div stakes.collateralSnapshot

(* The trove t with the stake its collateral entitles it to. *)
staked(t) == [t EXCEPT !.stake = computeNewStake(t.coll)]

(* totalStakes after the stake of one trove changed from t to u. *)
totalStakesAfter(t, u) == [stakes EXCEPT !.total = stakes.total - t.stake + u.stake]
-----------------------------------------------------------------------------
(* The sorted list, as SortedTroves and SortedList promise it *)

positions(list, b) == {i \in 1 .. Len(list) : list[i] = b}

without(list, b) ==
    IF positions(list, b) = {} THEN list
    ELSE LET i == CHOOSE i \in positions(list, b) : TRUE
         IN  SubSeq(list, 1, i - 1) \o SubSeq(list, i + 1, Len(list))

(* list with b after its first i entries *)
insertAfter(list, i, b) == SubSeq(list, 1, i) \o <<b>> \o SubSeq(list, i + 1, Len(list))

(* A slip: only the neighbour in front is compared. *)
validAfterPrev(list, i, NICR) == i # 0 => getNominalICR(list[i]) >= NICR

validInsertPosition(list, i, NICR) ==
    /\ i # 0 => getNominalICR(list[i]) >= NICR
    /\ i # Len(list) => NICR >= getNominalICR(list[i + 1])

last(list) == list[Len(list)]
getPrev(b) ==
    LET before == {i \in 1 .. Len(sortedTroves) - 1 : sortedTroves[i + 1] = b}
    IN  IF before = {} THEN NULL ELSE sortedTroves[CHOOSE i \in before : TRUE]

(* insert, or reInsert for a borrower in the list, with any hints: the     *)
(* list takes one of the valid positions.                                  *)
reInsert(b, NICR) ==
    LET rest == without(sortedTroves, b)
    IN  \E i \in 0 .. Len(rest) :
          /\ validInsertPosition(rest, i, NICR)
          /\ sortedTroves' = insertAfter(rest, i, b)
-----------------------------------------------------------------------------
(* Removal of a trove *)

(* A slip: one trove is enough. *)
requireOneTroveInSystem == Len(TroveOwners) >= 1

requireMoreThanOneTroveInSystem == Len(TroveOwners) > 1 /\ Len(sortedTroves) > 1

(* _removeTroveOwner: the last owner takes the place of b. *)
indexOf(b) == Troves[b].arrayIndex + 1
lastOwner == TroveOwners[Len(TroveOwners)]

(* A slip: the last owner is dropped, whoever leaves. *)
popTroveOwner(b) == TroveOwners' = SubSeq(TroveOwners, 1, Len(TroveOwners) - 1)

removeTroveOwner(b) ==
    TroveOwners' = SubSeq([TroveOwners EXCEPT ![indexOf(b)] = lastOwner], 1, Len(TroveOwners) - 1)

(* A slip: the stake is still counted. *)
forgetStake(b) == stakes

removeStake(b) == [stakes EXCEPT !.total = stakes.total - Troves[b].stake]

(* _removeStake and _closeTrove, the latter's require left to the caller. *)
closeTrove(b, closedStatus) ==
    /\ removeTroveOwner(b)
    /\ sortedTroves' = without(sortedTroves, b)
    /\ Troves' = [a \in Borrowers |->
                    IF a = b
                    THEN [NoTrove EXCEPT !.status = closedStatus,
                                         !.arrayIndex = Troves[b].arrayIndex]
                    ELSE IF a = lastOwner
                    THEN [Troves[a] EXCEPT !.arrayIndex = Troves[b].arrayIndex]
                    ELSE Troves[a]]
    /\ stakes' = removeStake(b)

(* A slip: the reserve of a closed trove stays in the GasPool. *)
keepReserve(z) == z

(* The reserve of a trove that is closed by repayment is burned. *)
burnReserve(z) == [z EXCEPT !.gasPool = z.gasPool - ZUSD_GAS_COMPENSATION]
-----------------------------------------------------------------------------
(* Reverting *)

saved == [Troves |-> Troves, TroveOwners |-> TroveOwners, sortedTroves |-> sortedTroves,
          stakes |-> stakes, rewards |-> rewards, activePool |-> activePool,
          defaultPool |-> defaultPool, surplus |-> surplus, zusd |-> zusd]

(* A require fails: everything the transaction wrote is undone. *)
restore ==
    /\ Troves' = tx.saved.Troves /\ TroveOwners' = tx.saved.TroveOwners
    /\ sortedTroves' = tx.saved.sortedTroves /\ stakes' = tx.saved.stakes
    /\ rewards' = tx.saved.rewards /\ activePool' = tx.saved.activePool
    /\ defaultPool' = tx.saved.defaultPool /\ surplus' = tx.saved.surplus
    /\ zusd' = tx.saved.zusd /\ tx' = Idle
    /\ UNCHANGED price
=============================================================================
