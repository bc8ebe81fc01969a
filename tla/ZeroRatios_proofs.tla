------------------------- MODULE ZeroRatios_proofs -------------------------
(***************************************************************************)
(* On top of the accounts of ZeroSystem, for any number of borrowers, any   *)
(* prices and any amounts: the debt that liquidations redistribute stays    *)
(* covered by the DefaultPool, and borrowers keep the ratio of the system.  *)
(***************************************************************************)
EXTENDS ZeroLiquidations_proofs

-----------------------------------------------------------------------------
(* Pending debt *)

(* _applyPendingRewards asks only whether a trove has pending collateral.  *)
(* A redistribution too small to add to L_ETH would leave debt that no     *)
(* trove applies, under a stake that changes; without one, the DefaultPool *)
(* has the debt of all shares as it has their collateral.                  *)
RewardsGrowTogether ==
    rewards'.L_ETH = rewards.L_ETH => rewards'.L_ZUSDDebt = rewards.L_ZUSDDebt

DebtShares(Tr, r) == [b \in Borrowers |-> Tr[b].stake * (r.L_ZUSDDebt - Tr[b].ZUSDDebt)]

(* A trove without pending collateral has no pending debt. *)
SnapshotsAgree(Tr, r) ==
    \A b \in Borrowers :
        Tr[b].status = "active" /\ Tr[b].ETH = r.L_ETH => Tr[b].ZUSDDebt = r.L_ZUSDDebt

DebtKept(Tr, r, dp) ==
    /\ SnapshotsAgree(Tr, r)
    /\ SumFunction(DebtShares(Tr, r)) + r.ZUSDDebtError <= DECIMAL_PRECISION * dp.ZUSDDebt

DInv ==
    /\ DebtKept(Troves, rewards, defaultPool)
    /\ tx # Idle => DebtKept(tx.saved.Troves, tx.saved.rewards, tx.saved.defaultPool)

(* The column of the pending debt holds amounts. *)
LEMMA DebtSharesTyped ==
    ASSUME NEW Tr, NEW r, TrovesSound(Tr, r), RewardsTyped(r)
    PROVE  DebtShares(Tr, r) \in [Borrowers -> Nat] /\ SumFunction(DebtShares(Tr, r)) \in Nat
<1>1. \A b \in Borrowers : Tr[b].stake \in Nat /\ r.L_ZUSDDebt - Tr[b].ZUSDDebt \in Nat
  BY DEF TrovesSound, Sound, RewardsTyped
<1>2. \A b \in Borrowers : Tr[b].stake * (r.L_ZUSDDebt - Tr[b].ZUSDDebt) \in Nat
  BY <1>1, TimesNat, Zenon
<1>3. DebtShares(Tr, r) \in [Borrowers -> Nat]
  BY <1>2, Zenon DEF DebtShares
<1> QED
  BY <1>3, SumNat, BorrowersAssumption, Zenon

(* One trove changes, and takes the debt f out of the DefaultPool. *)
DebtStep(b, f) ==
    /\ b \in Borrowers
    /\ \A a \in Borrowers \ {b} : SameAmounts(Troves[a], Troves'[a])
    /\ rewards' = rewards
    /\ Troves'[b].status = "active" => Troves'[b].ZUSDDebt = rewards.L_ZUSDDebt
    /\ f \in Nat
    /\ DECIMAL_PRECISION * f <= Troves[b].stake * (rewards.L_ZUSDDebt - Troves[b].ZUSDDebt)
    /\ defaultPool'.ZUSDDebt = defaultPool.ZUSDDebt - f

(* Such a step keeps the pending debt covered. *)
LEMMA DebtAfter ==
    ASSUME AInv, AInv', DebtKept(Troves, rewards, defaultPool), NEW b, NEW f, DebtStep(b, f)
    PROVE  DebtKept(Troves', rewards', defaultPool')
<1> USE DEF DebtStep
<1>1. /\ TrovesSound(Troves, rewards) /\ RewardsTyped(rewards) /\ TrovesSound(Troves', rewards)
      /\ defaultPool.ZUSDDebt \in Int
  BY Zenon DEF AInv, Accounts, SharesCovered
<1>2. SnapshotsAgree(Troves', rewards')
  <2>1. ASSUME NEW a \in Borrowers, Troves'[a].status = "active", Troves'[a].ETH = rewards.L_ETH
        PROVE  Troves'[a].ZUSDDebt = rewards.L_ZUSDDebt
    BY <2>1, Zenon DEF DebtKept, SnapshotsAgree, SameAmounts
  <2> QED
    BY <2>1, Zenon DEF SnapshotsAgree
<1> DEFINE v == DebtShares(Troves, rewards)
           w == DebtShares(Troves', rewards)
<1>3. /\ v \in [Borrowers -> Nat] /\ SumFunction(v) \in Nat
      /\ w \in [Borrowers -> Nat] /\ SumFunction(w) \in Nat
  BY <1>1, DebtSharesTyped, Zenon
<1>4. ASSUME NEW a \in Borrowers \ {b}
      PROVE  w[a] = v[a]
  BY Zenon DEF DebtShares, SameAmounts
<1>5. w[b] = 0
  <2>1. /\ Troves'[b].stake \in Nat /\ rewards.L_ZUSDDebt \in Nat /\ Troves'[b].ZUSDDebt \in Nat
        /\ Troves'[b].status # "active" => Troves'[b].stake = 0
    BY <1>1, Zenon DEF TrovesSound, Sound, RewardsTyped
  <2>2. w[b] = Troves'[b].stake * (rewards.L_ZUSDDebt - Troves'[b].ZUSDDebt)
    BY Zenon DEF DebtShares
  <2>3. CASE Troves'[b].status = "active"
    BY <2>1, <2>2, <2>3
  <2>4. CASE Troves'[b].status # "active"
    BY <2>1, <2>2, <2>4
  <2> QED
    BY <2>3, <2>4, Zenon
<1>6. v[b] = Troves[b].stake * (rewards.L_ZUSDDebt - Troves[b].ZUSDDebt)
  BY Zenon DEF DebtShares
<1> HIDE DEF v, w
<1>7. SumFunction(w) = SumFunction(v) - v[b] + w[b]
  BY <1>3, <1>4, ColumnAfter, Zenon
<1> DEFINE x == DECIMAL_PRECISION * f
           y == DECIMAL_PRECISION * defaultPool.ZUSDDebt
<1>8. /\ x \in Nat /\ y \in Int /\ x <= v[b] /\ v[b] \in Nat
      /\ DECIMAL_PRECISION * defaultPool'.ZUSDDebt = y - x
  BY <1>1, <1>3, <1>6, TimesNat, LiquityBaseAssumption
<1>9. /\ SumFunction(v) + rewards.ZUSDDebtError <= y /\ rewards.ZUSDDebtError \in Nat
  BY <1>1, Zenon DEF DebtKept, RewardsTyped, v
<1> HIDE DEF x, y
<1>10. SumFunction(w) + rewards.ZUSDDebtError <= y - x
  BY <1>3, <1>5, <1>7, <1>8, <1>9
<1>11. SumFunction(DebtShares(Troves', rewards')) + rewards'.ZUSDDebtError
         <= DECIMAL_PRECISION * defaultPool'.ZUSDDebt
  BY <1>8, <1>10, Zenon DEF w
<1> QED
  BY <1>2, <1>11, Zenon DEF DebtKept

(* What _applyPendingRewards moves, and the snapshot it leaves. *)
LEMMA AppliedDebt ==
    ASSUME IInv, AInv, DInv, NEW b \in Active
    PROVE  /\ appliedZUSDDebt(b) \in Nat
           /\ DECIMAL_PRECISION * appliedZUSDDebt(b)
                <= Troves[b].stake * (rewards.L_ZUSDDebt - Troves[b].ZUSDDebt)
           /\ applyPendingRewards(b).ZUSDDebt = rewards.L_ZUSDDebt
           /\ getPendingZUSDDebtReward(b) \in Nat
           /\ DECIMAL_PRECISION * getPendingZUSDDebtReward(b)
                <= Troves[b].stake * (rewards.L_ZUSDDebt - Troves[b].ZUSDDebt)
<1>1. /\ b \in Borrowers /\ Trove(Troves[b]) /\ Troves[b].status = "active" /\ isActive(b)
      /\ SnapshotsAgree(Troves, rewards)
      /\ Troves[b].ETH \in Nat /\ Troves[b].ETH <= rewards.L_ETH /\ rewards.L_ETH \in Nat
      /\ Troves[b].ZUSDDebt \in Nat /\ Troves[b].ZUSDDebt <= rewards.L_ZUSDDebt
      /\ rewards.L_ZUSDDebt \in Nat /\ Troves[b].stake \in Nat
  BY Zenon DEF IInv, Books, Active, isActive, DInv, DebtKept, AInv, Accounts, TrovesSound, Sound,
         RewardsTyped
<1>2. /\ getPendingZUSDDebtReward(b) \in Nat
      /\ DECIMAL_PRECISION * getPendingZUSDDebtReward(b)
           <= Troves[b].stake * (rewards.L_ZUSDDebt - Troves[b].ZUSDDebt)
  BY <1>1, PendingReward, Zenon DEF getPendingZUSDDebtReward
<1>3. CASE hasPendingRewards(b)
  <2> DEFINE c == entireColl(b)
             d == entireDebt(b)
             e == rewards.L_ETH
             z == rewards.L_ZUSDDebt
             t == applyPendingRewards(b)
  <2>1. appliedZUSDDebt(b) = getPendingZUSDDebtReward(b)
    BY <1>3, Zenon DEF appliedZUSDDebt
  <2>2. t = [Troves[b] EXCEPT !.coll = c, !.debt = d, !.ETH = e, !.ZUSDDebt = z]
    BY <1>3, Zenon DEF applyPendingRewards
  <2> HIDE DEF c, d, e, z, t
  <2>3. t.ZUSDDebt = z
    BY <1>1, <2>2, Zenon DEF Trove
  <2> QED
    BY <1>2, <2>1, <2>3, Zenon DEF t, z
<1>4. CASE ~hasPendingRewards(b)
  <2>1. appliedZUSDDebt(b) = 0 /\ applyPendingRewards(b) = Troves[b]
    BY <1>4, Zenon DEF appliedZUSDDebt, applyPendingRewards
  <2>2. Troves[b].ETH = rewards.L_ETH
    BY <1>1, <1>4 DEF hasPendingRewards
  <2>3. Troves[b].ZUSDDebt = rewards.L_ZUSDDebt
    BY <1>1, <2>2, Zenon DEF SnapshotsAgree
  <2>4. DECIMAL_PRECISION * 0 <= Troves[b].stake * (rewards.L_ZUSDDebt - Troves[b].ZUSDDebt)
    <3>1. \A x, y, z \in Nat : x * 0 <= y * (z - z)
      OBVIOUS
    <3> QED
      BY <1>1, <2>3, <3>1, LiquityBaseAssumption, Zenon
  <2> QED
    BY <1>2, <2>1, <2>3, <2>4
<1> QED
  BY <1>3, <1>4, Zenon

(* Such a step keeps it in the state a revert returns to as well. *)
LEMMA DebtStepDInv ==
    ASSUME AInv, AInv', DInv, NEW b, NEW f, DebtStep(b, f),
           tx' = Idle \/ (tx # Idle /\ tx'.saved = tx.saved)
    PROVE  DInv'
<1>1. DebtKept(Troves', rewards', defaultPool')
  BY DebtAfter, Zenon DEF DInv
<1>2. tx' # Idle => DebtKept(tx'.saved.Troves, tx'.saved.rewards, tx'.saved.defaultPool)
  BY Zenon DEF DInv
<1> QED
  BY <1>1, <1>2, Zenon DEF DInv

(* A new stake leaves the snapshots alone. *)
LEMMA StakedSnapshot ==
    ASSUME NEW t, Trove(t)
    PROVE  staked(t).ZUSDDebt = t.ZUSDDebt
<1> DEFINE k == computeNewStake(t.coll)
<1>1. staked(t) = [t EXCEPT !.stake = k]
  BY Zenon DEF staked
<1> HIDE DEF k
<1> QED
  BY <1>1, Zenon DEF Trove

(* A change of a trove whose rewards were applied. *)
LEMMA UpdateDebt ==
    ASSUME IInv, AInv, DInv, NEW b \in Active, NEW u, Troves' = [Troves EXCEPT ![b] = u],
           u.ZUSDDebt = applyPendingRewards(b).ZUSDDebt, rewards' = rewards,
           defaultPool' = adding(defaultPool, -appliedETH(b), -appliedZUSDDebt(b))
    PROVE  DebtStep(b, appliedZUSDDebt(b))
<1>1. b \in Borrowers /\ Troves = [a \in Borrowers |-> Troves[a]] /\ defaultPool.ZUSDDebt \in Int
  BY Zenon DEF Active, IInv, Books, AInv, Accounts, SharesCovered
<1>2. Troves'[b] = u /\ \A a \in Borrowers \ {b} : Troves'[a] = Troves[a]
  BY <1>1, Zenon
<1>3. \A a \in Borrowers \ {b} : SameAmounts(Troves[a], Troves'[a])
  BY <1>2, Zenon DEF SameAmounts
<1>4. /\ appliedZUSDDebt(b) \in Nat
      /\ DECIMAL_PRECISION * appliedZUSDDebt(b)
           <= Troves[b].stake * (rewards.L_ZUSDDebt - Troves[b].ZUSDDebt)
      /\ applyPendingRewards(b).ZUSDDebt = rewards.L_ZUSDDebt
  BY AppliedDebt, Zenon
<1>5. defaultPool'.ZUSDDebt = defaultPool.ZUSDDebt + (-appliedZUSDDebt(b))
  BY Zenon DEF adding
<1>6. defaultPool'.ZUSDDebt = defaultPool.ZUSDDebt - appliedZUSDDebt(b)
  BY ONLY <1>1, <1>4, <1>5, Zenon
<1> QED
  BY <1>1, <1>2, <1>3, <1>4, <1>6, Zenon DEF DebtStep

(* The closing of a trove. *)
LEMMA CloseDebt ==
    ASSUME IInv, AInv, NEW b \in Active, NEW closedStatus, closedStatus # "active",
           closeTrove(b, closedStatus), rewards' = rewards, NEW e, NEW f \in Nat,
           DECIMAL_PRECISION * f <= Troves[b].stake * (rewards.L_ZUSDDebt - Troves[b].ZUSDDebt),
           defaultPool' = adding(defaultPool, -e, -f)
    PROVE  DebtStep(b, f)
<1>1. /\ b \in Borrowers /\ defaultPool.ZUSDDebt \in Int /\ RewardsTyped(rewards)
      /\ Books(Troves, TroveOwners, sortedTroves)
  BY Zenon DEF Active, IInv, AInv, Accounts, SharesCovered
<1>2. /\ Troves'[b].status # "active"
      /\ \A a \in Borrowers \ {b} : SameAmounts(Troves[a], Troves'[a])
  BY <1>1, CloseAmounts, Zenon
<1>3. defaultPool'.ZUSDDebt = defaultPool.ZUSDDebt + (-f)
  BY Zenon DEF adding
<1>4. defaultPool'.ZUSDDebt = defaultPool.ZUSDDebt - f
  BY ONLY <1>1, <1>3, f \in Nat, Zenon
<1> QED
  BY <1>1, <1>2, <1>4, Zenon DEF DebtStep

(* A new trove starts with the snapshots of the moment. *)
LEMMA OpenDebt ==
    ASSUME IInv, AInv, NEW b \in Borrowers, NEW coll, NEW ZUSDAmount, NEW rate,
           openTrove(b, coll, ZUSDAmount, rate)
    PROVE  DebtStep(b, 0)
<1> DEFINE debt == getCompositeDebt(ZUSDAmount + borrowingFee(rate, ZUSDAmount))
           e == rewards.L_ETH
           z == rewards.L_ZUSDDebt
           i == Len(TroveOwners)
           blank == [NoTrove EXCEPT !.status = "active", !.coll = coll, !.debt = debt,
                                    !.ETH = e, !.ZUSDDebt = z, !.arrayIndex = i]
           opened == staked(blank)
<1>1. /\ ~isActive(b) /\ Troves' = [Troves EXCEPT ![b] = opened]
      /\ rewards' = rewards /\ defaultPool' = defaultPool
  BY Zenon DEF openTrove
<1> HIDE DEF debt, e, z, i
<1>2. Trove(blank) /\ blank.ZUSDDebt = z
  <2>1. blank = [NoTrove EXCEPT !.status = "active", !.coll = coll, !.debt = debt,
                                !.ETH = e, !.ZUSDDebt = z, !.arrayIndex = i]
    BY Zenon
  <2> HIDE DEF blank
  <2>2. blank = [status |-> "active", debt |-> debt, coll |-> coll, stake |-> 0,
                 arrayIndex |-> i, ETH |-> e, ZUSDDebt |-> z]
    BY <2>1, Zenon DEF NoTrove
  <2> QED
    BY <2>2, Zenon DEF Trove
<1> HIDE DEF blank
<1>3. opened.ZUSDDebt = rewards.L_ZUSDDebt
  BY <1>2, StakedSnapshot, Zenon DEF z
<1> HIDE DEF opened
<1>4. Troves = [a \in Borrowers |-> Troves[a]] /\ defaultPool.ZUSDDebt \in Int
  BY Zenon DEF IInv, Books, AInv, Accounts, SharesCovered
<1>5. Troves'[b] = opened /\ \A a \in Borrowers \ {b} : Troves'[a] = Troves[a]
  BY <1>1, <1>4, Zenon
<1>6. \A a \in Borrowers \ {b} : SameAmounts(Troves[a], Troves'[a])
  BY <1>5, Zenon DEF SameAmounts
<1>7. /\ Troves[b].stake = 0 /\ Troves[b].ZUSDDebt \in Nat /\ rewards.L_ZUSDDebt \in Nat
  BY <1>1, Zenon DEF AInv, Accounts, TrovesSound, Sound, isActive, RewardsTyped
<1>8. DECIMAL_PRECISION * 0 <= Troves[b].stake * (rewards.L_ZUSDDebt - Troves[b].ZUSDDebt)
  BY <1>7, LiquityBaseAssumption
<1>9. defaultPool'.ZUSDDebt = defaultPool.ZUSDDebt - 0
  BY <1>1, <1>4
<1> QED
  BY <1>1, <1>3, <1>5, <1>6, <1>8, <1>9, Zenon DEF DebtStep

(* The transactions of borrowers. *)
LEMMA BorrowerDInv ==
    ASSUME IInv, AInv, AInv', DInv, NEW b \in Borrowers, NEW collIn \in Nat, NEW collOut \in Nat,
           NEW ZUSDChange \in Nat, NEW isDebtIncrease \in BOOLEAN, NEW rate \in Nat,
           \/ openTrove(b, collIn, ZUSDChange, rate)
           \/ adjustTrove(b, collIn, collOut, ZUSDChange, isDebtIncrease, rate)
           \/ closeOwnTrove(b)
    PROVE  DInv'
<1>1. tx' = Idle
  BY Zenon DEF openTrove, adjustTrove, closeOwnTrove
<1>2. CASE openTrove(b, collIn, ZUSDChange, rate)
  BY <1>1, <1>2, OpenDebt, DebtStepDInv, Zenon
<1>3. CASE adjustTrove(b, collIn, collOut, ZUSDChange, isDebtIncrease, rate)
  <2> DEFINE t == applyPendingRewards(b)
             netDebtChange == IF isDebtIncrease THEN ZUSDChange + borrowingFee(rate, ZUSDChange)
                              ELSE ZUSDChange
             newColl == t.coll + (collIn - collOut)
             newDebt == t.debt + (IF isDebtIncrease THEN netDebtChange ELSE -netDebtChange)
             changed == [t EXCEPT !.coll = newColl, !.debt = newDebt]
             u == staked(changed)
  <2>1. /\ isActive(b) /\ rewards' = rewards /\ Troves' = [Troves EXCEPT ![b] = u]
        /\ defaultPool' = adding(defaultPool, -appliedETH(b), -appliedZUSDDebt(b))
    BY <1>3, Zenon DEF adjustTrove
  <2>2. b \in Active /\ Trove(Troves[b]) /\ Sound(Troves[b], rewards) /\ RewardsTyped(rewards)
    BY <2>1, Zenon DEF Active, IInv, Books, AInv, Accounts, TrovesSound
  <2>3. Trove(t)
    BY <2>2, Applied, Zenon
  <2> HIDE DEF t, newColl, newDebt
  <2>4. Trove(changed) /\ changed.ZUSDDebt = t.ZUSDDebt
    <3>1. changed = [t EXCEPT !.coll = newColl, !.debt = newDebt]
      BY Zenon
    <3> HIDE DEF changed
    <3> QED
      BY <2>3, <3>1, Zenon DEF Trove
  <2> HIDE DEF changed
  <2>5. u.ZUSDDebt = applyPendingRewards(b).ZUSDDebt
    BY <2>4, StakedSnapshot, Zenon DEF t
  <2> HIDE DEF u
  <2>6. DebtStep(b, appliedZUSDDebt(b))
    BY <2>1, <2>2, <2>5, UpdateDebt, Zenon
  <2> QED
    BY <1>1, <2>6, DebtStepDInv, Zenon
<1>4. CASE closeOwnTrove(b)
  <2>1. /\ b \in Active /\ rewards' = rewards /\ closeTrove(b, "closedByOwner")
        /\ defaultPool' = adding(defaultPool, -appliedETH(b), -appliedZUSDDebt(b))
    BY <1>4, Zenon DEF closeOwnTrove, Active
  <2>2. DebtStep(b, appliedZUSDDebt(b))
    BY <2>1, AppliedDebt, CloseDebt, Zenon
  <2> QED
    BY <1>1, <2>2, DebtStepDInv
<1> QED
  BY <1>2, <1>3, <1>4, Zenon

(* The iterations of a liquidation and of a redemption. *)
LEMMA IterationDInv ==
    ASSUME IInv, AInv, AInv', DInv,
           liquidateTrove \/ redeemWholeTrove \/ redeemPartOfTrove \/ cancelPartial
    PROVE  DInv'
<1>1. CASE liquidateTrove
  <2> DEFINE b == visited
             v == singleLiquidation(b)
  <2>1. /\ looping /\ tx.op = "liquidate" /\ v # zeroVals /\ rewards' = rewards
        /\ closeTrove(b, "closedByLiquidation") /\ tx' = advance(b, v)
        /\ defaultPool' = adding(defaultPool, -getPendingETHReward(b),
                                              -getPendingZUSDDebtReward(b))
    BY <1>1, Zenon DEF liquidateTrove, looping
  <2>2. b \in Active /\ LiquidationTx(tx) /\ tx # Idle
    BY <2>1, LiquidatesActive, LiquidationPart DEF LiquidationGood, Idle
  <2>3. v.ZUSDGasCompensation \in Int
    <3>1. /\ Sound(Troves[b], rewards) /\ RewardsTyped(rewards) /\ price \in Prices
          /\ tx.remainingZUSDInStabPool \in Nat
      BY <2>1, <2>2, LiquidatingPart, Zenon DEF Accounts, TrovesSound, Active, Tallied
    <3>2. Split(v)
      BY <2>1, <2>2, <3>1, Yields, Zenon
    <3> QED
      BY <3>2 DEF Split
  <2>4. DebtStep(b, getPendingZUSDDebtReward(b))
    BY <2>1, <2>2, AppliedDebt, CloseDebt, Zenon
  <2> HIDE DEF b, v
  <2>5. tx'.saved = tx.saved
    BY <2>1, <2>2, <2>3, AdvanceKeeps, Zenon
  <2> QED
    BY <2>2, <2>4, <2>5, DebtStepDInv, Zenon
<1> DEFINE b == tx.user
           t == applyPendingRewards(b)
           f == appliedZUSDDebt(b)
<1>2. ASSUME redeemWholeTrove \/ redeemPartOfTrove \/ cancelPartial
      PROVE  /\ tx # Idle /\ b \in Active /\ RedemptionTx(tx) /\ rewards' = rewards
             /\ Trove(t) /\ collCoversLot(t) /\ Sound(t, rewards) /\ t.status = "active"
             /\ tx.remainingZUSD \in Nat /\ price \in Prices
             /\ defaultPool' = adding(defaultPool, -appliedETH(b), -f)
  <2>1. /\ tx.op = "redeem" /\ b # NULL /\ rewards' = rewards /\ collCoversLot(t)
        /\ defaultPool' = adding(defaultPool, -appliedETH(b), -f)
    BY <1>2, Zenon DEF redeemWholeTrove, redeemPartOfTrove, cancelPartial, redeeming
  <2>2. tx # Idle /\ RedemptionTx(tx) /\ b \in Active
    BY <2>1, RedemptionPart DEF RedemptionGood, Idle
  <2>3. /\ Trove(Troves[b]) /\ Sound(Troves[b], rewards) /\ RewardsTyped(rewards)
        /\ tx.remainingZUSD \in Nat /\ price \in Prices
    BY <2>1, <2>2, RedeemingPart, Zenon DEF IInv, Books, Active, Accounts, TrovesSound, Affordable
  <2>4. Trove(t) /\ Sound(t, rewards) /\ t.status = "active"
    BY <2>2, <2>3, Applied, Zenon
  <2> QED
    BY <2>1, <2>2, <2>3, <2>4, Zenon
<1>3. CASE redeemWholeTrove
  <2>1. closeTrove(b, "closedByRedemption") /\ tx' = drawn(b, t)
    BY <1>3, Zenon DEF redeemWholeTrove
  <2>2. DebtStep(b, f)
    BY <1>2, <1>3, <2>1, AppliedDebt, CloseDebt, Zenon
  <2>3. tx'.saved = tx.saved
    BY <1>2, <1>3, <2>1, DrawnKeeps
  <2> QED
    BY <1>2, <1>3, <2>2, <2>3, DebtStepDInv, Zenon
<1>4. CASE redeemPartOfTrove
  <2> DEFINE w == redeemed(t)
             u == staked(w)
  <2>1. Troves' = [Troves EXCEPT ![b] = u] /\ tx' = drawn(b, t)
    BY <1>4, Zenon DEF redeemPartOfTrove
  <2>2. Trove(w) /\ w.ZUSDDebt = t.ZUSDDebt
    BY <1>2, <1>4, LotTyped, Zenon
  <2>3. u.ZUSDDebt = applyPendingRewards(b).ZUSDDebt
    BY <2>2, StakedSnapshot, Zenon
  <2> HIDE DEF u
  <2>4. DebtStep(b, f)
    BY <1>2, <1>4, <2>1, <2>3, UpdateDebt, Zenon
  <2>5. tx'.saved = tx.saved
    BY <1>2, <1>4, <2>1, DrawnKeeps
  <2> QED
    BY <1>2, <1>4, <2>4, <2>5, DebtStepDInv, Zenon
<1>5. CASE cancelPartial
  <2>1. Troves' = [Troves EXCEPT ![b] = t] /\ tx' = [tx EXCEPT !.left = 0]
    BY <1>5, Zenon DEF cancelPartial
  <2>2. DebtStep(b, f)
    BY <1>2, <1>5, <2>1, UpdateDebt, Zenon
  <2>3. tx'.saved = tx.saved
    BY <1>2, <1>5, <2>1, Zenon DEF RedemptionTx
  <2> QED
    BY <1>2, <1>5, <2>2, <2>3, DebtStepDInv, Zenon
<1> QED
  BY <1>1, <1>3, <1>4, <1>5, Zenon

(* The debt that is redistributed goes to the shares and the error carried *)
(* over, whole.                                                            *)
LEMMA RedistributesDebt ==
    ASSUME NEW debt \in Nat, NEW coll \in Nat,
           TrovesSound(Troves, rewards), RewardsTyped(rewards),
           stakes.total \in Nat, stakes.total = SumFunction(Stakes(Troves)),
           debt > 0 => stakes.total > 0,
           NEW new, new = redistributeDebtAndColl(debt, coll),
           TrovesSound(Troves, new), RewardsTyped(new)
    PROVE  SumFunction(DebtShares(Troves, new)) + new.ZUSDDebtError
             = SumFunction(DebtShares(Troves, rewards)) + rewards.ZUSDDebtError
                 + debt * DECIMAL_PRECISION
<1>1. /\ SumFunction(DebtShares(Troves, rewards)) \in Nat
      /\ DebtShares(Troves, rewards) \in [Borrowers -> Nat]
      /\ DebtShares(Troves, new) \in [Borrowers -> Nat]
      /\ Stakes(Troves) \in [Borrowers -> Nat]
  BY DebtSharesTyped, ColumnsTyped, Zenon
<1>2. /\ rewards.L_ZUSDDebt \in Nat /\ rewards.ZUSDDebtError \in Nat
      /\ DECIMAL_PRECISION \in Nat \ {0}
  BY LiquityBaseAssumption, Zenon DEF RewardsTyped
<1>3. CASE debt = 0
  <2>1. new = rewards
    BY <1>3, Zenon DEF redistributeDebtAndColl
  <2>2. debt * DECIMAL_PRECISION = 0
    BY <1>2, <1>3
  <2> QED
    BY <1>1, <1>2, <2>1, <2>2
<1>4. CASE debt # 0
  <2> DEFINE x == debt * DECIMAL_PRECISION
             m == x + rewards.ZUSDDebtError
             l == m \div stakes.total
             w == m % stakes.total
             q == stakes.total * l
  <2>1. x \in Nat /\ m \in Nat /\ stakes.total \in Nat \ {0}
    <3>1. x \in Nat
      BY <1>2, TimesNat, Zenon
    <3> QED
      BY <1>2, <1>4, <3>1
  <2>2. new.L_ZUSDDebt = rewards.L_ZUSDDebt + l /\ new.ZUSDDebtError = w
    BY <1>4, Zenon DEF redistributeDebtAndColl, perUnitStaked, errorAfter
  <2>3. m = x + rewards.ZUSDDebtError
    BY Zenon
  <2> HIDE DEF x, m
  <2>4. l \in Nat /\ w \in Nat /\ m = q + w
    BY <2>1, DivMod, Zenon
  <2> HIDE DEF l, w
  <2>5. q \in Nat /\ q = l * SumFunction(Stakes(Troves))
    BY <2>1, <2>4, TimesNat
  <2>6. SumFunction(DebtShares(Troves, new))
          = SumFunction(DebtShares(Troves, rewards)) + l * SumFunction(Stakes(Troves))
    <3>1. /\ DebtShares(Troves, new) \in [Borrowers -> Int]
          /\ DebtShares(Troves, rewards) \in [Borrowers -> Int]
          /\ Stakes(Troves) \in [Borrowers -> Int] /\ l \in Int
      BY <1>1, <2>4
    <3>2. ASSUME NEW b \in Borrowers
          PROVE  DebtShares(Troves, new)[b] = DebtShares(Troves, rewards)[b] + l * Stakes(Troves)[b]
      <4> DEFINE j == Troves[b].stake
                 y == rewards.L_ZUSDDebt
                 z == Troves[b].ZUSDDebt
      <4>1. j \in Nat /\ y \in Nat /\ z \in Nat
        BY <1>2, Zenon DEF TrovesSound, Sound
      <4>2. /\ DebtShares(Troves, new)[b] = j * (new.L_ZUSDDebt - z)
            /\ DebtShares(Troves, rewards)[b] = j * (y - z) /\ Stakes(Troves)[b] = j
        BY Zenon DEF DebtShares, Stakes
      <4>3. new.L_ZUSDDebt = y + l
        BY <2>2, Zenon
      <4> HIDE DEF j, y, z
      <4>4. j * ((y + l) - z) = j * (y - z) + l * j
        BY <2>4, <4>1
      <4> QED
        BY <4>2, <4>3, <4>4, Zenon
    <3> QED
      BY ONLY <3>1, <3>2, SumLinear, BorrowersAssumption
  <2> HIDE DEF q
  <2>7. SumFunction(DebtShares(Troves, new)) = SumFunction(DebtShares(Troves, rewards)) + q
    BY ONLY <2>5, <2>6, Zenon
  <2>8. SumFunction(DebtShares(Troves, new)) + new.ZUSDDebtError
          = SumFunction(DebtShares(Troves, rewards)) + rewards.ZUSDDebtError + x
    <3> DEFINE i == SumFunction(DebtShares(Troves, new))
               j == SumFunction(DebtShares(Troves, rewards))
               k == rewards.ZUSDDebtError
               n == new.ZUSDDebtError
    <3>1. /\ i = j + q /\ n = w /\ m = x + k /\ m = q + w
          /\ j \in Nat /\ q \in Nat /\ w \in Nat /\ x \in Nat /\ k \in Nat
      BY <1>1, <1>2, <2>1, <2>2, <2>3, <2>4, <2>5, <2>7, Zenon
    <3> HIDE DEF i, j, k, n
    <3>2. i + n = j + k + x
      BY ONLY <3>1
    <3> QED
      BY ONLY <3>2, Zenon DEF i, j, k, n
  <2> QED
    BY <2>8, Zenon DEF x
<1> QED
  BY <1>3, <1>4, Zenon

(* The settlement of a liquidation. *)
LEMMA FinishLiquidationDInv ==
    ASSUME AInv, AInv', DInv, RewardsGrowTogether, finishLiquidation
    PROVE  DInv'
<1> DEFINE debt == tx.totals.debtToRedistribute
           coll == tx.totals.collToRedistribute
           y == DECIMAL_PRECISION * defaultPool.ZUSDDebt
           x == debt * DECIMAL_PRECISION
<1>1. /\ tx.op = "liquidate" /\ tx' = Idle /\ Troves' = Troves
      /\ debt > 0 => stakes.total > 0
      /\ rewards' = redistributeDebtAndColl(debt, coll)
      /\ defaultPool'.ZUSDDebt = defaultPool.ZUSDDebt + debt
  BY Zenon DEF finishLiquidation, requireLiquidation, adding
<1>2. /\ debt \in Nat /\ coll \in Nat /\ stakes.total \in Nat
      /\ TrovesSound(Troves, rewards) /\ RewardsTyped(rewards)
      /\ TrovesSound(Troves, rewards') /\ RewardsTyped(rewards')
      /\ stakes.total = SumFunction(Stakes(Troves)) /\ defaultPool.ZUSDDebt \in Int
  <2>1. Split(tx.totals)
    BY <1>1, LiquidatingPart, Zenon DEF Tallied
  <2>2. TrovesSound(Troves', rewards') /\ RewardsTyped(rewards')
    BY Zenon DEF AInv, Accounts
  <2> QED
    BY <1>1, <2>1, <2>2, Zenon DEF Split, AInv, Accounts, StakesTyped, SharesCovered
<1> HIDE DEF debt, coll
<1>3. SumFunction(DebtShares(Troves, rewards')) + rewards'.ZUSDDebtError
        = SumFunction(DebtShares(Troves, rewards)) + rewards.ZUSDDebtError + x
  BY <1>1, <1>2, RedistributesDebt, Zenon
<1>4. /\ SumFunction(DebtShares(Troves, rewards)) + rewards.ZUSDDebtError <= y
      /\ SumFunction(DebtShares(Troves, rewards)) \in Nat /\ rewards.ZUSDDebtError \in Nat
  BY <1>2, DebtSharesTyped, Zenon DEF DInv, DebtKept, RewardsTyped
<1>5. x \in Nat /\ y \in Int /\ DECIMAL_PRECISION * defaultPool'.ZUSDDebt = y + x
  BY <1>1, <1>2, TimesNat, LiquityBaseAssumption
<1> HIDE DEF x, y
<1>6. SumFunction(DebtShares(Troves', rewards')) + rewards'.ZUSDDebtError
        <= DECIMAL_PRECISION * defaultPool'.ZUSDDebt
  BY <1>1, <1>3, <1>4, <1>5
<1>7. SnapshotsAgree(Troves', rewards')
  <2>1. ASSUME NEW b \in Borrowers, Troves[b].status = "active", Troves[b].ETH = rewards'.L_ETH
        PROVE  Troves[b].ZUSDDebt = rewards'.L_ZUSDDebt
    <3>1. /\ Troves[b].ETH \in Nat /\ Troves[b].ETH <= rewards.L_ETH /\ rewards.L_ETH \in Nat
          /\ rewards'.L_ETH \in Nat
      BY <1>2, Zenon DEF TrovesSound, Sound, RewardsTyped
    <3>2. rewards.L_ETH <= rewards'.L_ETH
      <4>1. CASE debt = 0
        BY <1>1, <3>1, <4>1 DEF redistributeDebtAndColl
      <4>2. CASE debt # 0
        <5> DEFINE n == coll * DECIMAL_PRECISION + rewards.ETHError
        <5>1. n \in Nat /\ stakes.total \in Nat \ {0}
          <6>1. coll * DECIMAL_PRECISION \in Nat /\ rewards.ETHError \in Nat
            BY <1>2, TimesNat, LiquityBaseAssumption, Zenon DEF RewardsTyped
          <6> QED
            BY <1>1, <1>2, <4>2, <6>1
        <5>2. rewards'.L_ETH = rewards.L_ETH + n \div stakes.total
          BY <1>1, <4>2, Zenon DEF redistributeDebtAndColl, perUnitStaked
        <5> HIDE DEF n
        <5>3. n \div stakes.total \in Nat
          BY <5>1, RoundsDown, Zenon
        <5> QED
          BY <3>1, <5>2, <5>3
      <4> QED
        BY <4>1, <4>2, Zenon
    <3>3. rewards'.L_ETH = rewards.L_ETH
      BY <2>1, <3>1, <3>2
    <3> QED
      BY <2>1, <3>3, Zenon DEF RewardsGrowTogether, DInv, DebtKept, SnapshotsAgree
  <2> QED
    BY <1>1, <2>1, Zenon DEF SnapshotsAgree
<1> QED
  BY <1>1, <1>6, <1>7, Zenon DEF DInv, DebtKept

(* After deployment nothing is pending. *)
LEMMA InitDInv == Init => DInv
<1> SUFFICES ASSUME Init PROVE DInv
  BY Zenon
<1> USE DEF Init, InitContracts
<1>1. /\ rewards.L_ZUSDDebt = 0 /\ rewards.ZUSDDebtError = 0 /\ defaultPool.ZUSDDebt = 0
      /\ tx = Idle
  BY Zenon
<1>2. ASSUME NEW b \in Borrowers
      PROVE  Troves[b].stake = 0 /\ Troves[b].ZUSDDebt = 0
  BY Zenon DEF NoTrove
<1>3. DebtShares(Troves, rewards) \in [Borrowers -> Int]
      /\ \A b \in Borrowers : DebtShares(Troves, rewards)[b] = 0
  BY <1>1, <1>2 DEF DebtShares
<1>4. SumFunction(DebtShares(Troves, rewards)) = 0
  BY <1>3, SumZero, BorrowersAssumption, Zenon
<1>5. 0 <= DECIMAL_PRECISION * 0
  BY LiquityBaseAssumption
<1> HIDE DEF Init, InitContracts
<1>6. SnapshotsAgree(Troves, rewards)
  BY ONLY <1>1, <1>2, Zenon DEF SnapshotsAgree
<1>7. DebtKept(Troves, rewards, defaultPool)
  BY ONLY <1>1, <1>4, <1>5, <1>6 DEF DebtKept
<1> QED
  BY ONLY <1>1, <1>7, Zenon DEF DInv

(* Every step that does not share out debt alone. *)
LEMMA NextDInv ==
    ASSUME IInv, AInv, AInv', DInv, [Next]_vars, [RewardsGrowTogether]_vars
    PROVE  DInv'
<1>1. ASSUME Troves' = Troves, rewards' = rewards, defaultPool' = defaultPool,
             tx' = Idle \/ (tx # Idle /\ tx'.saved = tx.saved) \/ tx'.saved = saved
      PROVE  DInv'
  <2>1. /\ saved.Troves = Troves /\ saved.rewards = rewards /\ saved.defaultPool = defaultPool
    BY Zenon DEF saved
  <2>2. DebtKept(Troves', rewards', defaultPool')
    BY <1>1, Zenon DEF DInv
  <2>3. tx' # Idle => DebtKept(tx'.saved.Troves, tx'.saved.rewards, tx'.saved.defaultPool)
    BY <1>1, <2>1, Zenon DEF DInv
  <2> QED
    BY <2>2, <2>3, Zenon DEF DInv
<1>2. CASE UNCHANGED vars
  <2>1. Troves' = Troves /\ rewards' = rewards /\ defaultPool' = defaultPool /\ tx' = tx
    BY <1>2, Zenon DEF vars, contracts
  <2> QED
    BY <1>1, <2>1, Zenon
<1>3. CASE BorrowerTransaction
  <2>1. PICK b \in Borrowers :
           \/ \E coll \in OpenColl, amount \in OpenZUSD, rate \in BorrowingRates :
                 openTrove(b, coll, amount, rate)
           \/ \E collIn, collOut \in AdjustColl \cup {0}, amount \in AdjustZUSD \cup {0},
                 rate \in BorrowingRates, isDebtIncrease \in BOOLEAN :
                 adjustTrove(b, collIn, collOut, amount, isDebtIncrease, rate)
           \/ closeOwnTrove(b)
           \/ claimCollateral(b)
    BY <1>3, Zenon DEF BorrowerTransaction
  <2>2. /\ OpenColl \subseteq Nat /\ OpenZUSD \subseteq Nat /\ BorrowingRates \subseteq Nat
        /\ AdjustColl \cup {0} \subseteq Nat /\ AdjustZUSD \cup {0} \subseteq Nat
        /\ 0 \in Nat /\ TRUE \in BOOLEAN
    BY InputsAssumption
  <2>3. CASE \E coll \in OpenColl, amount \in OpenZUSD, rate \in BorrowingRates :
                openTrove(b, coll, amount, rate)
    <3>1. PICK coll \in Nat, amount \in Nat, rate \in Nat : openTrove(b, coll, amount, rate)
      BY <2>2, <2>3, Zenon
    <3> QED
      BY <2>2, <3>1, BorrowerDInv, Zenon
  <2>4. CASE \E collIn, collOut \in AdjustColl \cup {0}, amount \in AdjustZUSD \cup {0},
                rate \in BorrowingRates, isDebtIncrease \in BOOLEAN :
                adjustTrove(b, collIn, collOut, amount, isDebtIncrease, rate)
    <3>1. PICK collIn \in Nat, collOut \in Nat, amount \in Nat, rate \in Nat,
               isDebtIncrease \in BOOLEAN :
               adjustTrove(b, collIn, collOut, amount, isDebtIncrease, rate)
      BY <2>2, <2>4, Zenon
    <3> QED
      BY <3>1, BorrowerDInv, Zenon
  <2>5. CASE closeOwnTrove(b)
    BY <2>2, <2>5, BorrowerDInv, Zenon
  <2>6. CASE claimCollateral(b)
    BY <1>1, <2>6, Zenon DEF claimCollateral
  <2> QED
    BY <2>1, <2>3, <2>4, <2>5, <2>6, Zenon
<1>4. CASE LiquidatorTransaction
  BY <1>1, <1>4 DEF LiquidatorTransaction, liquidateTroves, batchLiquidateTroves, liquidate,
                    startLiquidation, contracts
<1>5. CASE RedeemerTransaction
  BY <1>1, <1>5 DEF RedeemerTransaction, redeemCollateral, contracts
<1>6. CASE DepositorTransaction \/ \E p \in Prices : setPrice(p)
  BY <1>1, <1>6, Zenon DEF DepositorTransaction, provideToSP, withdrawFromSP, setPrice, contracts
<1>7. CASE Continue
  <2>1. CASE liquidateTrove \/ redeemWholeTrove \/ redeemPartOfTrove \/ cancelPartial
    BY <2>1, IterationDInv, Zenon
  <2>2. CASE skipTrove
    <3>1. /\ tx.op = "liquidate" /\ tx' = advance(visited, zeroVals)
          /\ Troves' = Troves /\ rewards' = rewards /\ defaultPool' = defaultPool
      BY <2>2, Zenon DEF skipTrove, looping, contracts
    <3>2. LiquidationTx(tx) /\ tx # Idle
      BY <3>1, LiquidationPart DEF LiquidationGood, Idle
    <3>3. zeroVals.ZUSDGasCompensation \in Int
      BY DEF zeroVals, LiquidationFields
    <3>4. tx'.saved = tx.saved
      BY <3>1, <3>2, <3>3, AdvanceKeeps, Zenon
    <3> QED
      BY <1>1, <3>1, <3>2, <3>4, Zenon
  <2>3. CASE finishLiquidation
    <3>1. CASE RewardsGrowTogether
      BY <2>3, <3>1, FinishLiquidationDInv, Zenon
    <3> QED
      BY <1>2, <3>1, Zenon
  <2>4. CASE finishRedemption
    BY <1>1, <2>4, Zenon DEF finishRedemption
  <2>5. CASE revertLiquidation \/ revertRedemption
    <3>1. restore /\ tx # Idle
      BY <2>5 DEF revertLiquidation, revertRedemption, Idle
    <3>2. /\ Troves' = tx.saved.Troves /\ rewards' = tx.saved.rewards
          /\ defaultPool' = tx.saved.defaultPool /\ tx' = Idle
      BY <3>1, Zenon DEF restore
    <3> QED
      BY <3>1, <3>2, Zenon DEF DInv
  <2> QED
    BY <1>7, <2>1, <2>2, <2>3, <2>4, <2>5, Zenon DEF Continue
<1> QED
  BY <1>2, <1>3, <1>4, <1>5, <1>6, <1>7, Zenon DEF Next

(* Rounding never promises more debt than was redistributed either, unless *)
(* a redistribution adds to L_ZUSDDebt and not to L_ETH; the DefaultPool   *)
(* then never runs out of the debt it passes on.                           *)
THEOREM PendingDebtIsCovered ==
    Spec /\ [][RewardsGrowTogether]_vars
      => [](DefaultPoolCoversDebt /\ defaultPool.ZUSDDebt \in Nat)
<1>1. Init => IInv /\ AInv /\ DInv
  BY InitIInv, InitAInv, InitDInv, Zenon
<1>2. IInv /\ AInv /\ DInv /\ [Next]_vars /\ [RewardsGrowTogether]_vars => (IInv /\ AInv /\ DInv)'
  BY NextIInv, NextAInv, NextDInv, Zenon
<1>3. AInv /\ DInv => DefaultPoolCoversDebt /\ defaultPool.ZUSDDebt \in Nat
  <2> SUFFICES ASSUME AInv, DInv
               PROVE  DefaultPoolCoversDebt /\ defaultPool.ZUSDDebt \in Nat
    BY Zenon
  <2> DEFINE x == SumFunction(DebtShares(Troves, rewards)) + rewards.ZUSDDebtError
  <2>1. x <= DECIMAL_PRECISION * defaultPool.ZUSDDebt
    BY Zenon DEF DInv, DebtKept
  <2>2. x \in Nat /\ defaultPool.ZUSDDebt \in Int
    <3>1. TrovesSound(Troves, rewards) /\ RewardsTyped(rewards) /\ defaultPool.ZUSDDebt \in Int
      BY Zenon DEF AInv, Accounts, SharesCovered
    <3>2. SumFunction(DebtShares(Troves, rewards)) \in Nat /\ rewards.ZUSDDebtError \in Nat
      BY <3>1, DebtSharesTyped, Zenon DEF RewardsTyped
    <3> QED
      BY <3>1, <3>2
  <2>3. DefaultPoolCoversDebt
    BY <2>1, Zenon DEF DefaultPoolCoversDebt, DebtShares
  <2> HIDE DEF x
  <2>4. defaultPool.ZUSDDebt >= 0
    <3>1. DECIMAL_PRECISION \in Nat \ {0}
      BY LiquityBaseAssumption, Zenon
    <3> QED
      BY <2>1, <2>2, <3>1
  <2> QED
    BY <2>2, <2>3, <2>4
<1> QED
  BY <1>1, <1>2, <1>3, PTL DEF Spec

-----------------------------------------------------------------------------
(* Borrowers and the total collateral ratio *)

(* A quotient is at least what its divisor fits in times. *)
LEMMA QuotientAtLeast ==
    ASSUME NEW a \in Nat, NEW n \in Nat \ {0}, NEW q \in Int, n * q <= a
    PROVE  a \div n >= q
<1> DEFINE m == a \div n
<1>1. m \in Nat /\ a < n * m + n
  BY RoundsDown, Zenon
<1> HIDE DEF m
<1>2. SUFFICES ASSUME m + 1 <= q PROVE FALSE
  BY <1>1 DEF m
<1>3. q - (m + 1) \in Nat
  BY <1>1, <1>2
<1>4. n * (q - (m + 1)) \in Nat
  BY <1>3, TimesNat, Zenon
<1>5. n * (q - (m + 1)) = n * q - n * m - n
  BY <1>1
<1> DEFINE x == n * q
           y == n * m
<1>6. x \in Int /\ y \in Int
  BY <1>1
<1> HIDE DEF x, y
<1> QED
  BY <1>1, <1>4, <1>5, <1>6 DEF x, y

(* A trove opened at or above the system's ratio does not lower it. *)
LEMMA RatioOfTwo ==
    ASSUME NEW C \in Nat, NEW D \in Nat \ {0}, NEW c \in Nat, NEW d \in Nat \ {0},
           NEW p \in Nat, (c * p) \div d >= (C * p) \div D
    PROVE  ((C + c) * p) \div (D + d) >= (C * p) \div D
<1> DEFINE T == (C * p) \div D
           q == (c * p) \div d
<1>1. C * p \in Nat /\ c * p \in Nat /\ (C + c) * p \in Nat /\ (C + c) * p = C * p + c * p
  BY TimesNat
<1>2. T \in Nat /\ D * T <= C * p
  BY <1>1, RoundsDown, Zenon
<1>3. q \in Nat /\ d * q <= c * p
  BY <1>1, RoundsDown, Zenon
<1>4. q >= T
  BY Zenon
<1> HIDE DEF T, q
<1>5. d * (q - T) \in Nat /\ d * (q - T) = d * q - d * T
  <2>1. q - T \in Nat
    BY <1>2, <1>3, <1>4
  <2> QED
    BY <1>2, <1>3, <2>1, TimesNat
<1>6. (D + d) * T = D * T + d * T
  BY <1>2
<1>7. D * T \in Nat /\ d * T \in Nat /\ d * q \in Nat
  BY <1>2, <1>3, TimesNat, Zenon
<1>8. (D + d) * T <= (C + c) * p
  BY ONLY <1>1, <1>2, <1>3, <1>5, <1>6, <1>7
<1>9. D + d \in Nat \ {0} /\ T \in Int
  BY <1>2
<1>10. ((C + c) * p) \div (D + d) >= T
  BY <1>1, <1>8, <1>9, QuotientAtLeast, Zenon
<1> QED
  BY <1>10, Zenon DEF T

(* More collateral and less debt raise the ratio. *)
LEMMA RatioOfLess ==
    ASSUME NEW C \in Nat, NEW D \in Nat \ {0}, NEW c \in Nat, NEW d \in Nat \ {0},
           NEW p \in Nat, C <= c, d <= D
    PROVE  (c * p) \div d >= (C * p) \div D
<1> DEFINE T == (C * p) \div D
<1>1. C * p \in Nat /\ c * p \in Nat
  BY TimesNat, Zenon
<1>2. T \in Nat /\ D * T <= C * p
  BY <1>1, RoundsDown, Zenon
<1> HIDE DEF T
<1>3. (c - C) * p \in Nat /\ (c - C) * p = c * p - C * p
  <2>1. c - C \in Nat
    OBVIOUS
  <2> QED
    BY <2>1, TimesNat
<1>4. (D - d) * T \in Nat /\ (D - d) * T = D * T - d * T
  <2>1. D - d \in Nat
    OBVIOUS
  <2> QED
    BY <1>2, <2>1, TimesNat
<1>5. D * T \in Nat /\ d * T \in Nat
  BY <1>2, TimesNat, Zenon
<1>6. d * T <= c * p /\ T \in Int
  BY ONLY <1>1, <1>2, <1>3, <1>4, <1>5
<1>7. (c * p) \div d >= T
  BY <1>1, <1>6, QuotientAtLeast, Zenon
<1> QED
  BY <1>7, Zenon DEF T

(* A trove of collateral c and debt d, part of a system with C and D, that *)
(* gets x more collateral and y more debt, and by that no lower ratio and  *)
(* one above the system's, costs the system no more than a rounding.       *)
LEMMA RatioOfPart ==
    ASSUME NEW C \in Nat, NEW D \in Nat \ {0}, NEW c \in Nat, NEW d \in Nat \ {0},
           NEW x \in Nat, NEW y \in Nat, NEW p \in Nat, d <= D,
           ((c + x) * p) \div (d + y) >= (c * p) \div d,
           ((c + x) * p) \div (d + y) >= (C * p) \div D
    PROVE  ((C + x) * p) \div (D + y) >= (C * p) \div D - 1
<1> DEFINE T == (C * p) \div D
           o == (c * p) \div d
           n == ((c + x) * p) \div (d + y)
<1>1. /\ C * p \in Nat /\ c * p \in Nat /\ x * p \in Nat /\ (c + x) * p \in Nat
      /\ (C + x) * p \in Nat /\ d + y \in Nat \ {0} /\ D + y \in Nat \ {0}
      /\ (c + x) * p = c * p + x * p /\ (C + x) * p = C * p + x * p
  BY TimesNat
<1>2. T \in Nat /\ D * T <= C * p
  BY <1>1, RoundsDown, Zenon
<1>3. o \in Nat /\ c * p < d * o + d
  BY <1>1, RoundsDown, Zenon
<1>4. n \in Nat /\ (d + y) * n <= (c + x) * p
  BY <1>1, RoundsDown, Zenon
<1>5. n >= o /\ n >= T
  BY Zenon
<1> HIDE DEF T, o, n
<1>6. d * (n - o) \in Nat /\ d * (n - o) = d * n - d * o
  <2>1. n - o \in Nat
    BY <1>3, <1>4, <1>5
  <2> QED
    BY <1>3, <1>4, <2>1, TimesNat
<1>7. y * (n - T) \in Nat /\ y * (n - T) = y * n - y * T
  <2>1. n - T \in Nat
    BY <1>2, <1>4, <1>5
  <2> QED
    BY <1>2, <1>4, <2>1, TimesNat
<1>8. (d + y) * n = d * n + y * n /\ (D + y) * (T - 1) = D * T + y * T - (D + y)
  BY <1>2, <1>4
<1>9. /\ D * T \in Nat /\ y * T \in Nat /\ d * n \in Nat /\ y * n \in Nat /\ d * o \in Nat
  BY <1>2, <1>3, <1>4, TimesNat, Zenon
<1>10. (D + y) * (T - 1) <= (C + x) * p
  BY ONLY <1>1, <1>2, <1>3, <1>4, <1>6, <1>7, <1>8, <1>9, d \in Nat, D \in Nat, y \in Nat, d <= D
<1>11. T - 1 \in Int
  BY <1>2
<1> QED
  BY <1>1, <1>10, <1>11, QuotientAtLeast, Zenon DEF T

(* The amounts of the system between transactions. *)
LEMMA SystemTyped ==
    ASSUME AInv, tx = Idle
    PROVE  /\ getEntireSystemColl \in Nat /\ getEntireSystemDebt \in Int /\ price \in Nat
           /\ checkRecoveryMode =>
                /\ getEntireSystemDebt \in Nat \ {0}
                /\ getTCR = (getEntireSystemColl * price) \div getEntireSystemDebt
                /\ getTCR \in Nat /\ getTCR < CCR
<1>1. /\ TrovesSound(Troves, rewards) /\ RewardsTyped(rewards)
      /\ PoolHolds(Troves, activePool, 0, 0) /\ SharesCovered(Troves, rewards, defaultPool)
      /\ price \in Prices
  BY IdleSettled, Zenon DEF Settled, Accounts
<1>2. getEntireSystemColl \in Nat /\ getEntireSystemDebt \in Int /\ price \in Nat
  BY <1>1, SumsTyped, InputsAssumption
     DEF PoolHolds, SharesCovered, getEntireSystemColl, getEntireSystemDebt
<1> DEFINE C == getEntireSystemColl
           D == getEntireSystemDebt
<1>3. getTCR = IF D > 0 THEN (C * price) \div D ELSE MaxRatio
  BY Zenon DEF getTCR, computeCR
<1>4. C \in Nat /\ D \in Int /\ price \in Nat
  BY <1>2, Zenon
<1> HIDE DEF C, D
<1>5. ASSUME checkRecoveryMode
      PROVE  D \in Nat \ {0} /\ getTCR = (C * price) \div D /\ getTCR \in Nat /\ getTCR < CCR
  <2>1. getTCR < CCR
    BY <1>5, Zenon DEF checkRecoveryMode
  <2>2. D > 0
    BY <1>3, <2>1, LiquityBaseAssumption
  <2>3. D \in Nat \ {0} /\ getTCR = (C * price) \div D
    BY <1>3, <1>4, <2>2
  <2>4. C * price \in Nat
    BY <1>4, TimesNat, Zenon
  <2> QED
    BY <2>1, <2>3, <2>4, RoundsDown, Zenon
<1> QED
  BY <1>2, <1>5, Zenon DEF C, D

(* What a trove has and owes, with its pending rewards, is part of what    *)
(* the system has and owes.                                                *)
LEMMA PartOfSystem ==
    ASSUME IInv, AInv, DInv, tx = Idle, NEW b \in Active
    PROVE  applyPendingRewards(b).debt <= getEntireSystemDebt
<1>1. /\ TrovesSound(Troves, rewards) /\ RewardsTyped(rewards)
      /\ PoolHolds(Troves, activePool, 0, 0) /\ SharesCovered(Troves, rewards, defaultPool)
  BY IdleSettled, Zenon DEF Settled, Accounts
<1>2. /\ b \in Borrowers /\ Trove(Troves[b]) /\ Sound(Troves[b], rewards)
  BY <1>1, Zenon DEF Active, IInv, Books, TrovesSound
<1>3. applyPendingRewards(b).debt = Troves[b].debt + appliedZUSDDebt(b)
  BY <1>1, <1>2, Applied, Zenon
<1>4. Troves[b].debt \in Nat /\ Troves[b].debt <= activePool.ZUSDDebt /\ activePool.ZUSDDebt \in Int
  <2>1. Debts(Troves) \in [Borrowers -> Nat]
    BY <1>1, ColumnsTyped, Zenon
  <2>2. Debts(Troves)[b] <= SumFunction(Debts(Troves)) /\ SumFunction(Debts(Troves)) \in Nat
    BY <1>2, <2>1, SumNat, BorrowersAssumption, Zenon
  <2>3. Debts(Troves)[b] = Troves[b].debt
    BY <1>2, Zenon DEF Debts
  <2>4. activePool.ZUSDDebt = SumFunction(Debts(Troves)) + 0
    BY <1>1, Zenon DEF PoolHolds
  <2>5. Troves[b].debt \in Nat
    BY <1>2, Zenon DEF Sound
  <2> QED
    BY <2>2, <2>3, <2>4, <2>5
<1>5. appliedZUSDDebt(b) \in Nat /\ appliedZUSDDebt(b) <= defaultPool.ZUSDDebt
      /\ defaultPool.ZUSDDebt \in Int
  <2> DEFINE f == appliedZUSDDebt(b)
             s == Troves[b].stake * (rewards.L_ZUSDDebt - Troves[b].ZUSDDebt)
             e == defaultPool.ZUSDDebt
             S == SumFunction(DebtShares(Troves, rewards))
  <2>1. f \in Nat /\ DECIMAL_PRECISION * f <= s
    BY AppliedDebt, Zenon
  <2>2. DebtShares(Troves, rewards) \in [Borrowers -> Nat] /\ S \in Nat
    BY <1>1, DebtSharesTyped, Zenon
  <2>3. DebtShares(Troves, rewards)[b] = s /\ s \in Nat
    BY <1>2, <2>2, Zenon DEF DebtShares
  <2>4. s <= S
    BY <1>2, <2>2, <2>3, SumNat, BorrowersAssumption, Zenon
  <2>5. S + rewards.ZUSDDebtError <= DECIMAL_PRECISION * e
    BY Zenon DEF DInv, DebtKept
  <2>6. e \in Int /\ rewards.ZUSDDebtError \in Nat /\ DECIMAL_PRECISION \in Nat \ {0}
    BY <1>1, LiquityBaseAssumption, Zenon DEF SharesCovered, RewardsTyped
  <2> HIDE DEF f, s, e, S
  <2>7. DECIMAL_PRECISION * f <= DECIMAL_PRECISION * e
    <3> DEFINE x == DECIMAL_PRECISION * f
               y == DECIMAL_PRECISION * e
    <3>1. x \in Int /\ y \in Int
      BY <2>1, <2>6
    <3> HIDE DEF x, y
    <3> QED
      BY <2>1, <2>2, <2>3, <2>4, <2>5, <2>6, <3>1 DEF x, y
  <2>8. f <= e
    <3> SUFFICES ASSUME e + 1 <= f PROVE FALSE
      BY <2>1, <2>6
    <3>1. f - (e + 1) \in Nat
      BY <2>1, <2>6
    <3>2. DECIMAL_PRECISION * (f - (e + 1)) \in Nat
      BY <2>6, <3>1, TimesNat, Zenon
    <3>3. DECIMAL_PRECISION * (f - (e + 1))
            = DECIMAL_PRECISION * f - DECIMAL_PRECISION * e - DECIMAL_PRECISION
      BY <2>1, <2>6
    <3> QED
      BY <2>1, <2>6, <2>7, <3>2, <3>3
  <2> QED
    BY <2>1, <2>6, <2>8, Zenon DEF f, e
<1> QED
  BY <1>3, <1>4, <1>5 DEF getEntireSystemDebt

TCRKept == getTCR' >= CCR \/ getTCR' >= getTCR - 1

(* Opening a trove. *)
LEMMA OpenKeepsTCR ==
    ASSUME AInv, NEW b \in Borrowers, NEW coll \in Nat, NEW ZUSDAmount \in Nat,
           NEW rate \in Nat, openTrove(b, coll, ZUSDAmount, rate)
    PROVE  TCRKept
<1> DEFINE netDebt == ZUSDAmount + borrowingFee(rate, ZUSDAmount)
           debt == getCompositeDebt(netDebt)
           C == getEntireSystemColl
           D == getEntireSystemDebt
<1>1. /\ tx = Idle /\ price' = price /\ netDebt >= MIN_NET_DEBT
      /\ checkRecoveryMode => computeCR(coll, debt, price) >= CCR
      /\ ~checkRecoveryMode => getNewTCRFromTroveChange(coll, debt) >= CCR
      /\ activePool' = adding(activePool, coll, debt)
      /\ defaultPool' = defaultPool
  BY Zenon DEF openTrove, requireAtLeastMinNetDebt, requireNewTCRisAboveCCR
<1>2. /\ C \in Nat /\ D \in Int /\ price \in Nat
      /\ checkRecoveryMode => /\ D \in Nat \ {0} /\ getTCR = (C * price) \div D
                              /\ getTCR \in Nat /\ getTCR < CCR
  BY <1>1, SystemTyped, Zenon
<1>3. debt \in Nat \ {0}
  <2>1. (rate * ZUSDAmount) \div DECIMAL_PRECISION \in Nat
    BY TimesNat, RoundsDown, LiquityBaseAssumption, Zenon
  <2>2. netDebt \in Nat /\ debt = netDebt + ZUSD_GAS_COMPENSATION
    BY <2>1 DEF borrowingFee, calcBorrowingFee, getCompositeDebt
  <2> QED
    BY <1>1, <2>2, LiquityBaseAssumption
<1> HIDE DEF netDebt, debt
<1>4. getEntireSystemColl' = C + coll /\ getEntireSystemDebt' = D + debt
  BY <1>1, <1>3, PoolsTyped DEF getEntireSystemColl, getEntireSystemDebt, adding
<1>5. getTCR' = computeCR(C + coll, D + debt, price)
  BY <1>1, <1>4, Zenon DEF getTCR
<1>6. CASE ~checkRecoveryMode
  BY <1>1, <1>5, <1>6, Zenon DEF TCRKept, getNewTCRFromTroveChange
<1>7. CASE checkRecoveryMode
  <2> HIDE DEF C, D
  <2>1. computeCR(coll, debt, price) = (coll * price) \div debt
    BY <1>3 DEF computeCR
  <2>2. (coll * price) \div debt \in Nat
    BY <1>2, <1>3, TimesNat, RoundsDown, Zenon
  <2>3. (coll * price) \div debt >= (C * price) \div D
    BY <1>1, <1>2, <1>7, <2>1, <2>2, LiquityBaseAssumption
  <2>4. ((C + coll) * price) \div (D + debt) >= (C * price) \div D
    BY <1>2, <1>3, <1>7, <2>3, RatioOfTwo, Zenon
  <2>5. D + debt > 0 /\ D + debt \in Nat \ {0} /\ C + coll \in Nat
    BY <1>2, <1>3, <1>7
  <2>6. getTCR' = ((C + coll) * price) \div (D + debt)
    BY <1>5, <2>5, Zenon DEF computeCR
  <2>7. getTCR' \in Nat
    BY <1>2, <2>5, <2>6, TimesNat, RoundsDown, Zenon
  <2>8. getTCR' >= getTCR
    BY <1>2, <1>7, <2>4, <2>6, Zenon
  <2> QED
    BY <1>2, <1>7, <2>7, <2>8 DEF TCRKept
<1> QED
  BY <1>6, <1>7, Zenon

(* An adjustment. *)
LEMMA AdjustKeepsTCR ==
    ASSUME IInv, AInv, DInv, NEW b \in Borrowers, NEW collIn \in Nat, NEW collOut \in Nat,
           NEW ZUSDChange \in Nat, NEW isDebtIncrease \in BOOLEAN, NEW rate \in Nat,
           adjustTrove(b, collIn, collOut, ZUSDChange, isDebtIncrease, rate)
    PROVE  TCRKept
<1> DEFINE t == applyPendingRewards(b)
           y == IF isDebtIncrease THEN ZUSDChange + borrowingFee(rate, ZUSDChange)
                ELSE ZUSDChange
           x == collIn - collOut
           dd == IF isDebtIncrease THEN y ELSE -y
           C == getEntireSystemColl
           D == getEntireSystemDebt
<1>1. /\ tx = Idle /\ price' = price /\ isActive(b) /\ t.coll + x >= 0 /\ t.debt + dd >= 0
      /\ checkRecoveryMode =>
            /\ collOut = 0
            /\ isDebtIncrease =>
                  /\ computeCR(t.coll + x, t.debt + dd, price) >= CCR
                  /\ computeCR(t.coll + x, t.debt + dd, price) >= computeCR(t.coll, t.debt, price)
      /\ ~checkRecoveryMode => getNewTCRFromTroveChange(x, dd) >= CCR
      /\ activePool' = adding(activePool, appliedETH(b) + x, appliedZUSDDebt(b) + dd)
      /\ defaultPool' = adding(defaultPool, -appliedETH(b), -appliedZUSDDebt(b))
  BY Zenon DEF adjustTrove, requireValidAdjustmentInCurrentMode, requireNewTCRisAboveCCR
<1>2. /\ C \in Nat /\ D \in Int /\ price \in Nat
      /\ checkRecoveryMode => /\ D \in Nat \ {0} /\ getTCR = (C * price) \div D
                              /\ getTCR \in Nat /\ getTCR < CCR
  BY <1>1, SystemTyped, Zenon
<1>3. b \in Active /\ Trove(Troves[b]) /\ Sound(Troves[b], rewards) /\ RewardsTyped(rewards)
  BY <1>1, IdleSettled, Zenon DEF Settled, Accounts, Active, IInv, Books, TrovesSound
<1>4. appliedETH(b) \in Nat /\ appliedZUSDDebt(b) \in Nat /\ Sound(t, rewards)
      /\ t.status = "active"
  BY <1>3, Applied, Zenon
<1>5. t.debt <= D
  BY <1>1, <1>3, PartOfSystem, Zenon
<1>6. y \in Nat
  <2>1. (rate * ZUSDChange) \div DECIMAL_PRECISION \in Nat
    BY TimesNat, RoundsDown, LiquityBaseAssumption, Zenon
  <2> QED
    BY <2>1 DEF borrowingFee, calcBorrowingFee
<1>7. /\ isDebtIncrease => dd = y
      /\ ~isDebtIncrease => dd = -y
  BY Zenon
<1> HIDE DEF t, y, dd
<1>8. t.coll \in Nat /\ t.debt \in Nat \ {0} /\ dd \in Int /\ x \in Int
  BY <1>4, <1>6, <1>7, LiquityBaseAssumption DEF Sound
<1>9. getEntireSystemColl' = C + x /\ getEntireSystemDebt' = D + dd
  BY <1>1, <1>4, <1>8, PoolsTyped DEF getEntireSystemColl, getEntireSystemDebt, adding
<1>10. getTCR' = computeCR(C + x, D + dd, price)
  BY <1>1, <1>9, Zenon DEF getTCR
<1>11. CASE ~checkRecoveryMode
  BY <1>1, <1>10, <1>11, Zenon DEF TCRKept, getNewTCRFromTroveChange
<1>12. CASE checkRecoveryMode
  <2> HIDE DEF C, D
  <2>1. x \in Nat
    BY <1>1, <1>12
  <2> HIDE DEF x
  <2>2. CASE isDebtIncrease
    <3>1. t.debt + y \in Nat \ {0} /\ D + y \in Nat \ {0} /\ t.coll + x \in Nat /\ C + x \in Nat
      BY <1>2, <1>6, <1>8, <1>12, <2>1
    <3>2. /\ computeCR(t.coll + x, t.debt + dd, price) = ((t.coll + x) * price) \div (t.debt + y)
          /\ computeCR(t.coll, t.debt, price) = (t.coll * price) \div t.debt
          /\ getTCR' = ((C + x) * price) \div (D + y)
      BY <1>7, <1>8, <1>10, <2>2, <3>1 DEF computeCR
    <3>3. ((t.coll + x) * price) \div (t.debt + y) \in Nat
      BY <1>2, <3>1, TimesNat, RoundsDown, Zenon
    <3>4. ((t.coll + x) * price) \div (t.debt + y) >= (C * price) \div D
      BY <1>1, <1>2, <1>12, <2>2, <3>2, <3>3, LiquityBaseAssumption
    <3>5. ((t.coll + x) * price) \div (t.debt + y) >= (t.coll * price) \div t.debt
      BY <1>1, <1>12, <2>2, <3>2, Zenon
    <3> DEFINE c == t.coll
               d == t.debt
    <3>6. c \in Nat /\ d \in Nat \ {0} /\ d <= D
      BY <1>5, <1>8, Zenon
    <3>7. ((c + x) * price) \div (d + y) >= (C * price) \div D
          /\ ((c + x) * price) \div (d + y) >= (c * price) \div d
      BY <3>4, <3>5, Zenon
    <3> HIDE DEF c, d
    <3>8. ((C + x) * price) \div (D + y) >= (C * price) \div D - 1
      BY <1>2, <1>6, <1>12, <2>1, <3>6, <3>7, RatioOfPart, Zenon
    <3> QED
      BY <1>2, <1>12, <3>2, <3>8, Zenon DEF TCRKept
  <2>3. CASE ~isDebtIncrease
    <3>1. CASE D + dd > 0
      <4>1. D + dd \in Nat \ {0} /\ D + dd <= D /\ C + x \in Nat /\ C <= C + x
        BY <1>2, <1>6, <1>7, <1>12, <2>1, <2>3, <3>1
      <4>2. getTCR' = ((C + x) * price) \div (D + dd)
        BY <1>10, <3>1, Zenon DEF computeCR
      <4> DEFINE c == C + x
                 d == D + dd
      <4>3. c \in Nat /\ d \in Nat \ {0} /\ C <= c /\ d <= D /\ getTCR' = (c * price) \div d
        BY <4>1, <4>2, Zenon
      <4> HIDE DEF c, d
      <4>4. (c * price) \div d >= (C * price) \div D
        BY <1>2, <1>12, <4>3, RatioOfLess, Zenon
      <4>5. (c * price) \div d \in Nat
        BY <1>2, <4>3, TimesNat, RoundsDown, Zenon
      <4>6. getTCR' >= getTCR /\ getTCR' \in Nat
        BY <1>2, <1>12, <4>3, <4>4, <4>5, Zenon
      <4> QED
        BY <1>2, <1>12, <4>6 DEF TCRKept
    <3>2. CASE ~(D + dd > 0)
      BY <1>10, <3>2, LiquityBaseAssumption DEF computeCR, TCRKept
    <3> QED
      BY <3>1, <3>2, Zenon
  <2> QED
    BY <2>2, <2>3, Zenon
<1> QED
  BY <1>11, <1>12, Zenon

(* Closing one. *)
LEMMA CloseKeepsTCR ==
    ASSUME IInv, AInv, NEW b \in Borrowers, closeOwnTrove(b)
    PROVE  TCRKept
<1> DEFINE t == applyPendingRewards(b)
           C == getEntireSystemColl
           D == getEntireSystemDebt
<1>1. /\ tx = Idle /\ price' = price /\ isActive(b)
      /\ getNewTCRFromTroveChange(-t.coll, -t.debt) >= CCR
      /\ activePool' = adding(activePool, appliedETH(b) - t.coll, appliedZUSDDebt(b) - t.debt)
      /\ defaultPool' = adding(defaultPool, -appliedETH(b), -appliedZUSDDebt(b))
  BY Zenon DEF closeOwnTrove, requireNewTCRisAboveCCR
<1>2. b \in Active /\ Trove(Troves[b]) /\ Sound(Troves[b], rewards) /\ RewardsTyped(rewards)
  BY <1>1, IdleSettled, Zenon DEF Settled, Accounts, Active, IInv, Books, TrovesSound
<1>3. appliedETH(b) \in Nat /\ appliedZUSDDebt(b) \in Nat /\ Sound(t, rewards)
  BY <1>2, Applied, Zenon
<1> HIDE DEF t
<1>4. t.coll \in Nat /\ t.debt \in Nat
  BY <1>3, Zenon DEF Sound
<1>5. getEntireSystemColl' = C + (-t.coll) /\ getEntireSystemDebt' = D + (-t.debt)
  BY <1>1, <1>3, <1>4, PoolsTyped DEF getEntireSystemColl, getEntireSystemDebt, adding
<1> QED
  BY <1>1, <1>5, Zenon DEF TCRKept, getTCR, getNewTCRFromTroveChange

(* Between transactions, and at a fixed price, every step keeps it. *)
LEMMA NextKeepsTCR ==
    ASSUME IInv, AInv, DInv, [Next]_vars, tx = Idle, tx' = Idle, price' = price
    PROVE  TCRKept
<1>1. ASSUME activePool' = activePool, defaultPool' = defaultPool
      PROVE  TCRKept
  <2>1. getTCR' = getTCR
    BY <1>1, Zenon DEF getTCR, getEntireSystemColl, getEntireSystemDebt
  <2>2. checkRecoveryMode => getTCR \in Nat
    BY SystemTyped, Zenon
  <2>3. ~checkRecoveryMode => getTCR >= CCR
    <3>1. getTCR \in Int
      <4> DEFINE C == getEntireSystemColl
                 D == getEntireSystemDebt
      <4>1. C \in Nat /\ D \in Int /\ price \in Nat
        BY SystemTyped, Zenon
      <4>2. getTCR = IF D > 0 THEN (C * price) \div D ELSE MaxRatio
        BY Zenon DEF getTCR, computeCR
      <4> HIDE DEF C, D
      <4>3. C * price \in Nat
        BY <4>1, TimesNat, Zenon
      <4>4. D > 0 => (C * price) \div D \in Nat
        BY <4>1, <4>3, RoundsDown
      <4> QED
        BY <4>2, <4>4, LiquityBaseAssumption
    <3> QED
      BY <3>1, LiquityBaseAssumption DEF checkRecoveryMode
  <2> QED
    BY <2>1, <2>2, <2>3 DEF TCRKept
<1>2. CASE UNCHANGED vars
  BY <1>1, <1>2, Zenon DEF vars, contracts
<1>3. CASE BorrowerTransaction
  <2>1. PICK b \in Borrowers :
           \/ \E coll \in OpenColl, amount \in OpenZUSD, rate \in BorrowingRates :
                 openTrove(b, coll, amount, rate)
           \/ \E collIn, collOut \in AdjustColl \cup {0}, amount \in AdjustZUSD \cup {0},
                 rate \in BorrowingRates, isDebtIncrease \in BOOLEAN :
                 adjustTrove(b, collIn, collOut, amount, isDebtIncrease, rate)
           \/ closeOwnTrove(b)
           \/ claimCollateral(b)
    BY <1>3, Zenon DEF BorrowerTransaction
  <2>2. /\ OpenColl \subseteq Nat /\ OpenZUSD \subseteq Nat /\ BorrowingRates \subseteq Nat
        /\ AdjustColl \cup {0} \subseteq Nat /\ AdjustZUSD \cup {0} \subseteq Nat
    BY InputsAssumption
  <2>3. CASE \E coll \in OpenColl, amount \in OpenZUSD, rate \in BorrowingRates :
                openTrove(b, coll, amount, rate)
    <3>1. PICK coll \in Nat, amount \in Nat, rate \in Nat : openTrove(b, coll, amount, rate)
      BY <2>2, <2>3, Zenon
    <3> QED
      BY <3>1, OpenKeepsTCR, Zenon
  <2>4. CASE \E collIn, collOut \in AdjustColl \cup {0}, amount \in AdjustZUSD \cup {0},
                rate \in BorrowingRates, isDebtIncrease \in BOOLEAN :
                adjustTrove(b, collIn, collOut, amount, isDebtIncrease, rate)
    <3>1. PICK collIn \in Nat, collOut \in Nat, amount \in Nat, rate \in Nat,
               isDebtIncrease \in BOOLEAN :
               adjustTrove(b, collIn, collOut, amount, isDebtIncrease, rate)
      BY <2>2, <2>4, Zenon
    <3> QED
      BY <3>1, AdjustKeepsTCR, Zenon
  <2>5. CASE closeOwnTrove(b)
    BY <2>5, CloseKeepsTCR, Zenon
  <2>6. CASE claimCollateral(b)
    BY <1>1, <2>6, Zenon DEF claimCollateral
  <2> QED
    BY <2>1, <2>3, <2>4, <2>5, <2>6, Zenon
<1>4. CASE LiquidatorTransaction \/ RedeemerTransaction
  BY <1>1, <1>4, Zenon DEF LiquidatorTransaction, liquidateTroves, batchLiquidateTroves, liquidate,
                    startLiquidation, RedeemerTransaction, redeemCollateral, contracts
<1>5. CASE DepositorTransaction \/ \E p \in Prices : setPrice(p)
  BY <1>1, <1>5, Zenon DEF DepositorTransaction, provideToSP, withdrawFromSP, setPrice, contracts
<1>6. CASE Continue
  <2>1. tx # Idle
    BY <1>6, Zenon DEF Continue, liquidateTrove, redeemWholeTrove, redeemPartOfTrove, cancelPartial,
                skipTrove, finishLiquidation, finishRedemption, revertLiquidation,
                revertRedemption, looping, redeeming, Idle
  <2> QED
    BY <2>1, Zenon
<1> QED
  BY <1>2, <1>3, <1>4, <1>5, <1>6, Zenon DEF Next

(* As long as the price stands still, borrowers do not bring about         *)
(* Recovery Mode, nor lower the total collateral ratio in it by more than  *)
(* a rounding: the checks of BorrowerOperations on one trove do protect    *)
(* the system.  Like the coverage of pending debt, this presumes that no   *)
(* redistribution adds to L_ZUSDDebt alone.                                *)
THEOREM BorrowersKeepRatio ==
    Spec /\ [][RewardsGrowTogether]_vars => BorrowersKeepTCR
<1>1. Init => IInv /\ AInv /\ DInv
  BY InitIInv, InitAInv, InitDInv
<1>2. IInv /\ AInv /\ DInv /\ [Next]_vars /\ [RewardsGrowTogether]_vars => (IInv /\ AInv /\ DInv)'
  BY NextIInv, NextAInv, NextDInv
<1>3. IInv /\ AInv /\ DInv /\ [Next]_vars
        => [tx = Idle /\ tx' = Idle /\ price' = price =>
              getTCR' >= CCR \/ getTCR' >= getTCR - 1]_vars
  BY NextKeepsTCR, Zenon DEF TCRKept
<1> QED
  BY <1>1, <1>2, <1>3, PTL DEF Spec, BorrowersKeepTCR
=============================================================================
