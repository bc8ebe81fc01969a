----------------------- MODULE ZeroLiquidations_proofs -----------------------
(***************************************************************************)
(* Liquidations keep the accounts of ZeroSystem, between their steps and    *)
(* when they settle with the pools, so that the accounts hold in every      *)
(* state; and the loop of liquidateTroves tracks the ratio of the system.   *)
(***************************************************************************)
EXTENDS ZeroAccounts_proofs

-----------------------------------------------------------------------------
(* Liquidators *)

(* The part k of n of an amount is no more than the amount, and n of n is  *)
(* all of it.                                                              *)
LEMMA Portion ==
    ASSUME NEW a \in Nat, NEW n \in Nat \ {0}, NEW k \in 0 .. n
    PROVE  /\ (a * k) \div n \in Nat /\ (a * k) \div n <= a
           /\ k = n => (a * k) \div n = a
           /\ k = 0 => (a * k) \div n = 0
<1> DEFINE q == (a * k) \div n
<1>1. a * k \in Nat /\ a * n \in Nat
  BY TimesNat
<1>2. q \in Nat /\ n * q <= a * k /\ a * k < n * q + n
  BY <1>1, RoundsDown, Zenon
<1> HIDE DEF q
<1>3. a * k <= a * n
  <2>1. n - k \in Nat /\ a * n = a * k + a * (n - k)
    OBVIOUS
  <2>2. a * (n - k) \in Nat
    BY <2>1, TimesNat, Zenon
  <2> QED
    BY <1>1, <2>1, <2>2
<1>4. q <= a
  <2> SUFFICES ASSUME q > a PROVE FALSE
    BY <1>2
  <2>1. q - (a + 1) \in Nat /\ n * q = n * a + n + n * (q - (a + 1))
    BY <1>2
  <2>2. n * (q - (a + 1)) \in Nat /\ n * a = a * n
    BY <2>1, TimesNat
  <2> QED
    BY <1>1, <1>2, <1>3, <2>1, <2>2
<1>5. ASSUME k = n PROVE q = a
  <2> SUFFICES ASSUME q < a PROVE FALSE
    BY <1>2, <1>4
  <2>1. a - (q + 1) \in Nat /\ n * a = n * q + n + n * (a - (q + 1))
    BY <1>2
  <2>2. n * (a - (q + 1)) \in Nat /\ n * a = a * k /\ n * q \in Nat
    BY <1>2, <1>5, <2>1, TimesNat
  <2> QED
    BY <1>1, <1>2, <2>1, <2>2
<1>6. ASSUME k = 0 PROVE q = 0
  <2>1. a * k = 0
    BY <1>6
  <2>2. n * q = 0
    BY <1>2, <2>1
  <2> QED
    BY <1>2, <2>2
<1> QED
  BY <1>2, <1>4, <1>5, <1>6, Zenon DEF q

(* So is any quotient. *)
LEMMA QuotientBelow ==
    ASSUME NEW a \in Nat, NEW n \in Nat \ {0}
    PROVE  a \div n \in Nat /\ a \div n <= a
<1> DEFINE q == a \div n
<1>1. q \in Nat /\ n * q <= a
  BY RoundsDown, Zenon
<1> HIDE DEF q
<1>2. n - 1 \in Nat /\ n * q = q + (n - 1) * q
  BY <1>1
<1>3. (n - 1) * q \in Nat
  BY <1>1, <1>2, TimesNat, Zenon
<1> QED
  BY <1>1, <1>2, <1>3 DEF q

(* What a trove owes and holds, its pending rewards included. *)
LEMMA EntireTyped ==
    ASSUME NEW b \in Active, Sound(Troves[b], rewards), RewardsTyped(rewards)
    PROVE  /\ getPendingETHReward(b) \in Nat /\ getPendingZUSDDebtReward(b) \in Nat
           /\ DECIMAL_PRECISION * getPendingETHReward(b)
                <= Troves[b].stake * (rewards.L_ETH - Troves[b].ETH)
           /\ entireColl(b) \in Nat /\ entireDebt(b) \in Nat \ {0}
           /\ entireColl(b) = Troves[b].coll + getPendingETHReward(b)
           /\ entireDebt(b) = Troves[b].debt + getPendingZUSDDebtReward(b)
<1>1. /\ rewards.L_ETH \in Nat /\ rewards.L_ZUSDDebt \in Nat
      /\ Troves[b].ETH \in Nat /\ Troves[b].ETH <= rewards.L_ETH
      /\ Troves[b].ZUSDDebt \in Nat /\ Troves[b].ZUSDDebt <= rewards.L_ZUSDDebt
      /\ Troves[b].stake \in Nat /\ Troves[b].coll \in Nat /\ Troves[b].debt \in Nat
      /\ Troves[b].debt >= ZUSD_GAS_COMPENSATION + MIN_NET_DEBT
  BY Zenon DEF Sound, RewardsTyped, Active, isActive
<1>2. /\ getPendingETHReward(b) \in Nat
      /\ DECIMAL_PRECISION * getPendingETHReward(b)
           <= Troves[b].stake * (rewards.L_ETH - Troves[b].ETH)
  BY <1>1, PendingReward, Zenon DEF getPendingETHReward
<1>3. getPendingZUSDDebtReward(b) \in Nat
  BY <1>1, PendingReward, Zenon DEF getPendingZUSDDebtReward
<1> QED
  BY <1>1, <1>2, <1>3, LiquityBaseAssumption DEF entireColl, entireDebt

(* _getOffsetAndRedistributionVals splits a trove whole. *)
LEMMA OffsetSplits ==
    ASSUME NEW b, entireColl(b) \in Nat, entireDebt(b) \in Nat \ {0},
           NEW offset \in 0 .. entireDebt(b),
           NEW v, v = getOffsetAndRedistributionVals(b, offset)
    PROVE  /\ Split(v) /\ v.entireTroveColl = entireColl(b) /\ v.entireTroveDebt = entireDebt(b)
           /\ v.debtToOffset = offset
<1> DEFINE gas == getCollGasCompensation(entireColl(b))
           coll == entireColl(b) - gas
           sent == (coll * offset) \div entireDebt(b)
<1>1. gas \in Nat /\ gas <= entireColl(b)
  BY QuotientBelow, LiquityBaseAssumption, Zenon DEF getCollGasCompensation
<1>2. v = [entireTroveDebt |-> entireDebt(b), entireTroveColl |-> entireColl(b),
           collGasCompensation |-> gas, ZUSDGasCompensation |-> ZUSD_GAS_COMPENSATION,
           debtToOffset |-> offset, collToSendToSP |-> sent,
           debtToRedistribute |-> entireDebt(b) - offset,
           collToRedistribute |-> coll - sent, collSurplus |-> 0]
  BY Zenon DEF getOffsetAndRedistributionVals
<1> HIDE DEF gas
<1>3. coll \in Nat
  BY <1>1
<1>4. /\ sent \in Nat /\ sent <= coll
      /\ offset = entireDebt(b) => sent = coll
      /\ offset = 0 => sent = 0
  <2> HIDE DEF coll
  <2> QED
    BY <1>3, Portion, Zenon
<1>5. entireColl(b) = coll + gas
  BY <1>1
<1> HIDE DEF coll, sent
<1>6. /\ v.entireTroveDebt = entireDebt(b) /\ v.entireTroveColl = entireColl(b)
      /\ v.collGasCompensation = gas /\ v.ZUSDGasCompensation = ZUSD_GAS_COMPENSATION
      /\ v.debtToOffset = offset /\ v.collToSendToSP = sent
      /\ v.debtToRedistribute = entireDebt(b) - offset
      /\ v.collToRedistribute = coll - sent /\ v.collSurplus = 0
  BY <1>2
<1> QED
  BY <1>1, <1>3, <1>4, <1>5, <1>6, LiquityBaseAssumption DEF Split

(* _getCappedOffsetVals does, for a trove with a ratio of at least MCR:    *)
(* what is offset at MCR is no more than the trove has.                    *)
LEMMA CappedSplits ==
    ASSUME NEW b, entireColl(b) \in Nat, entireDebt(b) \in Nat \ {0}, price \in Nat \ {0},
           getCurrentICR(b) >= MCR,
           NEW v, v = getCappedOffsetVals(b)
    PROVE  /\ Split(v) /\ v.entireTroveColl = entireColl(b) /\ v.entireTroveDebt = entireDebt(b)
           /\ v.debtToOffset = entireDebt(b)
<1> DEFINE c == entireColl(b)
           d == entireDebt(b)
           offset == (d * MCR) \div price
           gas == getCollGasCompensation(offset)
           ratio == (c * price) \div d
<1>1. v = [entireTroveDebt |-> d, entireTroveColl |-> c,
           collGasCompensation |-> gas, ZUSDGasCompensation |-> ZUSD_GAS_COMPENSATION,
           debtToOffset |-> d, collToSendToSP |-> offset - gas,
           debtToRedistribute |-> 0, collToRedistribute |-> 0, collSurplus |-> c - offset]
  BY Zenon DEF getCappedOffsetVals
<1>2. ratio >= MCR
  BY DEF getCurrentICR, computeCR
<1> HIDE DEF c, d
<1>3. c \in Nat /\ d \in Nat \ {0} /\ MCR \in Nat
  BY LiquityBaseAssumption, Zenon DEF c, d
<1>4. c * price \in Nat /\ d * MCR \in Nat
  BY <1>3, TimesNat, Zenon
<1>5. ratio \in Nat /\ d * ratio <= c * price
  BY <1>3, <1>4, RoundsDown, Zenon
<1>6. offset \in Nat /\ price * offset <= d * MCR
  BY <1>3, <1>4, RoundsDown, Zenon
<1> HIDE DEF ratio, offset
<1>7. d * MCR <= c * price
  <2>1. ratio - MCR \in Nat /\ d * ratio = d * MCR + d * (ratio - MCR)
    BY <1>2, <1>3, <1>5
  <2>2. d * (ratio - MCR) \in Nat
    BY <1>3, <2>1, TimesNat, Zenon
  <2> QED
    BY <1>4, <1>5, <2>1, <2>2
<1>8. offset <= c
  <2> SUFFICES ASSUME offset > c PROVE FALSE
    BY <1>3, <1>6
  <2>1. offset - (c + 1) \in Nat /\ price * offset = c * price + price + price * (offset - (c + 1))
    BY <1>3, <1>6
  <2>2. price * (offset - (c + 1)) \in Nat
    BY <2>1, TimesNat, Zenon
  <2> QED
    BY <1>4, <1>6, <1>7, <2>1, <2>2
<1>9. gas \in Nat /\ gas <= offset
  BY <1>6, QuotientBelow, LiquityBaseAssumption, Zenon DEF getCollGasCompensation
<1> HIDE DEF gas
<1>10. /\ v.entireTroveDebt = d /\ v.entireTroveColl = c
       /\ v.collGasCompensation = gas /\ v.ZUSDGasCompensation = ZUSD_GAS_COMPENSATION
       /\ v.debtToOffset = d /\ v.collToSendToSP = offset - gas
       /\ v.debtToRedistribute = 0 /\ v.collToRedistribute = 0 /\ v.collSurplus = c - offset
  BY <1>1
<1>11. Split(v)
  BY <1>3, <1>6, <1>8, <1>9, <1>10, LiquityBaseAssumption DEF Split
<1> QED
  BY <1>10, <1>11, Zenon DEF c, d

(* Whatever is liquidated is split whole, and uses no more of the deposits *)
(* than remain.                                                            *)
LEMMA Yields ==
    ASSUME NEW b \in Active, Sound(Troves[b], rewards), RewardsTyped(rewards), price \in Prices,
           tx.remainingZUSDInStabPool \in Nat,
           NEW v, v = singleLiquidation(b), v # zeroVals
    PROVE  /\ Split(v) /\ v.entireTroveColl = entireColl(b) /\ v.entireTroveDebt = entireDebt(b)
           /\ v.debtToOffset <= tx.remainingZUSDInStabPool
<1> DEFINE remaining == tx.remainingZUSDInStabPool
           offset == min(entireDebt(b), remaining)
<1>1. entireColl(b) \in Nat /\ entireDebt(b) \in Nat \ {0} /\ price \in Nat \ {0}
  BY EntireTyped, InputsAssumption, Zenon
<1>2. offset \in 0 .. entireDebt(b) /\ offset <= remaining /\ 0 \in 0 .. entireDebt(b)
  BY <1>1 DEF min
<1>3. CASE v = getOffsetAndRedistributionVals(b, 0)
  BY <1>1, <1>2, <1>3, OffsetSplits
<1>4. CASE v = getOffsetAndRedistributionVals(b, offset)
  BY <1>1, <1>2, <1>4, OffsetSplits
<1>5. CASE /\ v = getCappedOffsetVals(b) /\ ~(getCurrentICR(b) < MCR)
           /\ entireDebt(b) <= remaining
  <2>1. getCurrentICR(b) >= MCR
    <3>1. getCurrentICR(b) = (entireColl(b) * price) \div entireDebt(b)
      BY <1>1 DEF getCurrentICR, computeCR
    <3>2. getCurrentICR(b) \in Nat /\ MCR \in Nat
      BY <1>1, <3>1, TimesNat, RoundsDown, LiquityBaseAssumption
    <3> QED
      BY <1>5, <3>2
  <2> QED
    BY <1>1, <1>5, <2>1, CappedSplits, Zenon
<1>6. \/ v = getOffsetAndRedistributionVals(b, 0) \/ v = getOffsetAndRedistributionVals(b, offset)
      \/ /\ v = getCappedOffsetVals(b) /\ ~(getCurrentICR(b) < MCR)
         /\ entireDebt(b) <= remaining
  BY Zenon DEF singleLiquidation, liquidateRecoveryMode, liquidateNormalMode
<1> QED
  BY <1>3, <1>4, <1>5, <1>6, Zenon

(* The field of a tally. *)
LEMMA TotalsField ==
    ASSUME NEW totals, NEW v, NEW t, t = addLiquidationValuesToTotals(totals, v)
    PROVE  /\ t.entireTroveDebt = totals.entireTroveDebt + v.entireTroveDebt
           /\ t.entireTroveColl = totals.entireTroveColl + v.entireTroveColl
           /\ t.collGasCompensation = totals.collGasCompensation + v.collGasCompensation
           /\ t.ZUSDGasCompensation = totals.ZUSDGasCompensation + v.ZUSDGasCompensation
           /\ t.debtToOffset = totals.debtToOffset + v.debtToOffset
           /\ t.collToSendToSP = totals.collToSendToSP + v.collToSendToSP
           /\ t.debtToRedistribute = totals.debtToRedistribute + v.debtToRedistribute
           /\ t.collToRedistribute = totals.collToRedistribute + v.collToRedistribute
           /\ t.collSurplus = totals.collSurplus + v.collSurplus
BY Zenon DEF addLiquidationValuesToTotals, LiquidationFields

(* Nothing yielded is split whole. *)
LEMMA ZeroSplit ==
    /\ Split(zeroVals) /\ zeroVals.entireTroveColl = 0 /\ zeroVals.entireTroveDebt = 0
    /\ zeroVals.collSurplus = 0 /\ zeroVals.debtToOffset = 0
<1>1. /\ zeroVals.entireTroveDebt = 0 /\ zeroVals.entireTroveColl = 0
      /\ zeroVals.collGasCompensation = 0 /\ zeroVals.ZUSDGasCompensation = 0
      /\ zeroVals.debtToOffset = 0 /\ zeroVals.collToSendToSP = 0
      /\ zeroVals.debtToRedistribute = 0 /\ zeroVals.collToRedistribute = 0
      /\ zeroVals.collSurplus = 0
  BY Zenon DEF zeroVals, LiquidationFields
<1> QED
  BY <1>1 DEF Split

(* An iteration that yields v keeps the tally. *)
LEMMA AdvanceTallies ==
    ASSUME NEW pool, LiquidationTx(tx),
           Tallied(tx.totals, tx.remainingZUSDInStabPool, pool),
           NEW b, NEW v, Split(v), v.debtToOffset <= tx.remainingZUSDInStabPool,
           NEW t, t = advance(b, v)
    PROVE  /\ Tallied(t.totals, t.remainingZUSDInStabPool, pool)
           /\ t.op = "liquidate" /\ t.saved = tx.saved
           /\ t.totals.entireTroveDebt = tx.totals.entireTroveDebt + v.entireTroveDebt
           /\ t.totals.entireTroveColl = tx.totals.entireTroveColl + v.entireTroveColl
           /\ t.totals.collSurplus = tx.totals.collSurplus + v.collSurplus
<1> DEFINE s == tx.totals
           u == t.totals
<1>1. v.ZUSDGasCompensation \in Int
  BY DEF Split
<1>2. /\ LiquidationTx(t) /\ t.saved = tx.saved /\ u = addLiquidationValuesToTotals(s, v)
      /\ t.remainingZUSDInStabPool = tx.remainingZUSDInStabPool - v.debtToOffset
  BY <1>1, AdvanceKeeps, Zenon
<1>3. /\ u.entireTroveDebt = s.entireTroveDebt + v.entireTroveDebt
      /\ u.entireTroveColl = s.entireTroveColl + v.entireTroveColl
      /\ u.collGasCompensation = s.collGasCompensation + v.collGasCompensation
      /\ u.ZUSDGasCompensation = s.ZUSDGasCompensation + v.ZUSDGasCompensation
      /\ u.debtToOffset = s.debtToOffset + v.debtToOffset
      /\ u.collToSendToSP = s.collToSendToSP + v.collToSendToSP
      /\ u.debtToRedistribute = s.debtToRedistribute + v.debtToRedistribute
      /\ u.collToRedistribute = s.collToRedistribute + v.collToRedistribute
      /\ u.collSurplus = s.collSurplus + v.collSurplus
  BY <1>2, TotalsField
<1>4. t.op = "liquidate"
  BY <1>2 DEF LiquidationTx
<1> HIDE DEF s, u
<1>5. Split(s) /\ tx.remainingZUSDInStabPool \in Nat
      /\ tx.remainingZUSDInStabPool + s.debtToOffset = pool
  BY Zenon DEF Tallied, s
<1>6. Split(u)
  BY <1>3, <1>5 DEF Split
<1>7. /\ t.remainingZUSDInStabPool \in Nat
      /\ t.remainingZUSDInStabPool + u.debtToOffset = pool
  BY <1>2, <1>3, <1>5 DEF Split
<1> QED
  BY <1>2, <1>3, <1>4, <1>6, <1>7, Zenon DEF Tallied, s, u

(* During a liquidation the totals are what is left to settle. *)
LEMMA LiquidatingPart ==
    ASSUME AInv, tx.op = "liquidate"
    PROVE  /\ price \in Prices /\ SavedAccounts(tx.saved)
           /\ Accounts(Troves, stakes, rewards, activePool, defaultPool, surplus, zusd,
                       tx.totals.entireTroveColl, tx.totals.entireTroveDebt, tx.totals.collSurplus)
           /\ Tallied(tx.totals, tx.remainingZUSDInStabPool, zusd.stabilityPool)
BY Zenon DEF AInv, UnsettledColl, UnsettledDebt, UnsettledSurplus, Liquidating, Redeeming

(* And that is all the invariant asks then. *)
LEMMA LiquidatingAInv ==
    ASSUME tx'.op = "liquidate", price' \in Prices, SavedAccounts(tx'.saved),
           Accounts(Troves', stakes', rewards', activePool', defaultPool', surplus', zusd',
                    tx'.totals.entireTroveColl, tx'.totals.entireTroveDebt, tx'.totals.collSurplus),
           Tallied(tx'.totals, tx'.remainingZUSDInStabPool, zusd'.stabilityPool)
    PROVE  AInv'
BY Zenon DEF AInv, UnsettledColl, UnsettledDebt, UnsettledSurplus, Liquidating, Redeeming

(* A liquidation starts with all deposits and an empty tally. *)
LEMMA StartLiquidationAInv ==
    ASSUME AInv, NEW batch, NEW array, NEW n, startLiquidation(batch, array, n)
    PROVE  AInv'
<1>1. /\ tx = Idle /\ price' = price
      /\ Troves' = Troves /\ stakes' = stakes /\ rewards' = rewards
      /\ activePool' = activePool /\ defaultPool' = defaultPool
      /\ surplus' = surplus /\ zusd' = zusd
      /\ tx'.op = "liquidate" /\ tx'.totals = zeroVals /\ tx'.saved = saved
      /\ tx'.remainingZUSDInStabPool = zusd.stabilityPool
  BY Zenon DEF startLiquidation, contracts
<1>2. Settled /\ price \in Prices /\ SavedAccounts(saved)
  BY <1>1, IdleSettled, SavedSettled, Zenon
<1>3. Tallied(zeroVals, zusd.stabilityPool, zusd.stabilityPool)
  BY <1>2, ZeroSplit DEF Tallied, Settled, Accounts, Circulates
<1>4. /\ Tallied(tx'.totals, tx'.remainingZUSDInStabPool, zusd'.stabilityPool)
      /\ tx'.totals.entireTroveColl = 0 /\ tx'.totals.entireTroveDebt = 0
      /\ tx'.totals.collSurplus = 0
  BY <1>1, <1>3, ZeroSplit, Zenon
<1>5. Accounts(Troves', stakes', rewards', activePool', defaultPool', surplus', zusd',
               tx'.totals.entireTroveColl, tx'.totals.entireTroveDebt, tx'.totals.collSurplus)
  BY ONLY <1>1, <1>2, <1>4, Zenon DEF Settled
<1> QED
  BY <1>1, <1>2, <1>4, <1>5, LiquidatingAInv, Zenon

(* An iteration that leaves the trove alone tallies nothing. *)
LEMMA SkipTroveAInv ==
    ASSUME IInv, AInv, skipTrove
    PROVE  AInv'
<1> DEFINE b == visited
<1>1. /\ tx.op = "liquidate" /\ price' = price /\ tx' = advance(b, zeroVals)
      /\ Troves' = Troves /\ stakes' = stakes /\ rewards' = rewards
      /\ activePool' = activePool /\ defaultPool' = defaultPool
      /\ surplus' = surplus /\ zusd' = zusd
  BY Zenon DEF skipTrove, contracts, looping
<1> HIDE DEF b
<1>2. LiquidationTx(tx)
  BY <1>1, LiquidationPart, Zenon DEF LiquidationGood
<1>3. /\ price \in Prices /\ SavedAccounts(tx.saved)
      /\ Accounts(Troves, stakes, rewards, activePool, defaultPool, surplus, zusd,
                  tx.totals.entireTroveColl, tx.totals.entireTroveDebt, tx.totals.collSurplus)
      /\ Tallied(tx.totals, tx.remainingZUSDInStabPool, zusd.stabilityPool)
  BY <1>1, LiquidatingPart, Zenon
<1>4. zeroVals.debtToOffset <= tx.remainingZUSDInStabPool
  BY <1>3, ZeroSplit DEF Tallied
<1>5. /\ Tallied(tx'.totals, tx'.remainingZUSDInStabPool, zusd.stabilityPool)
      /\ tx'.op = "liquidate" /\ tx'.saved = tx.saved
      /\ tx'.totals.entireTroveDebt = tx.totals.entireTroveDebt + zeroVals.entireTroveDebt
      /\ tx'.totals.entireTroveColl = tx.totals.entireTroveColl + zeroVals.entireTroveColl
      /\ tx'.totals.collSurplus = tx.totals.collSurplus + zeroVals.collSurplus
  BY ONLY <1>1, <1>2, <1>3, <1>4, ZeroSplit, AdvanceTallies
<1>6. /\ tx'.totals.entireTroveDebt = tx.totals.entireTroveDebt
      /\ tx'.totals.entireTroveColl = tx.totals.entireTroveColl
      /\ tx'.totals.collSurplus = tx.totals.collSurplus
  <2>1. /\ tx.totals.entireTroveDebt \in Nat /\ tx.totals.entireTroveColl \in Nat
        /\ tx.totals.collSurplus \in Nat
    BY <1>3, Zenon DEF Tallied, Split
  <2>2. \A x \in Nat : x + 0 = x
    OBVIOUS
  <2> QED
    BY ONLY <1>5, <2>1, <2>2, ZeroSplit, Zenon
<1>7. Accounts(Troves', stakes', rewards', activePool', defaultPool', surplus', zusd',
               tx'.totals.entireTroveColl, tx'.totals.entireTroveDebt, tx'.totals.collSurplus)
  BY ONLY <1>1, <1>3, <1>6, Zenon
<1> QED
  BY <1>1, <1>3, <1>5, <1>7, LiquidatingAInv, Zenon

(* An iteration that liquidates a trove tallies all the trove held and     *)
(* owed, its rewards included, and what the owner may claim.               *)
LEMMA LiquidateTroveAInv ==
    ASSUME IInv, AInv, liquidateTrove
    PROVE  AInv'
<1> DEFINE b == visited
           v == singleLiquidation(b)
           e == getPendingETHReward(b)
           f == getPendingZUSDDebtReward(b)
           c == tx.totals.entireTroveColl
           d == tx.totals.entireTroveDebt
           s == tx.totals.collSurplus
           c1 == tx'.totals.entireTroveColl
           d1 == tx'.totals.entireTroveDebt
           s1 == tx'.totals.collSurplus
<1>1. /\ looping /\ tx.op = "liquidate" /\ v # zeroVals /\ price' = price
      /\ closeTrove(b, "closedByLiquidation")
      /\ activePool' = adding(activePool, e, f) /\ defaultPool' = adding(defaultPool, -e, -f)
      /\ surplus' = [surplus EXCEPT !.balances =
                         [surplus.balances EXCEPT ![b] = surplus.balances[b] + v.collSurplus]]
      /\ tx' = advance(b, v) /\ zusd' = zusd /\ rewards' = rewards
  BY Zenon DEF liquidateTrove, looping
<1>2. b \in Active
  BY <1>1, LiquidatesActive, Zenon
<1>3. LiquidationTx(tx) /\ Books(Troves, TroveOwners, sortedTroves) /\ Purse(zusd)
  BY <1>1, LiquidationPart, Zenon DEF LiquidationGood, IInv
<1>4. /\ price \in Prices /\ SavedAccounts(tx.saved)
      /\ Accounts(Troves, stakes, rewards, activePool, defaultPool, surplus, zusd, c, d, s)
      /\ Tallied(tx.totals, tx.remainingZUSDInStabPool, zusd.stabilityPool)
  BY <1>1, LiquidatingPart, Zenon
<1>5. /\ Sound(Troves[b], rewards) /\ RewardsTyped(rewards) /\ SurplusHeld(surplus, s)
      /\ Circulates(zusd, activePool, defaultPool)
  BY <1>2, <1>4, Zenon DEF Accounts, TrovesSound, Active
<1>6. /\ e \in Nat /\ f \in Nat
      /\ DECIMAL_PRECISION * e <= Troves[b].stake * (rewards.L_ETH - Troves[b].ETH)
      /\ entireColl(b) = Troves[b].coll + e /\ entireDebt(b) = Troves[b].debt + f
  BY <1>2, <1>5, EntireTyped, Zenon
<1>7. /\ Split(v) /\ v.entireTroveColl = entireColl(b) /\ v.entireTroveDebt = entireDebt(b)
      /\ v.debtToOffset <= tx.remainingZUSDInStabPool
  BY <1>1, <1>2, <1>4, <1>5, Yields, Zenon DEF Tallied
<1> HIDE DEF b, v, e, f
<1>8. /\ Tallied(tx'.totals, tx'.remainingZUSDInStabPool, zusd.stabilityPool)
      /\ tx'.op = "liquidate" /\ tx'.saved = tx.saved
      /\ d1 = d + v.entireTroveDebt /\ c1 = c + v.entireTroveColl /\ s1 = s + v.collSurplus
  BY ONLY <1>1, <1>3, <1>4, <1>7, AdvanceTallies
<1>9. /\ c \in Nat /\ d \in Nat /\ s \in Nat /\ c1 \in Nat /\ d1 \in Nat /\ s1 \in Nat
      /\ v.collSurplus \in Nat
  BY <1>4, <1>7, <1>8, Zenon DEF Tallied, Split
<1> HIDE DEF c, d, s, c1, d1, s1
<1>10. Troves[b].coll \in Nat /\ Troves[b].debt \in Nat /\ b \in Borrowers
  BY <1>2, <1>5, Zenon DEF Sound, Active
<1>11. e = (c1 - c) - Troves[b].coll /\ f = (d1 - d) - Troves[b].debt
  BY <1>6, <1>7, <1>8, <1>9, <1>10
<1>12. SurplusHeld(surplus', s1)
  <2> DEFINE x == v.collSurplus
             w == [surplus.balances EXCEPT ![b] = surplus.balances[b] + x]
  <2>1. surplus' = [surplus EXCEPT !.balances = w]
    BY <1>1, Zenon
  <2>2. surplus = [ETH |-> surplus.ETH, balances |-> surplus.balances] /\ surplus.ETH \in Nat
    BY <1>5, Zenon DEF SurplusHeld
  <2> HIDE DEF w
  <2>3. surplus' = [ETH |-> surplus.ETH, balances |-> w]
    BY <2>1, <2>2, Zenon
  <2>4. surplus.ETH + 0 = surplus.ETH
    BY <2>2
  <2>5. surplus' = [ETH |-> surplus.ETH + 0,
                    balances |-> [surplus.balances EXCEPT ![b] = surplus.balances[b] + x]]
    BY <2>3, <2>4, Zenon DEF w
  <2> HIDE DEF x
  <2>6. SurplusHeld(surplus', s + x - 0)
    BY <1>5, <1>9, <1>10, <2>5, SurplusAdded DEF x
  <2>7. s1 = s + x - 0
    BY <1>8, <1>9 DEF x
  <2> QED
    BY <2>6, <2>7, Zenon
<1>13. /\ zusd'.users \in Nat /\ zusd'.gasPool \in Int /\ zusd'.stabilityPool \in Nat
       /\ zusd'.users + zusd'.gasPool + zusd'.stabilityPool
            = zusd.users + zusd.gasPool + zusd.stabilityPool + (f - f)
  BY <1>1, <1>3, <1>5, <1>6 DEF Circulates, Purse
<1>14. TroveStep(b, e, f, c, d, c1, d1, s1)
  <2>1. /\ "closedByLiquidation" # "active" /\ c \in Int /\ d \in Int /\ c1 \in Int /\ d1 \in Int
        /\ e \in Int /\ f \in Int
    BY <1>6, <1>9
  <2> QED
    BY ONLY <1>1, <1>2, <1>3, <1>4, <1>6, <1>11, <1>12, <1>13, <2>1, CloseStep, Zenon
<1>15. Accounts(Troves', stakes', rewards', activePool', defaultPool', surplus', zusd', c1, d1, s1)
  BY <1>4, <1>14, AccountsAfter, Zenon
<1> QED
  BY <1>1, <1>4, <1>8, <1>15, LiquidatingAInv, Zenon DEF c1, d1, s1

(* A quotient and its remainder make up the dividend. *)
LEMMA DivMod ==
    ASSUME NEW a \in Nat, NEW n \in Nat \ {0}
    PROVE  a \div n \in Nat /\ a % n \in Nat /\ a = n * (a \div n) + (a % n)
<1>1. a \div n \in Nat /\ a % n \in Nat
  OBVIOUS
<1>2. ASSUME NEW x \in Int, NEW y \in Int, y > 0
      PROVE  x = y * (x \div y) + (x % y)
  BY ONLY x \in Int, y \in Int, y > 0, Z3
<1>3. a \in Int /\ n \in Int /\ n > 0
  OBVIOUS
<1>4. a = n * (a \div n) + (a % n)
  BY ONLY <1>2, <1>3, Zenon
<1> QED
  BY <1>1, <1>4, Zenon

(* _redistributeDebtAndColl adds to the shares and to the error carried    *)
(* over, together, what is redistributed.                                  *)
LEMMA Redistributes ==
    ASSUME NEW debt \in Nat, NEW coll \in Nat,
           TrovesSound(Troves, rewards), RewardsTyped(rewards),
           stakes.total \in Nat, stakes.total = SumFunction(Stakes(Troves)),
           debt > 0 => stakes.total > 0,
           NEW new, new = redistributeDebtAndColl(debt, coll)
    PROVE  /\ TrovesSound(Troves, new) /\ RewardsTyped(new)
           /\ SumFunction(Shares(Troves, new)) + new.ETHError
                = SumFunction(Shares(Troves, rewards)) + rewards.ETHError
                    + (IF debt = 0 THEN 0 ELSE coll) * DECIMAL_PRECISION
<1>1. /\ SumFunction(Stakes(Troves)) \in Nat /\ SumFunction(Shares(Troves, rewards)) \in Nat
      /\ Stakes(Troves) \in [Borrowers -> Nat] /\ Shares(Troves, rewards) \in [Borrowers -> Nat]
  BY SumsTyped, ColumnsTyped, Zenon
<1>2. /\ rewards.L_ETH \in Nat /\ rewards.L_ZUSDDebt \in Nat
      /\ rewards.ETHError \in Nat /\ rewards.ZUSDDebtError \in Nat
      /\ DECIMAL_PRECISION \in Nat \ {0}
  BY LiquityBaseAssumption, Zenon DEF RewardsTyped
<1>3. CASE debt = 0
  <2>1. new = rewards
    BY <1>3, Zenon DEF redistributeDebtAndColl
  <2>2. (IF debt = 0 THEN 0 ELSE coll) * DECIMAL_PRECISION = 0
    BY <1>2, <1>3
  <2> QED
    BY <1>1, <1>2, <2>1, <2>2
<1>4. CASE debt # 0
  <2> DEFINE n == coll * DECIMAL_PRECISION + rewards.ETHError
             m == debt * DECIMAL_PRECISION + rewards.ZUSDDebtError
             k == n \div stakes.total
             l == m \div stakes.total
  <2>1. n \in Nat /\ m \in Nat /\ stakes.total \in Nat \ {0}
    <3>1. coll * DECIMAL_PRECISION \in Nat /\ debt * DECIMAL_PRECISION \in Nat
      BY <1>2, TimesNat, Zenon
    <3> QED
      BY <1>2, <1>4, <3>1
  <2>2. new = [L_ETH |-> rewards.L_ETH + k, L_ZUSDDebt |-> rewards.L_ZUSDDebt + l,
               ETHError |-> n % stakes.total, ZUSDDebtError |-> m % stakes.total]
    BY <1>4, Zenon DEF redistributeDebtAndColl, perUnitStaked, errorAfter
  <2> HIDE DEF n, m
  <2>3. /\ k \in Nat /\ l \in Nat /\ n % stakes.total \in Nat /\ m % stakes.total \in Nat
        /\ n = stakes.total * k + (n % stakes.total)
    BY <2>1, DivMod, Zenon
  <2> HIDE DEF k, l
  <2>4. /\ new.L_ETH = rewards.L_ETH + k /\ new.L_ZUSDDebt = rewards.L_ZUSDDebt + l
        /\ new.ETHError = n % stakes.total /\ new.ZUSDDebtError = m % stakes.total
    BY <2>2
  <2>5. RewardsTyped(new)
    BY <1>2, <2>3, <2>4 DEF RewardsTyped
  <2>6. TrovesSound(Troves, new)
    <3>1. ASSUME NEW b \in Borrowers
          PROVE  Sound(Troves[b], new)
      <4>1. Sound(Troves[b], rewards)
        BY Zenon DEF TrovesSound
      <4> QED
        BY <1>2, <2>3, <2>4, <4>1 DEF Sound
    <3> QED
      BY <3>1, Zenon DEF TrovesSound
  <2>7. SumFunction(Shares(Troves, new))
          = SumFunction(Shares(Troves, rewards)) + k * SumFunction(Stakes(Troves))
    <3>1. Shares(Troves, new) \in [Borrowers -> Nat]
      BY <2>5, <2>6, ColumnsTyped, Zenon
    <3>2. /\ Shares(Troves, new) \in [Borrowers -> Int]
          /\ Shares(Troves, rewards) \in [Borrowers -> Int] /\ Stakes(Troves) \in [Borrowers -> Int]
          /\ k \in Int
      BY <1>1, <2>3, <3>1
    <3>3. ASSUME NEW b \in Borrowers
          PROVE  Shares(Troves, new)[b] = Shares(Troves, rewards)[b] + k * Stakes(Troves)[b]
      <4> DEFINE x == Troves[b].stake
                 y == rewards.L_ETH
                 z == Troves[b].ETH
      <4>1. x \in Nat /\ y \in Nat /\ z \in Nat
        BY <1>2, Zenon DEF TrovesSound, Sound
      <4>2. /\ Shares(Troves, new)[b] = x * (new.L_ETH - z)
            /\ Shares(Troves, rewards)[b] = x * (y - z) /\ Stakes(Troves)[b] = x
        BY Zenon DEF Shares, Stakes
      <4>3. new.L_ETH = y + k
        BY <2>4, Zenon
      <4> HIDE DEF x, y, z
      <4>4. x * ((y + k) - z) = x * (y - z) + k * x
        BY <2>3, <4>1
      <4> QED
        BY <4>2, <4>3, <4>4, Zenon
    <3> QED
      BY ONLY <3>2, <3>3, SumLinear, BorrowersAssumption
  <2>8. SumFunction(Shares(Troves, new)) + new.ETHError
          = SumFunction(Shares(Troves, rewards)) + n
    <3>1. k * SumFunction(Stakes(Troves)) = stakes.total * k
      BY <2>1, <2>3
    <3> DEFINE q == stakes.total * k
               w == n % stakes.total
    <3>2. q \in Nat
      BY <2>1, <2>3, TimesNat, Zenon
    <3>3. new.ETHError = w /\ w \in Nat /\ n = q + w
      BY ONLY <2>3, <2>4, Zenon DEF q, w
    <3>4. k * SumFunction(Stakes(Troves)) = q
      BY ONLY <3>1, Zenon DEF q
    <3> HIDE DEF q, w
    <3>5. SumFunction(Shares(Troves, new)) = SumFunction(Shares(Troves, rewards)) + q
      BY ONLY <2>7, <3>4, Zenon
    <3> QED
      BY <1>1, <2>1, <3>2, <3>3, <3>5
  <2>9. (IF debt = 0 THEN 0 ELSE coll) * DECIMAL_PRECISION = coll * DECIMAL_PRECISION
    BY <1>4, Zenon
  <2>10. SumFunction(Shares(Troves, rewards)) + n
           = SumFunction(Shares(Troves, rewards)) + rewards.ETHError + coll * DECIMAL_PRECISION
    <3>1. coll * DECIMAL_PRECISION \in Nat
      BY <1>2, TimesNat, Zenon
    <3> QED
      BY <1>1, <1>2, <3>1 DEF n
  <2> QED
    BY <2>5, <2>6, <2>8, <2>9, <2>10, Zenon
<1> QED
  BY <1>3, <1>4, Zenon

(* The settlement clears the tally: every amount tallied goes to the       *)
(* Stability Pool, the other troves, the CollSurplusPool or the liquidator.*)
LEMMA FinishLiquidationAInv ==
    ASSUME IInv, AInv, finishLiquidation
    PROVE  AInv'
<1> DEFINE t == tx.totals
           collToSP == IF offsetsDebt THEN t.collToSendToSP ELSE 0
           debtToSP == IF offsetsDebt THEN t.debtToOffset ELSE 0
           collToShare == IF t.debtToRedistribute = 0 THEN 0 ELSE t.collToRedistribute
           collOut == collToSP + collToShare + t.collSurplus + t.collGasCompensation
           debtOut == debtToSP + t.debtToRedistribute
           g == t.ZUSDGasCompensation
           p == zusd.stabilityPool - debtToSP
           snapshot == activePool'.ETH + defaultPool'.ETH
           kept == surplus.ETH + t.collSurplus
<1>1. /\ tx.op = "liquidate" /\ tx' = Idle /\ price' = price /\ Troves' = Troves
      /\ requireLiquidation
      /\ rewards' = redistributeDebtAndColl(t.debtToRedistribute, t.collToRedistribute)
      /\ activePool' = adding(activePool, -collOut, -debtOut)
      /\ defaultPool' = adding(defaultPool, collToShare, t.debtToRedistribute)
      /\ surplus' = [surplus EXCEPT !.ETH = kept]
      /\ stakes' = [stakes EXCEPT !.totalSnapshot = stakes.total, !.collateralSnapshot = snapshot]
      /\ zusd' = sendGasCompensation([zusd EXCEPT !.stabilityPool = p], g)
  BY Zenon DEF finishLiquidation
<1>2. /\ price \in Prices
      /\ Accounts(Troves, stakes, rewards, activePool, defaultPool, surplus, zusd,
                  t.entireTroveColl, t.entireTroveDebt, t.collSurplus)
      /\ Split(t) /\ tx.remainingZUSDInStabPool \in Nat
      /\ tx.remainingZUSDInStabPool + t.debtToOffset = zusd.stabilityPool
      /\ Purse(zusd)
  BY <1>1, LiquidatingPart, Zenon DEF Tallied, IInv
<1>3. /\ TrovesSound(Troves, rewards) /\ RewardsTyped(rewards) /\ StakesTyped(stakes)
      /\ stakes.total = SumFunction(Stakes(Troves))
      /\ PoolHolds(Troves, activePool, t.entireTroveColl, t.entireTroveDebt)
      /\ SharesCovered(Troves, rewards, defaultPool)
      /\ SurplusHeld(surplus, t.collSurplus)
      /\ Circulates(zusd, activePool, defaultPool)
  BY <1>2, Zenon DEF Accounts
<1>4. offsetsDebt <=> zusd.stabilityPool # 0 /\ t.debtToOffset # 0
  BY Zenon DEF offsetsDebt
<1>5. t.debtToRedistribute > 0 => stakes.total > 0
  BY <1>1, Zenon DEF requireLiquidation
<1> HIDE DEF t
<1>6. /\ t.entireTroveDebt \in Nat /\ t.entireTroveColl \in Nat
      /\ t.collGasCompensation \in Nat /\ g \in Nat
      /\ t.debtToOffset \in Nat /\ t.collToSendToSP \in Nat
      /\ t.debtToRedistribute \in Nat /\ t.collToRedistribute \in Nat /\ t.collSurplus \in Nat
      /\ t.entireTroveDebt = t.debtToOffset + t.debtToRedistribute
      /\ t.entireTroveColl = t.collToSendToSP + t.collToRedistribute
                               + t.collSurplus + t.collGasCompensation
      /\ t.debtToOffset = 0 => t.collToSendToSP = 0
      /\ t.debtToRedistribute = 0 => t.collToRedistribute = 0
  BY <1>2, Zenon DEF Split
<1>7. collToSP = t.collToSendToSP /\ debtToSP = t.debtToOffset
  BY <1>2, <1>4, <1>6
<1>8. collToShare = t.collToRedistribute
  BY <1>6, Zenon
<1> HIDE DEF collToSP, debtToSP, collToShare
<1>9. collOut = t.entireTroveColl /\ debtOut = t.entireTroveDebt /\ p = tx.remainingZUSDInStabPool
  BY <1>2, <1>6, <1>7, <1>8
<1> HIDE DEF collOut, debtOut, p, g
<1>10. /\ TrovesSound(Troves, rewards') /\ RewardsTyped(rewards')
       /\ SumFunction(Shares(Troves, rewards')) + rewards'.ETHError
            = SumFunction(Shares(Troves, rewards)) + rewards.ETHError
                + (IF t.debtToRedistribute = 0 THEN 0 ELSE t.collToRedistribute)
                    * DECIMAL_PRECISION
  <2>1. stakes.total \in Nat
    BY <1>3, Zenon DEF StakesTyped
  <2> QED
    BY ONLY <1>1, <1>3, <1>5, <1>6, <2>1, Redistributes
<1>11. /\ activePool'.ETH = activePool.ETH + (-collOut)
       /\ activePool'.ZUSDDebt = activePool.ZUSDDebt + (-debtOut)
       /\ defaultPool'.ETH = defaultPool.ETH + collToShare
       /\ defaultPool'.ZUSDDebt = defaultPool.ZUSDDebt + t.debtToRedistribute
  BY <1>1, Zenon DEF adding
<1>12. SumFunction(Colls(Troves)) \in Nat /\ SumFunction(Debts(Troves)) \in Nat
       /\ SumFunction(Shares(Troves, rewards)) \in Nat
  BY <1>3, SumsTyped, Zenon
<1>13. PoolHolds(Troves, activePool', 0, 0)
  BY <1>3, <1>6, <1>9, <1>11, <1>12 DEF PoolHolds
<1>14. SharesCovered(Troves, rewards', defaultPool')
  <2>1. /\ defaultPool.ETH \in Nat /\ defaultPool.ZUSDDebt \in Int /\ rewards.ETHError \in Nat
        /\ SumFunction(Shares(Troves, rewards)) + rewards.ETHError
             <= DECIMAL_PRECISION * defaultPool.ETH
    BY <1>3, Zenon DEF SharesCovered, RewardsTyped
  <2> DEFINE x == t.collToRedistribute * DECIMAL_PRECISION
             y == DECIMAL_PRECISION * defaultPool.ETH
  <2>2. (IF t.debtToRedistribute = 0 THEN 0 ELSE t.collToRedistribute) * DECIMAL_PRECISION = x
    BY <1>6, Zenon
  <2>3. x \in Nat /\ y \in Nat /\ DECIMAL_PRECISION * (defaultPool.ETH + collToShare) = y + x
    BY <1>6, <1>8, <2>1, TimesNat, LiquityBaseAssumption
  <2>4. SumFunction(Shares(Troves, rewards')) + rewards'.ETHError
          = SumFunction(Shares(Troves, rewards)) + rewards.ETHError + x
    BY <1>10, <2>2, Zenon
  <2> HIDE DEF x
  <2>5. SumFunction(Shares(Troves, rewards')) + rewards'.ETHError <= y + x
    BY <1>12, <2>1, <2>3, <2>4
  <2> HIDE DEF y
  <2> QED
    BY <1>6, <1>8, <1>11, <2>1, <2>3, <2>5 DEF SharesCovered
<1>15. SurplusHeld(surplus', 0)
  <2>1. surplus' = [ETH |-> kept, balances |-> surplus.balances] /\ kept \in Nat
    <3>1. surplus = [ETH |-> surplus.ETH, balances |-> surplus.balances] /\ surplus.ETH \in Nat
      BY <1>3, Zenon DEF SurplusHeld
    <3>2. kept \in Nat
      BY <1>6, <3>1
    <3> HIDE DEF kept
    <3> QED
      BY <1>1, <3>1, <3>2, Zenon
  <2>2. kept + 0 = SumFunction(surplus.balances) /\ surplus.balances \in [Borrowers -> Nat]
    BY <1>3, <2>1 DEF SurplusHeld
  <2> HIDE DEF kept
  <2> QED
    BY <2>1, <2>2, Zenon DEF SurplusHeld
<1>16. StakesTyped(stakes') /\ stakes'.total = SumFunction(Stakes(Troves))
  <2>1. snapshot \in Nat
    BY <1>12, <1>13, <1>14 DEF PoolHolds, SharesCovered
  <2> HIDE DEF snapshot
  <2>2. stakes' = [total |-> stakes.total, totalSnapshot |-> stakes.total,
                   collateralSnapshot |-> snapshot]
    BY <1>1, <1>3, Zenon DEF StakesTyped
  <2> QED
    BY <1>3, <2>1, <2>2, Zenon DEF StakesTyped
<1>17. Circulates(zusd', activePool', defaultPool')
  <2>1. [zusd EXCEPT !.stabilityPool = p]
          = [users |-> zusd.users, gasPool |-> zusd.gasPool, stabilityPool |-> p]
    BY <1>2 DEF Purse
  <2>2. zusd' = [users |-> zusd.users + g, gasPool |-> zusd.gasPool - g, stabilityPool |-> p]
    BY <1>1, <2>1, Zenon DEF sendGasCompensation
  <2>3. /\ zusd.users \in Nat /\ zusd.stabilityPool \in Nat /\ zusd.gasPool \in Int
        /\ zusd.users + zusd.gasPool + zusd.stabilityPool
             = activePool.ZUSDDebt + defaultPool.ZUSDDebt
    BY <1>2, <1>3, Zenon DEF Circulates, Purse
  <2>4. activePool.ZUSDDebt \in Int /\ defaultPool.ZUSDDebt \in Int
    BY <1>3, <1>6, <1>12 DEF PoolHolds, SharesCovered
  <2>5. activePool'.ZUSDDebt + defaultPool'.ZUSDDebt
          = activePool.ZUSDDebt + defaultPool.ZUSDDebt - t.debtToOffset
    BY <1>6, <1>9, <1>11, <2>4
  <2>6. zusd'.users + zusd'.gasPool + zusd'.stabilityPool
          = activePool'.ZUSDDebt + defaultPool'.ZUSDDebt
    BY <1>2, <1>6, <1>9, <2>2, <2>3, <2>4, <2>5
  <2>7. zusd'.users \in Nat /\ zusd'.stabilityPool \in Nat
    BY <1>2, <1>6, <1>9, <2>2, <2>3
  <2> QED
    BY <2>6, <2>7, Zenon DEF Circulates
<1>18. Settled'
  BY ONLY <1>1, <1>10, <1>13, <1>14, <1>15, <1>16, <1>17, Zenon DEF Settled, Accounts
<1> QED
  BY <1>1, <1>2, <1>18, SettledIdle, Zenon

-----------------------------------------------------------------------------
(* Every step *)

(* Every transaction, iteration, settlement and revert keeps the accounts. *)
LEMMA NextAInv == IInv /\ AInv /\ [Next]_vars => AInv'
<1> SUFFICES ASSUME IInv, AInv, [Next]_vars PROVE AInv'
  BY Zenon
<1>1. CASE BorrowerTransaction
  <2>1. PICK b \in Borrowers :
           \/ \E coll \in OpenColl, amount \in OpenZUSD, rate \in BorrowingRates :
                 openTrove(b, coll, amount, rate)
           \/ \E collIn, collOut \in AdjustColl \cup {0}, amount \in AdjustZUSD \cup {0},
                 rate \in BorrowingRates, isDebtIncrease \in BOOLEAN :
                 adjustTrove(b, collIn, collOut, amount, isDebtIncrease, rate)
           \/ closeOwnTrove(b)
           \/ claimCollateral(b)
    BY <1>1, Zenon DEF BorrowerTransaction
  <2>2. /\ OpenColl \subseteq Nat /\ OpenZUSD \subseteq Nat /\ BorrowingRates \subseteq Nat
        /\ AdjustColl \cup {0} \subseteq Nat /\ AdjustZUSD \cup {0} \subseteq Nat
    BY InputsAssumption
  <2>3. CASE \E coll \in OpenColl, amount \in OpenZUSD, rate \in BorrowingRates :
                openTrove(b, coll, amount, rate)
    BY <2>2, <2>3, OpenAInv, Zenon
  <2>4. CASE \E collIn, collOut \in AdjustColl \cup {0}, amount \in AdjustZUSD \cup {0},
                rate \in BorrowingRates, isDebtIncrease \in BOOLEAN :
                adjustTrove(b, collIn, collOut, amount, isDebtIncrease, rate)
    <3>1. PICK collIn \in AdjustColl \cup {0}, collOut \in AdjustColl \cup {0},
               amount \in AdjustZUSD \cup {0}, rate \in BorrowingRates,
               isDebtIncrease \in BOOLEAN :
               adjustTrove(b, collIn, collOut, amount, isDebtIncrease, rate)
      BY <2>4, Zenon
    <3>2. collIn \in Nat /\ collOut \in Nat /\ amount \in Nat /\ rate \in Nat
      BY <2>2, Zenon
    <3> QED
      BY <3>1, <3>2, AdjustAInv, Zenon
  <2>5. CASE closeOwnTrove(b)
    BY <2>5, CloseOwnAInv, Zenon
  <2>6. CASE claimCollateral(b)
    BY <2>6, OthersAInv, Zenon
  <2> QED
    BY <2>1, <2>3, <2>4, <2>5, <2>6, Zenon
<1>2. CASE LiquidatorTransaction
  BY <1>2, StartLiquidationAInv, Zenon
  DEF LiquidatorTransaction, liquidateTroves, batchLiquidateTroves, liquidate
<1>3. CASE RedeemerTransaction
  <2>1. RedeemAmounts \subseteq Nat
    BY InputsAssumption, Zenon
  <2> QED
    BY <1>3, <2>1, StartRedemptionAInv, Zenon DEF RedeemerTransaction
<1>4. CASE DepositorTransaction \/ \E p \in Prices : setPrice(p)
  <2>1. Deposits \subseteq Nat
    BY InputsAssumption, Zenon
  <2> QED
    BY <1>4, <2>1, OthersAInv, Zenon DEF DepositorTransaction
<1>5. CASE Continue
  <2>1. CASE liquidateTrove \/ skipTrove \/ finishLiquidation
    BY <2>1, LiquidateTroveAInv, SkipTroveAInv, FinishLiquidationAInv, Zenon
  <2>2. CASE redeemWholeTrove \/ redeemPartOfTrove \/ cancelPartial \/ finishRedemption
    BY <2>2, RedeemWholeAInv, RedeemPartAInv, CancelPartialAInv, FinishRedemptionAInv, Zenon
  <2>3. CASE revertLiquidation \/ revertRedemption
    BY <2>3, RestoreAInv, Zenon DEF revertLiquidation, revertRedemption
  <2> QED
    BY <1>5, <2>1, <2>2, <2>3, Zenon DEF Continue
<1>6. CASE UNCHANGED vars
  <2>1. /\ Troves' = Troves /\ stakes' = stakes /\ rewards' = rewards
        /\ activePool' = activePool /\ defaultPool' = defaultPool
        /\ surplus' = surplus /\ zusd' = zusd /\ price' = price /\ tx' = tx
    BY <1>6, Zenon DEF vars, contracts
  <2> QED
    BY <2>1, Zenon DEF AInv, UnsettledColl, UnsettledDebt, UnsettledSurplus, Liquidating, Redeeming
<1> QED
  BY <1>1, <1>2, <1>3, <1>4, <1>5, <1>6, Zenon DEF Next

(* The accounts balance in every state. *)
LEMMA SpecAInv == Spec => [](IInv /\ AInv)
<1>1. Init => IInv /\ AInv
  BY InitIInv, InitAInv, Zenon
<1>2. IInv /\ AInv /\ [Next]_vars => (IInv /\ AInv)'
  BY NextIInv, NextAInv, Zenon
<1> QED
  BY <1>1, <1>2, PTL DEF Spec

(* Every ZUSD in circulation is owed, to the pools, by a trove: minting,   *)
(* burning, offsetting and redistributing keep the token's supply equal to *)
(* the debt.                                                               *)
THEOREM ZUSDIsOwed == Spec => []SupplyIsDebt
<1>1. AInv => SupplyIsDebt
  BY Zenon DEF AInv, Accounts, Circulates, SupplyIsDebt
<1> QED
  BY <1>1, SpecAInv, PTL

(* The ActivePool holds what its troves record, and what the transaction   *)
(* in progress is about to settle, to the last unit.                       *)
THEOREM PoolStaysWithTroves == Spec => []ActivePoolHoldsTroves
<1>1. AInv => ActivePoolHoldsTroves
  BY Zenon DEF AInv, Accounts, PoolHolds, Colls, Debts, ActivePoolHoldsTroves
<1> QED
  BY <1>1, SpecAInv, PTL

(* The divisor of every redistribution is the sum of the stakes it is      *)
(* divided among.                                                          *)
THEOREM StakesAddUp == Spec => []TotalStakesIsSum
<1>1. AInv => TotalStakesIsSum
  <2> SUFFICES ASSUME AInv PROVE TotalStakesIsSum
    BY Zenon
  <2>1. stakes.total = SumFunction([b \in Borrowers |-> Troves[b].stake])
    BY Zenon DEF AInv, Accounts, Stakes
  <2>2. ASSUME NEW b \in Borrowers \ Active
        PROVE  Troves[b].stake = 0
    BY Zenon DEF AInv, Accounts, TrovesSound, Sound, Active, isActive
  <2> QED
    BY <2>1, <2>2, Zenon DEF TotalStakesIsSum
<1> QED
  BY <1>1, SpecAInv, PTL

(* Rounding never promises more collateral than was redistributed, whoever *)
(* applies their rewards, and when.                                        *)
THEOREM PendingETHIsCovered == Spec => []DefaultPoolCoversETH
<1>1. AInv => DefaultPoolCoversETH
  BY Zenon DEF AInv, Accounts, SharesCovered, Shares, DefaultPoolCoversETH
<1> QED
  BY <1>1, SpecAInv, PTL

(* All claims on the CollSurplusPool can be paid. *)
THEOREM ClaimsAreBacked == Spec => []SurplusBacked
<1>1. AInv => SurplusBacked
  BY Zenon DEF AInv, Accounts, SurplusHeld, SurplusBacked
<1> QED
  BY <1>1, SpecAInv, PTL

(* No sequence of repayments, redistributions and redemptions leaves a     *)
(* trove with less than the minimum debt.                                  *)
THEOREM DebtStaysAboveMinimum == Spec => []DebtAboveMinimum
<1>1. AInv => DebtAboveMinimum
  <2> SUFFICES ASSUME AInv, NEW b \in Active PROVE getNetDebt(Troves[b].debt) >= MIN_NET_DEBT
    BY Zenon DEF DebtAboveMinimum
  <2>1. Troves[b].debt \in Nat /\ Troves[b].debt >= ZUSD_GAS_COMPENSATION + MIN_NET_DEBT
    BY Zenon DEF AInv, Accounts, TrovesSound, Sound, Active, isActive
  <2> QED
    BY <2>1, LiquityBaseAssumption DEF getNetDebt
<1> QED
  BY <1>1, SpecAInv, PTL

(* The balances of the contracts, but for the debt of the DefaultPool. *)
BalancesAreAmounts ==
    /\ \A b \in Borrowers : Troves[b].coll \in Nat /\ Troves[b].debt \in Nat
                            /\ Troves[b].stake \in Nat
    /\ stakes.total \in Nat
    /\ activePool.ETH \in Nat /\ activePool.ZUSDDebt \in Nat /\ defaultPool.ETH \in Nat
    /\ surplus.ETH \in Nat /\ surplus.balances \in [Borrowers -> Nat]
    /\ zusd.users \in Nat /\ zusd.gasPool \in Nat /\ zusd.stabilityPool \in Nat

(* No balance is ever overdrawn: where a contract subtracts what it closes, *)
(* moves, burns or pays out, it never has less than that.                   *)
THEOREM NothingIsOverdrawn == Spec => []BalancesAreAmounts
<1>1. IInv /\ AInv => BalancesAreAmounts
  <2> SUFFICES ASSUME IInv, AInv PROVE BalancesAreAmounts
    BY Zenon
  <2>1. /\ TrovesSound(Troves, rewards) /\ RewardsTyped(rewards) /\ StakesTyped(stakes)
        /\ PoolHolds(Troves, activePool, UnsettledColl, UnsettledDebt)
        /\ SharesCovered(Troves, rewards, defaultPool)
        /\ SurplusHeld(surplus, UnsettledSurplus) /\ Circulates(zusd, activePool, defaultPool)
    BY Zenon DEF AInv, Accounts
  <2>2. UnsettledColl \in Nat /\ UnsettledDebt \in Nat
    BY Zenon DEF AInv, Tallied, Split, Affordable, UnsettledColl, UnsettledDebt
  <2>3. activePool.ETH \in Nat /\ activePool.ZUSDDebt \in Nat
    BY <2>1, <2>2, SumsTyped DEF PoolHolds
  <2>4. zusd.gasPool \in Nat
    <3>1. Len(TroveOwners) \in Nat
      BY Positions, Zenon DEF IInv, Books, Indexed
    <3>2. Reserves(TroveOwners) \in Nat
      BY <3>1, TimesNat, LiquityBaseAssumption, Zenon DEF Reserves
    <3>3. LiquidationGood => Liquidating /\ tx.totals.ZUSDGasCompensation \in Nat
      BY DEF LiquidationGood, LiquidationTx, Liquidating, AInv, Tallied, Split
    <3> QED
      BY <3>2, <3>3 DEF IInv, LiquidationGood, RedemptionGood
  <2>5. /\ \A b \in Borrowers : Troves[b].coll \in Nat /\ Troves[b].debt \in Nat
                                /\ Troves[b].stake \in Nat
        /\ stakes.total \in Nat /\ defaultPool.ETH \in Nat
        /\ surplus.ETH \in Nat /\ surplus.balances \in [Borrowers -> Nat]
        /\ zusd.users \in Nat /\ zusd.stabilityPool \in Nat
    BY <2>1, Zenon DEF TrovesSound, Sound, StakesTyped, SharesCovered, SurplusHeld, Circulates
  <2> QED
    BY <2>3, <2>4, <2>5, Zenon DEF BalancesAreAmounts
<1> QED
  BY <1>1, SpecAInv, PTL

-----------------------------------------------------------------------------
(* The ratio of the system during a sequence of liquidations *)

(* The loop of liquidateTroves tracks what the system is left with when    *)
(* the liquidations so far are settled, and stays in Recovery Mode only    *)
(* while that is below CCR.                                                *)
Tracked ==
    /\ tx.entireSystemColl
         = getEntireSystemColl - tx.totals.collToSendToSP - tx.totals.collSurplus
    /\ tx.entireSystemDebt = getEntireSystemDebt - tx.totals.debtToOffset
    /\ computeCR(tx.entireSystemColl, tx.entireSystemDebt, price) < CCR

(* A transaction in progress opens no trove, so that a revert closes none. *)
TInv ==
    /\ Liquidating \/ Redeeming => Active \subseteq ActiveIn(tx.saved.Troves)
    /\ Liquidating /\ ~tx.batch /\ inRecoveryMode => Tracked

(* The balances of the two pools are integers. *)
LEMMA PoolsTyped ==
    ASSUME AInv
    PROVE  /\ activePool.ETH \in Int /\ activePool.ZUSDDebt \in Int
           /\ defaultPool.ETH \in Int /\ defaultPool.ZUSDDebt \in Int
<1>1. /\ TrovesSound(Troves, rewards) /\ RewardsTyped(rewards) /\ StakesTyped(stakes)
      /\ PoolHolds(Troves, activePool, UnsettledColl, UnsettledDebt)
      /\ SharesCovered(Troves, rewards, defaultPool)
  BY Zenon DEF AInv, Accounts
<1>2. UnsettledColl \in Nat /\ UnsettledDebt \in Nat
  BY Zenon DEF AInv, Tallied, Split, Affordable, UnsettledColl, UnsettledDebt
<1>3. activePool.ETH \in Int /\ activePool.ZUSDDebt \in Int
  BY <1>1, <1>2, SumsTyped DEF PoolHolds
<1> QED
  BY <1>1, <1>3 DEF SharesCovered

(* What an iteration of a sequence does to the amounts it tracks. *)
LEMMA AdvanceTracks ==
    ASSUME LiquidationTx(tx), ~tx.batch, NEW b, ~passesOver(b), NEW v, NEW t, t = advance(b, v)
    PROVE  /\ inRecoveryMode =>
                /\ t.entireSystemDebt = tx.entireSystemDebt - v.debtToOffset
                /\ t.entireSystemColl = tx.entireSystemColl - v.collToSendToSP - v.collSurplus
                /\ ~t.backToNormalMode =>
                      computeCR(t.entireSystemColl, t.entireSystemDebt, price) < CCR
           /\ tx.recoveryModeAtStart /\ ~inRecoveryMode => t.backToNormalMode
<1> DEFINE a == IF tx.batch THEN SubSeq(tx.array, 2, Len(tx.array)) ELSE << >>
           p == getPrev(b)
           l == IF tx.batch THEN 0 ELSE tx.left - 1
           r == tx.remainingZUSDInStabPool - v.debtToOffset
           debt == tx.entireSystemDebt - v.debtToOffset
           tracks == inRecoveryMode /\ ~passesOver(b)
           d == IF tracks THEN debt ELSE tx.entireSystemDebt
           c == IF tracks THEN collAfter(v) ELSE tx.entireSystemColl
           n == IF tracks THEN ~checkPotentialRecoveryMode(collAfter(v), debt)
                ELSE tx.backToNormalMode
           s == addLiquidationValuesToTotals(tx.totals, v)
<1>1. t = [tx EXCEPT !.array = a, !.user = p, !.left = l, !.remainingZUSDInStabPool = r,
                     !.entireSystemDebt = d, !.entireSystemColl = c,
                     !.backToNormalMode = n, !.totals = s]
  BY Zenon DEF advance
<1>2. inRecoveryMode => d = debt /\ c = collAfter(v)
  BY Zenon
<1>3. collAfter(v) = tx.entireSystemColl - v.collToSendToSP - v.collSurplus
  BY Zenon DEF collAfter
<1>4. inRecoveryMode /\ ~n => computeCR(collAfter(v), debt, price) < CCR
  BY Zenon DEF checkPotentialRecoveryMode
<1>5. tx.recoveryModeAtStart /\ ~inRecoveryMode => n
  BY Zenon DEF inRecoveryMode
<1> HIDE DEF a, p, l, r, tracks, d, c, n, s
<1>6. t.entireSystemDebt = d /\ t.entireSystemColl = c /\ t.backToNormalMode = n
  <2> DEFINE old == [op |-> "liquidate", batch |-> tx.batch, array |-> tx.array,
                     user |-> tx.user, firstUser |-> tx.firstUser, left |-> tx.left,
                     recoveryModeAtStart |-> tx.recoveryModeAtStart,
                     backToNormalMode |-> tx.backToNormalMode,
                     remainingZUSDInStabPool |-> tx.remainingZUSDInStabPool,
                     entireSystemDebt |-> tx.entireSystemDebt,
                     entireSystemColl |-> tx.entireSystemColl,
                     totals |-> tx.totals, saved |-> tx.saved]
  <2>1. tx = old
    BY Zenon DEF LiquidationTx
  <2>2. t = [old EXCEPT !.array = a, !.user = p, !.left = l, !.remainingZUSDInStabPool = r,
                        !.entireSystemDebt = d, !.entireSystemColl = c,
                        !.backToNormalMode = n, !.totals = s]
    BY ONLY <1>1, <2>1, Zenon
  <2> QED
    BY ONLY <2>2, Zenon
<1> QED
  BY <1>2, <1>3, <1>4, <1>5, <1>6, Zenon

(* An iteration that yields v, and moves collateral and debt between the   *)
(* two pools at most, keeps track.                                         *)
LEMMA IterationTracks ==
    ASSUME IInv, AInv, TInv, looping, NEW v, Split(v), tx' = advance(visited, v),
           getEntireSystemColl' = getEntireSystemColl, getEntireSystemDebt' = getEntireSystemDebt,
           price' = price, Active' \subseteq Active
    PROVE  TInv'
<1>1. tx.op = "liquidate" /\ v.ZUSDGasCompensation \in Int
  BY DEF looping, Split
<1>2. LiquidationTx(tx)
  BY <1>1, LiquidationPart, Zenon DEF LiquidationGood
<1>3. /\ LiquidationTx(tx') /\ tx'.batch = tx.batch
      /\ tx'.recoveryModeAtStart = tx.recoveryModeAtStart /\ tx'.saved = tx.saved
      /\ tx'.totals = addLiquidationValuesToTotals(tx.totals, v)
  BY ONLY tx' = advance(visited, v), <1>1, <1>2, AdvanceKeeps
<1>4. Active' \subseteq ActiveIn(tx'.saved.Troves)
  BY <1>1, <1>3, Zenon DEF TInv, Liquidating
<1>5. ASSUME ~tx.batch, inRecoveryMode'
      PROVE  Tracked'
  <2>1. ~passesOver(visited)
    BY <1>5, Zenon DEF looping
  <2>2. /\ inRecoveryMode =>
             /\ tx'.entireSystemDebt = tx.entireSystemDebt - v.debtToOffset
             /\ tx'.entireSystemColl = tx.entireSystemColl - v.collToSendToSP - v.collSurplus
             /\ ~tx'.backToNormalMode =>
                   computeCR(tx'.entireSystemColl, tx'.entireSystemDebt, price) < CCR
        /\ tx.recoveryModeAtStart /\ ~inRecoveryMode => tx'.backToNormalMode
    BY ONLY tx' = advance(visited, v), <1>2, <1>5, <2>1, AdvanceTracks, Zenon
  <2>3. inRecoveryMode /\ ~tx'.backToNormalMode
    BY <1>3, <1>5, <2>2, Zenon DEF inRecoveryMode
  <2>4. /\ tx.entireSystemColl
             = getEntireSystemColl - tx.totals.collToSendToSP - tx.totals.collSurplus
        /\ tx.entireSystemDebt = getEntireSystemDebt - tx.totals.debtToOffset
    BY <1>1, <1>5, <2>3, Zenon DEF TInv, Tracked, Liquidating
  <2>5. /\ tx'.totals.debtToOffset = tx.totals.debtToOffset + v.debtToOffset
        /\ tx'.totals.collToSendToSP = tx.totals.collToSendToSP + v.collToSendToSP
        /\ tx'.totals.collSurplus = tx.totals.collSurplus + v.collSurplus
    BY <1>3, TotalsField
  <2>6. Split(tx.totals)
    BY <1>1, Zenon DEF AInv, Liquidating, Tallied
  <2>7. getEntireSystemColl \in Int /\ getEntireSystemDebt \in Int
    BY PoolsTyped DEF getEntireSystemColl, getEntireSystemDebt
  <2>8. /\ tx'.entireSystemColl
             = getEntireSystemColl - tx'.totals.collToSendToSP - tx'.totals.collSurplus
        /\ tx'.entireSystemDebt = getEntireSystemDebt - tx'.totals.debtToOffset
    BY <2>2, <2>3, <2>4, <2>5, <2>6, <2>7 DEF Split
  <2> QED
    BY <2>2, <2>3, <2>8, Zenon DEF Tracked
<1>6. Liquidating'
  BY <1>3 DEF LiquidationTx, Liquidating
<1> QED
  BY <1>3, <1>4, <1>5, Zenon DEF TInv

(* The pools together keep what they hold when rewards move between them.  *)
LEMMA SystemKept ==
    ASSUME AInv, NEW e \in Int, NEW f \in Int,
           activePool' = adding(activePool, e, f), defaultPool' = adding(defaultPool, -e, -f)
    PROVE  getEntireSystemColl' = getEntireSystemColl /\ getEntireSystemDebt' = getEntireSystemDebt
<1>1. /\ activePool.ETH \in Int /\ activePool.ZUSDDebt \in Int
      /\ defaultPool.ETH \in Int /\ defaultPool.ZUSDDebt \in Int
  BY PoolsTyped, Zenon
<1>2. /\ activePool'.ETH = activePool.ETH + e /\ defaultPool'.ETH = defaultPool.ETH - e
      /\ activePool'.ZUSDDebt = activePool.ZUSDDebt + f
      /\ defaultPool'.ZUSDDebt = defaultPool.ZUSDDebt - f
  BY <1>1, Zenon DEF adding
<1> QED
  BY <1>1, <1>2 DEF getEntireSystemColl, getEntireSystemDebt

(* No active trove is closed by a liquidation in this step. *)
NoneLiquidated == \A b \in Borrowers : ~Liquidated(b)

(* Active troves that stay active are not liquidated. *)
LEMMA StayActive ==
    ASSUME ActiveIn(Troves) \subseteq ActiveIn(Troves')
    PROVE  NoneLiquidated
BY Zenon DEF NoneLiquidated, Liquidated, isActive, ActiveIn

(* A closed trove has the status it was closed with, and it is the only    *)
(* one.                                                                    *)
LEMMA ClosesOne ==
    ASSUME IInv, NEW b \in Active, NEW s, s # "active", closeTrove(b, s)
    PROVE  /\ Active' = Active \ {b} /\ Troves'[b].status = s
           /\ \A a \in Borrowers : Liquidated(a) => a = b /\ s = "closedByLiquidation"
<1>1. b \in Borrowers
  BY Zenon DEF Active
<1>2. ActiveIn(Troves') = Active \ {b}
  BY BooksAfterClose, Zenon DEF IInv
<1>3. Active' = Active \ {b}
  BY <1>2, Zenon DEF Active, ActiveIn, isActive
<1>4. Troves'[b].status = s
  <2> DEFINE i == Troves[b].arrayIndex
  <2>1. Troves'[b] = [NoTrove EXCEPT !.status = s, !.arrayIndex = i]
    BY <1>1, Zenon DEF closeTrove
  <2> HIDE DEF i
  <2> QED
    BY <2>1, Zenon DEF NoTrove
<1>5. ASSUME NEW a \in Borrowers, Liquidated(a) PROVE a = b
  <2>1. a \in Active /\ Troves'[a].status # "active"
    BY <1>5, Zenon DEF Liquidated, Active
  <2>2. a \notin ActiveIn(Troves')
    BY <2>1, Zenon DEF ActiveIn
  <2> QED
    BY <1>2, <2>1, <2>2, Zenon
<1> QED
  BY <1>3, <1>4, <1>5, Zenon DEF Liquidated

(* A sequence liquidates at or above MCR only in Recovery Mode, and then   *)
(* below the ratio it tracks.                                              *)
LEMMA TracksLiquidated ==
    ASSUME IInv, AInv, TInv, looping, ~tx.batch, singleLiquidation(visited) # zeroVals
    PROVE  BelowTCR(visited)
<1> DEFINE b == visited
           ICR == getCurrentICR(b)
           TCR == computeCR(tx.entireSystemColl, tx.entireSystemDebt, price)
<1> SUFFICES ASSUME ~(ICR < MCR) PROVE ICR < RunningTCR /\ RunningTCR < CCR
  BY Zenon DEF BelowTCR
<1>1. tx.op = "liquidate" /\ ~passesOver(b)
  BY Zenon DEF looping
<1>2. b \in Active
  BY LiquidatesActive, Zenon
<1>3. ICR \in Nat /\ MCR \in Nat /\ DECIMAL_PRECISION \in Nat /\ DECIMAL_PRECISION < MCR
  <2>1. Sound(Troves[b], rewards) /\ RewardsTyped(rewards) /\ price \in Prices
    BY <1>1, <1>2, LiquidatingPart, Zenon DEF Accounts, TrovesSound, Active
  <2>2. entireColl(b) \in Nat /\ entireDebt(b) \in Nat \ {0} /\ price \in Nat \ {0}
    BY <1>2, <2>1, EntireTyped, InputsAssumption, Zenon
  <2>3. ICR = (entireColl(b) * price) \div entireDebt(b)
    BY <2>2 DEF getCurrentICR, computeCR
  <2> QED
    BY <2>2, <2>3, TimesNat, RoundsDown, LiquityBaseAssumption
<1>4. ICR >= MCR
  BY <1>3
<1>5. inRecoveryMode
  BY <1>1, <1>4, Zenon DEF passesOver
<1>6. Tracked
  BY <1>1, <1>5, Zenon DEF TInv, Liquidating
<1>7. TCR = RunningTCR /\ TCR < CCR
  BY <1>6, Zenon DEF Tracked, RunningTCR
<1>8. liquidateRecoveryMode(b, ICR, tx.remainingZUSDInStabPool, TCR) # zeroVals
  BY <1>1, <1>5, Zenon DEF singleLiquidation
<1>9. ~(ICR <= DECIMAL_PRECISION)
  BY <1>3, <1>4
<1> HIDE DEF b, ICR, TCR
<1>10. ICR < TCR
  BY <1>8, <1>9, Zenon DEF liquidateRecoveryMode
<1> QED
  BY <1>7, <1>10, Zenon

(* An iteration liquidates its trove only as TracksLiquidated has it. *)
LEMMA LiquidateTroveTInv ==
    ASSUME IInv, AInv, TInv, liquidateTrove
    PROVE  TInv' /\ \A b \in Borrowers : Liquidated(b) /\ ~tx.batch => BelowTCR(b)
<1> DEFINE b == visited
           v == singleLiquidation(b)
           e == getPendingETHReward(b)
           f == getPendingZUSDDebtReward(b)
<1>1. /\ looping /\ tx.op = "liquidate" /\ v # zeroVals /\ price' = price
      /\ closeTrove(b, "closedByLiquidation") /\ tx' = advance(b, v)
      /\ activePool' = adding(activePool, e, f) /\ defaultPool' = adding(defaultPool, -e, -f)
  BY Zenon DEF liquidateTrove, looping
<1>2. b \in Active
  BY <1>1, LiquidatesActive, Zenon
<1>3. /\ Sound(Troves[b], rewards) /\ RewardsTyped(rewards) /\ price \in Prices
      /\ tx.remainingZUSDInStabPool \in Nat
  BY <1>1, <1>2, LiquidatingPart, Zenon DEF Accounts, TrovesSound, Active, Tallied
<1>4. Split(v) /\ e \in Int /\ f \in Int
  BY <1>1, <1>2, <1>3, Yields, EntireTyped
<1>5. getEntireSystemColl' = getEntireSystemColl /\ getEntireSystemDebt' = getEntireSystemDebt
  <2> HIDE DEF e, f
  <2> QED
    BY <1>1, <1>4, SystemKept, Zenon
<1>6. Active' = Active \ {b} /\ \A a \in Borrowers : Liquidated(a) => a = b
  BY <1>1, <1>2, ClosesOne, Zenon
<1>7. TInv'
  <2>1. Split(v) /\ tx' = advance(visited, v) /\ Active' \subseteq Active
    BY <1>1, <1>4, <1>6, Zenon
  <2> HIDE DEF b, v
  <2> QED
    BY ONLY IInv, AInv, TInv, <1>1, <1>5, <2>1, IterationTracks, Zenon
<1>8. ~tx.batch => BelowTCR(b)
  BY <1>1, TracksLiquidated, Zenon
<1> QED
  BY <1>6, <1>7, <1>8, Zenon

(* An iteration that leaves the trove alone keeps track. *)
LEMMA SkipTroveTInv ==
    ASSUME IInv, AInv, TInv, skipTrove
    PROVE  TInv' /\ NoneLiquidated
<1>1. /\ looping /\ price' = price /\ tx' = advance(visited, zeroVals) /\ Troves' = Troves
      /\ activePool' = activePool /\ defaultPool' = defaultPool
  BY Zenon DEF skipTrove, contracts
<1>2. getEntireSystemColl' = getEntireSystemColl /\ getEntireSystemDebt' = getEntireSystemDebt
  BY <1>1, Zenon DEF getEntireSystemColl, getEntireSystemDebt
<1>3. Active' \subseteq Active /\ NoneLiquidated
  BY <1>1, StayActive, Zenon DEF Active, isActive
<1>4. TInv'
  BY ONLY IInv, AInv, TInv, <1>1, <1>2, <1>3, ZeroSplit, IterationTracks, Zenon
<1> QED
  BY <1>3, <1>4, Zenon

(* A liquidation starts with what the system holds. *)
LEMMA StartLiquidationTInv ==
    ASSUME AInv, NEW batch, NEW array, NEW n, startLiquidation(batch, array, n)
    PROVE  TInv' /\ NoneLiquidated
<1>1. /\ price' = price /\ Troves' = Troves
      /\ activePool' = activePool /\ defaultPool' = defaultPool
      /\ tx'.saved = saved /\ tx'.totals = zeroVals
      /\ tx'.recoveryModeAtStart = checkRecoveryMode
      /\ tx'.entireSystemDebt = getEntireSystemDebt
      /\ tx'.entireSystemColl = getEntireSystemColl
  BY Zenon DEF startLiquidation, contracts
<1>2. getEntireSystemColl' = getEntireSystemColl /\ getEntireSystemDebt' = getEntireSystemDebt
  BY <1>1, Zenon DEF getEntireSystemColl, getEntireSystemDebt
<1>3. getEntireSystemColl \in Int /\ getEntireSystemDebt \in Int
  BY PoolsTyped DEF getEntireSystemColl, getEntireSystemDebt
<1>4. Active' \subseteq ActiveIn(tx'.saved.Troves) /\ NoneLiquidated
  BY <1>1, StayActive DEF Active, ActiveIn, isActive, saved
<1>5. /\ tx'.totals.debtToOffset = 0 /\ tx'.totals.collToSendToSP = 0
      /\ tx'.totals.collSurplus = 0
  BY <1>1, Zenon DEF zeroVals, LiquidationFields
<1>6. ASSUME inRecoveryMode' PROVE Tracked'
  <2>1. computeCR(getEntireSystemColl, getEntireSystemDebt, price) < CCR
    BY <1>1, <1>6, Zenon DEF inRecoveryMode, checkRecoveryMode, getTCR
  <2>2. /\ getEntireSystemColl - 0 - 0 = getEntireSystemColl
        /\ getEntireSystemDebt - 0 = getEntireSystemDebt
    BY <1>3
  <2> QED
    BY <1>1, <1>2, <1>5, <2>1, <2>2, Zenon DEF Tracked
<1> QED
  BY <1>4, <1>6, Zenon DEF TInv

(* Between transactions there is nothing to track. *)
LEMMA IdleTInv ==
    ASSUME tx' = Idle
    PROVE  TInv'
BY Zenon DEF TInv, Liquidating, Redeeming, Idle

(* A borrower closes no trove by liquidation. *)
LEMMA BorrowerTInv ==
    ASSUME IInv, BorrowerTransaction
    PROVE  TInv' /\ NoneLiquidated
<1>1. PICK b \in Borrowers :
         \/ \E coll, amount, rate : openTrove(b, coll, amount, rate)
         \/ \E collIn, collOut, amount, rate, isDebtIncrease :
               adjustTrove(b, collIn, collOut, amount, isDebtIncrease, rate)
         \/ closeOwnTrove(b)
         \/ claimCollateral(b)
  BY Zenon DEF BorrowerTransaction
<1>2. tx' = Idle
  <2>1. \A coll, amount, rate : openTrove(b, coll, amount, rate) => tx' = Idle
    BY DEF openTrove
  <2>2. \A collIn, collOut, amount, rate, isDebtIncrease :
           adjustTrove(b, collIn, collOut, amount, isDebtIncrease, rate) => tx' = Idle
    BY DEF adjustTrove
  <2>3. closeOwnTrove(b) \/ claimCollateral(b) => tx' = Idle
    BY Zenon DEF closeOwnTrove, claimCollateral
  <2> QED
    BY <1>1, <2>1, <2>2, <2>3, Zenon
<1>3. CASE \E coll, amount, rate : openTrove(b, coll, amount, rate)
  <2>1. ~isActive(b) /\ \E u : Troves' = [Troves EXCEPT ![b] = u]
    BY <1>3, Zenon DEF openTrove
  <2>2. ActiveIn(Troves) \subseteq ActiveIn(Troves')
    BY <2>1, Zenon DEF IInv, Books, ActiveIn, isActive
  <2> QED
    BY <1>2, <2>2, IdleTInv, StayActive, Zenon
<1>4. CASE \E collIn, collOut, amount, rate, isDebtIncrease :
              adjustTrove(b, collIn, collOut, amount, isDebtIncrease, rate)
  <2>1. PICK collIn, collOut, amount, rate, isDebtIncrease :
               adjustTrove(b, collIn, collOut, amount, isDebtIncrease, rate)
    BY <1>4, Zenon
  <2>2. Active \subseteq ActiveIn(Troves')
    BY <2>1, AdjustIInv, Zenon
  <2> QED
    BY <1>2, <2>2, IdleTInv, StayActive, Zenon DEF Active, ActiveIn, isActive
<1>5. CASE closeOwnTrove(b)
  <2>1. b \in Active /\ closeTrove(b, "closedByOwner")
    BY <1>5, Zenon DEF closeOwnTrove, Active
  <2>2. \A a \in Borrowers : Liquidated(a) => "closedByOwner" = "closedByLiquidation"
    BY <2>1, ClosesOne
  <2> QED
    BY <1>2, <2>2, IdleTInv, Zenon DEF NoneLiquidated
<1>6. CASE claimCollateral(b)
  BY <1>2, <1>6, IdleTInv, StayActive, Zenon DEF claimCollateral
<1> QED
  BY <1>1, <1>3, <1>4, <1>5, <1>6, Zenon

(* A redemption closes troves, but none by liquidation. *)
LEMMA RedemptionTInv ==
    ASSUME IInv, TInv, redeemWholeTrove \/ redeemPartOfTrove \/ cancelPartial
    PROVE  TInv' /\ NoneLiquidated
<1> DEFINE b == tx.user
           t == applyPendingRewards(b)
<1>1. tx.op = "redeem" /\ b # NULL
  BY Zenon DEF redeemWholeTrove, redeemPartOfTrove, cancelPartial, redeeming
<1>2. RedemptionTx(tx) /\ b \in Active /\ Active \subseteq ActiveIn(tx.saved.Troves)
  BY <1>1, RedemptionPart, Zenon DEF RedemptionGood, TInv, Redeeming
<1>3. RedemptionTx(tx') /\ tx'.saved = tx.saved
  <2>1. CASE redeemWholeTrove \/ redeemPartOfTrove
    <3>1. tx' = drawn(b, t)
      BY <2>1, Zenon DEF redeemWholeTrove, redeemPartOfTrove
    <3> HIDE DEF b, t
    <3> QED
      BY <1>2, <3>1, DrawnKeeps, Zenon
  <2>2. CASE cancelPartial
    <3>1. tx' = [tx EXCEPT !.left = 0]
      BY <2>2, Zenon DEF cancelPartial
    <3> QED
      BY <1>2, <3>1 DEF RedemptionTx
  <2> QED
    BY <2>1, <2>2, Zenon
<1>4. Active' \subseteq Active /\ NoneLiquidated
  <2>1. CASE redeemWholeTrove
    <3>1. closeTrove(b, "closedByRedemption")
      BY <2>1, Zenon DEF redeemWholeTrove
    <3>2. /\ Active' = Active \ {b}
          /\ \A a \in Borrowers : Liquidated(a) => "closedByRedemption" = "closedByLiquidation"
      BY <1>2, <3>1, ClosesOne, Zenon
    <3> QED
      BY <3>2, Zenon DEF NoneLiquidated
  <2>2. CASE redeemPartOfTrove \/ cancelPartial
    <3>1. ActiveIn(Troves') = Active
      BY <2>2, RedeemPartIInv, CancelPartialIInv, Zenon
    <3> QED
      BY <3>1, StayActive, Zenon DEF Active, ActiveIn, isActive
  <2> QED
    BY <2>1, <2>2, Zenon
<1>5. tx'.op = "redeem"
  BY <1>3 DEF RedemptionTx
<1> QED
  BY <1>2, <1>3, <1>4, <1>5, Zenon DEF TInv, Liquidating

(* Every step keeps track, and liquidates only as LiquidateTroveTInv has   *)
(* it; a revert closes no trove that is active.                            *)
LEMMA NextTInv ==
    ASSUME IInv, AInv, TInv, [Next]_vars
    PROVE  TInv' /\ \A b \in Borrowers : Liquidated(b) /\ ~tx.batch => BelowTCR(b)
<1> SUFFICES \/ TInv' /\ NoneLiquidated
             \/ TInv' /\ \A b \in Borrowers : Liquidated(b) /\ ~tx.batch => BelowTCR(b)
  BY Zenon DEF NoneLiquidated
<1>1. CASE BorrowerTransaction
  BY <1>1, BorrowerTInv, Zenon
<1>2. CASE LiquidatorTransaction
  BY <1>2, StartLiquidationTInv, Zenon
  DEF LiquidatorTransaction, liquidateTroves, batchLiquidateTroves, liquidate
<1>3. CASE RedeemerTransaction
  <2>1. Troves' = Troves /\ tx'.op = "redeem" /\ tx'.saved = saved
    BY <1>3 DEF RedeemerTransaction, redeemCollateral, contracts
  <2>2. Active' \subseteq ActiveIn(tx'.saved.Troves)
    BY <2>1 DEF Active, ActiveIn, isActive, saved
  <2> QED
    BY <2>1, <2>2, StayActive, Zenon DEF TInv, Liquidating
<1>4. CASE DepositorTransaction \/ \E p \in Prices : setPrice(p)
  <2>1. Troves' = Troves /\ tx' = Idle
    BY <1>4, Zenon DEF DepositorTransaction, provideToSP, withdrawFromSP, setPrice, contracts
  <2> QED
    BY <2>1, StayActive, IdleTInv, Zenon
<1>5. CASE Continue
  <2>1. CASE liquidateTrove
    BY <2>1, LiquidateTroveTInv, Zenon
  <2>2. CASE skipTrove
    BY <2>2, SkipTroveTInv, Zenon
  <2>3. CASE redeemWholeTrove \/ redeemPartOfTrove \/ cancelPartial
    BY <2>3, RedemptionTInv, Zenon
  <2>4. CASE finishLiquidation \/ finishRedemption
    <3>1. Troves' = Troves /\ tx' = Idle
      BY <2>4, Zenon DEF finishLiquidation, finishRedemption
    <3> QED
      BY <3>1, StayActive, IdleTInv
  <2>5. CASE revertLiquidation \/ revertRedemption
    <3>1. tx.op \in {"liquidate", "redeem"} /\ Troves' = tx.saved.Troves /\ tx' = Idle
      BY <2>5, Zenon DEF revertLiquidation, revertRedemption, restore
    <3>2. ActiveIn(Troves) \subseteq ActiveIn(Troves')
      BY <3>1, Zenon DEF TInv, Liquidating, Redeeming, Active, ActiveIn, isActive
    <3> QED
      BY <3>1, <3>2, StayActive, IdleTInv, Zenon
  <2> QED
    BY <1>5, <2>1, <2>2, <2>3, <2>4, <2>5, Zenon DEF Continue
<1>6. CASE UNCHANGED vars
  <2>1. /\ Troves' = Troves /\ tx' = tx /\ price' = price
        /\ activePool' = activePool /\ defaultPool' = defaultPool
    BY <1>6, Zenon DEF vars
  <2>2. NoneLiquidated
    BY <2>1, StayActive, Zenon
  <2>3. TInv'
    BY <2>1, Zenon DEF TInv, Tracked, Liquidating, Redeeming, Active, isActive, inRecoveryMode,
                getEntireSystemColl, getEntireSystemDebt
  <2> QED
    BY <2>2, <2>3, Zenon
<1> QED
  BY <1>1, <1>2, <1>3, <1>4, <1>5, <1>6, Zenon DEF Next

(* A sequence of liquidations takes no trove at or above MCR unless the    *)
(* system, the liquidations before it in the same transaction accounted    *)
(* for, is in Recovery Mode and the trove is below its ratio: the amounts  *)
(* that the loop tracks, surplus included, are those that the settlement   *)
(* will leave, however long the sequence and whatever it passes over.      *)
THEOREM SequencesStayBelowTCR == Spec => SequenceLiquidatesBelowTCR
<1>1. Init => TInv
  BY DEF Init, InitContracts, TInv, Liquidating, Redeeming, Idle
<1>2. IInv /\ AInv /\ TInv /\ [Next]_vars =>
         TInv' /\ [\A b \in Borrowers : Liquidated(b) /\ ~tx.batch => BelowTCR(b)]_vars
  BY NextTInv, Zenon
<1> QED
  BY <1>1, <1>2, SpecAInv, PTL DEF Spec, SequenceLiquidatesBelowTCR
=============================================================================
