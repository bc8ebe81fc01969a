--------------------------- MODULE FeeDistributor ---------------------------
(***************************************************************************)
(* The FeeDistributor contract: borrowing and redemption fees arrive in it   *)
(* and the operation that paid them then calls distributeFees, which splits *)
(* the whole balance between the fee sharing collector and ZEROStaking.     *)
(***************************************************************************)
EXTENDS ZEROStaking

CONSTANTS UINT96,     \* 2^96, the range of the amounts of the collector
          Fees,       \* fees of an operation
          Shares,     \* values the owner sets FEE_TO_FEE_SHARING_COLLECTOR to
          MAX_FEES,   \* bound: fees that are paid in all, per token
          MAX_STAKED  \* bound: ZERO that is staked in all

\* What the theorems assume of the constants.
Assumptions ==
  /\ UINT96 \in Nat \ {0}
  /\ Fees \subseteq Nat /\ Shares \subseteq Nat /\ Amounts \subseteq Nat

VARIABLES share,      \* FEE_TO_FEE_SHARING_COLLECTOR
          balance,    \* tokens that the distributor holds
          paid        \* fees that were ever paid

vars == <<stakingVars, share, balance, paid>>

setFeeToFeeSharingCollector(s) ==
  /\ share' = s
  /\ UNCHANGED <<stakingVars, balance, paid>>

toFeeSharingCollector(amount) == (amount * share) \div DECIMAL_PRECISION

toZeroStaking(amount) == amount - toFeeSharingCollector(amount)

\* ZUSD goes to the collector as a uint96; the rest of a larger amount stays.
transferred(t, amount) == IF t = "ZUSD" THEN amount % UINT96 ELSE amount

\* An operation pays fees and calls distributeFees.  A share above one makes the
\* subtraction of toZeroStaking fail, and with it the operation.
payFees(fee) ==
  LET due == [t \in Tokens |-> balance[t] + fee[t]]
      toCollector == [t \in Tokens |-> transferred(t, toFeeSharingCollector(due[t]))]
      toStaking == [t \in Tokens |-> toZeroStaking(due[t])]
  IN  /\ \A t \in Tokens : due[t] # 0 => toFeeSharingCollector(due[t]) <= due[t]
      /\ \A t \in Tokens : paid[t] + fee[t] <= MAX_FEES
      /\ paid' = [t \in Tokens |-> paid[t] + fee[t]]
      /\ held' = [t \in Tokens |-> held[t] + toStaking[t]]
      /\ balance' = [t \in Tokens |-> due[t] - toCollector[t] - toStaking[t]]
      /\ F' = [t \in Tokens |-> IF toStaking[t] # 0 THEN increased(t, toStaking[t], totalZEROStaked) ELSE F[t]]
      /\ UNCHANGED <<stakes, totalZEROStaked, snapshots, zero, share>>

userStakes(u, amount) == stake(u, amount) /\ UNCHANGED <<share, balance, paid>>

userUnstakes(u, amount) == unstake(u, amount) /\ UNCHANGED <<share, balance, paid>>

\* FEE_TO_FEE_SHARING_COLLECTOR is set to 100 % with the addresses.
Init ==
  /\ StakingInit
  /\ share = DECIMAL_PRECISION
  /\ balance = [t \in Tokens |-> 0]
  /\ paid = [t \in Tokens |-> 0]

Next ==
  \/ \E s \in Shares : setFeeToFeeSharingCollector(s)
  \/ \E fee \in [Tokens -> Fees] : payFees(fee)
  \/ \E u \in Users, a \in Amounts : totalZEROStaked + a <= MAX_STAKED /\ userStakes(u, a)
  \/ \E u \in Users, a \in Amounts \cup {0} : userUnstakes(u, a)

Spec == Init /\ [][Next]_vars

-----------------------------------------------------------------------------
\* A fee that is smaller than the range of the collector's amounts does not
\* stay in the distributor, whatever the share: the two roundings add up.
NothingIsLeftOver ==
  \A t \in Tokens : paid[t] < UINT96 => balance[t] = 0
=============================================================================
