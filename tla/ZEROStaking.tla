---------------------------- MODULE ZEROStaking ----------------------------
(***************************************************************************)
(* The ZEROStaking contract: stakers of ZERO share the fees that            *)
(* FeeDistributor sends, in each of the two tokens, through the running      *)
(* sums F_ETH and F_ZUSD of fees per unit staked.                           *)
(***************************************************************************)
EXTENDS LiquityMath

CONSTANTS Users,              \* addresses with ZERO
          Tokens,             \* the tokens that fees are paid in: ETH and ZUSD
          Amounts             \* amounts of ZERO that are staked and unstaked

VARIABLES stakes, totalZEROStaked,
          F,          \* F_ETH and F_ZUSD
          snapshots,  \* of each user and token
          zero,       \* ZERO that the contract holds
          held        \* ETH and ZUSD that the contract holds

stakingVars == <<stakes, totalZEROStaked, F, snapshots, zero, held>>

pendingGain(u, t) == (stakes[u] * (F[t] - snapshots[u][t])) \div DECIMAL_PRECISION

updateUserSnapshots(u) == snapshots' = [snapshots EXCEPT ![u] = F]

sendGains(u) == held' = [t \in Tokens |-> held[t] - pendingGain(u, t)]

stake(u, amount) ==
  /\ amount > 0
  /\ updateUserSnapshots(u)
  /\ stakes' = [stakes EXCEPT ![u] = @ + amount]
  /\ totalZEROStaked' = totalZEROStaked + amount
  /\ zero' = zero + amount
  /\ IF stakes[u] # 0 THEN sendGains(u) ELSE UNCHANGED held
  /\ UNCHANGED F

\* With an amount of zero only the gains are sent.
unstake(u, amount) ==
  /\ stakes[u] > 0
  /\ updateUserSnapshots(u)
  /\ LET withdrawn == min(amount, stakes[u])
     IN  /\ stakes' = [stakes EXCEPT ![u] = @ - withdrawn]
         /\ totalZEROStaked' = totalZEROStaked - withdrawn
         /\ zero' = zero - withdrawn
  /\ sendGains(u)
  /\ UNCHANGED F

\* increaseF_ETH, increaseF_ZUSD: the new sum.
increased(t, fee, total) ==
  IF total > 0 THEN F[t] + (fee * DECIMAL_PRECISION) \div total ELSE F[t]

StakingInit ==
  /\ stakes = [u \in Users |-> 0]
  /\ totalZEROStaked = 0
  /\ F = [t \in Tokens |-> 0]
  /\ snapshots = [u \in Users |-> F]
  /\ zero = 0
  /\ held = [t \in Tokens |-> 0]

-----------------------------------------------------------------------------

\* What a staker has gained never shrinks except when it is paid: the steps of
\* other users and of the FeeDistributor leave it alone or add to it.
GainsOnlyGrow ==
  [][\A u \in Users, t \in Tokens :
       snapshots'[u] = snapshots[u] /\ stakes'[u] = stakes[u] =>
         pendingGain(u, t)' >= pendingGain(u, t)]_stakingVars
=============================================================================
