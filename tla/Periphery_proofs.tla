-------------------------- MODULE Periphery_proofs --------------------------
(***************************************************************************)
(* What goes with the troves, for any times, users, tokens, fees, shares,   *)
(* precision, adapters, prices and amounts: that fee operations do not keep *)
(* the base rate from decaying (ClientFees, with BaseRate), that fees are    *)
(* split without a rest and what a staker has gained is not taken away by    *)
(* others (FeeDistributor, as Split), that fetchPrice only returns prices    *)
(* that a working oracle in use had (PriceFeed, as Feed), that the calls in  *)
(* DLLR implement the plain ones: NueTroves, as Nue, refines TrovePurse when *)
(* the account's ZUSD and DLLR are counted together, and that depositors of  *)
(* the Stability Pool do not disturb each other (StabilityPool, as Pool).    *)
(***************************************************************************)
EXTENDS ClientFees, TLAPS
-----------------------------------------------------------------------------
(* Arithmetic *)

\* The whole minutes in a time.
LEMMA WholeMinutes ==
  ASSUME NEW s \in Nat \ {0}, NEW t \in Nat, NEW m, m = t \div s
  PROVE m \in Nat /\ m * s <= t /\ t < (m + 1) * s
<1>1. m \in Nat /\ t % s \in 0..(s - 1) /\ t = s * m + (t % s)
  BY Z3
<1> DEFINE r == t % s
<1>2. r \in Nat /\ r < s /\ t = s * m + r
  BY <1>1
<1> HIDE DEF r
<1> QED
  BY <1>1, <1>2, Z3

\* A rounded quotient of natural numbers is one.
LEMMA QuotientIsNat ==
  ASSUME NEW a \in Nat, NEW b \in Nat, NEW d \in Nat \ {0}
  PROVE (a * b) \div d \in Nat
<1>1. a * b \in Nat
  OBVIOUS
<1> DEFINE p == a * b
<1>2. p \div d \in Nat
  <2> HIDE DEF p
  <2>1. p \in Nat
    BY <1>1, Zenon DEF p
  <2> QED
    BY <2>1
<1> QED
  BY <1>2, Zenon
-----------------------------------------------------------------------------
(* The Stability Pool *)

CONSTANTS Users, NULL, SCALE_FACTOR, DepositAmounts, KickbackRates, Offsets, Issuances, ZEROSupplyCap
VARIABLES deposits, depositSnapshots, frontEnds, frontEndStakes, frontEndSnapshots, sp,
          issuance, collateralized

Pool == INSTANCE StabilityPool WITH pool <- sp, Amounts <- DepositAmounts

\* What OthersUndisturbed rests on: P is positive, the sums of ZERO are amounts,
\* a deposit has a snapshot with a positive P, and its tag is a front end that
\* is registered.
PoolIInv ==
  /\ Pool!Assumptions
  /\ sp = [P |-> sp.P, scale |-> sp.scale, epoch |-> sp.epoch, S |-> sp.S, G |-> sp.G,
           lastETHError |-> sp.lastETHError, lastZUSDLossError |-> sp.lastZUSDLossError,
           lastZEROError |-> sp.lastZEROError,
           totalZUSDDeposits |-> sp.totalZUSDDeposits, ETH |-> sp.ETH]
  /\ sp.P \in Nat \ {0} /\ sp.lastZUSDLossError \in Int /\ sp.lastZEROError \in Nat
  /\ sp.totalZUSDDeposits \in Nat
  /\ \A k \in DOMAIN sp.G : sp.G[k] \in Nat
  /\ deposits \in [Users -> [initialValue : Nat, frontEndTag : Users \cup {NULL}]]
  /\ frontEnds \in [Users -> [registered : BOOLEAN, kickbackRate : Nat]]
  /\ depositSnapshots = [u \in Users |-> depositSnapshots[u]]
  /\ \A u \in Users :
       /\ deposits[u].initialValue > 0 =>
             depositSnapshots[u].P \in Nat \ {0} /\ depositSnapshots[u].G \in Int
       /\ deposits[u].frontEndTag # NULL => frontEnds[deposits[u].frontEndTag].registered

\* The pool q differs from p in what issuing ZERO and moving a deposit change.
Onward(p, q) ==
  /\ q.P = p.P /\ q.scale = p.scale /\ q.epoch = p.epoch /\ q.S = p.S
  /\ \A e, s : Pool!at(q.G, e, s) \in Nat /\ Pool!at(q.G, e, s) >= Pool!at(p.G, e, s)

\* A sum is an amount, and adding to it makes none less.
LEMMA AddingToSums ==
  ASSUME NEW G, \A k \in DOMAIN G : G[k] \in Nat, NEW a, NEW b, NEW m \in Nat,
         NEW H, H = Pool!addedTo(G, a, b, m)
  PROVE /\ \A k \in DOMAIN H : H[k] \in Nat
        /\ \A e, s : /\ Pool!at(G, e, s) \in Nat /\ Pool!at(H, e, s) \in Nat
                     /\ Pool!at(H, e, s) >= Pool!at(G, e, s)
<1>1. \A e, s : Pool!at(G, e, s) \in Nat
  BY Zenon DEF Pool!at
<1> DEFINE k0 == <<a, b>>
           m0 == Pool!at(G, a, b) + m
<1>2. H = [k \in DOMAIN G \cup {k0} |-> IF k = k0 THEN m0 ELSE G[k]]
  BY Zenon DEF Pool!addedTo
<1>3. m0 \in Nat /\ m0 >= Pool!at(G, a, b)
  BY <1>1
<1>4. Pool!at(G, a, b) = IF k0 \in DOMAIN G THEN G[k0] ELSE 0
  BY Zenon DEF Pool!at
<1> HIDE DEF k0, m0
<1>5. \A k \in DOMAIN H : H[k] \in Nat
  BY <1>2, <1>3, Zenon
<1>6. ASSUME NEW e, NEW s
      PROVE  Pool!at(H, e, s) \in Nat /\ Pool!at(H, e, s) >= Pool!at(G, e, s)
  <2> DEFINE k == <<e, s>>
  <2>1. /\ Pool!at(H, e, s) = IF k \in DOMAIN H THEN H[k] ELSE 0
        /\ Pool!at(G, e, s) = IF k \in DOMAIN G THEN G[k] ELSE 0
    BY Zenon DEF Pool!at
  <2>2. Pool!at(G, e, s) \in Nat
    BY <1>1, Zenon
  <2> HIDE DEF k
  <2>3. CASE k = k0
    BY <1>1, <1>2, <1>3, <1>4, <2>1, <2>3, Zenon
  <2>4. CASE k # k0
    BY <1>2, <2>1, <2>2, <2>4
  <2> QED
    BY <2>3, <2>4, Zenon
<1> QED
  BY <1>1, <1>5, <1>6, Zenon

\* Issuing ZERO.
LEMMA IssuingGoesOnward ==
  ASSUME PoolIInv, NEW amount \in Nat, NEW p, p = Pool!updateG(sp, amount)
  PROVE /\ Onward(sp, p)
        /\ p = [sp EXCEPT !.G = p.G, !.lastZEROError = p.lastZEROError]
        /\ p.lastZEROError \in Nat
        /\ \A k \in DOMAIN p.G : p.G[k] \in Nat
<1>1. CASE sp.totalZUSDDeposits = 0 \/ amount = 0
  <2>1. p = sp
    BY <1>1, Zenon DEF Pool!updateG
  <2>2. \A e, s : Pool!at(sp.G, e, s) \in Nat
    BY Zenon DEF PoolIInv, Pool!at
  <2>3. sp = [sp EXCEPT !.G = sp.G, !.lastZEROError = sp.lastZEROError]
    BY Zenon DEF PoolIInv
  <2> QED
    BY <2>1, <2>2, <2>3 DEF Onward, PoolIInv
<1>2. CASE ~(sp.totalZUSDDeposits = 0 \/ amount = 0)
  <2> DEFINE n == amount * DECIMAL_PRECISION + sp.lastZEROError
             t == sp.totalZUSDDeposits
             q == n \div t
             G1 == Pool!addedTo(sp.G, sp.epoch, sp.scale, q * sp.P)
             e1 == n - q * t
  <2>1. p = [sp EXCEPT !.G = G1, !.lastZEROError = e1]
    BY <1>2, Zenon DEF Pool!updateG
  <2>2. n \in Nat /\ t \in Nat \ {0}
    <3>1. amount * DECIMAL_PRECISION \in Nat
      BY LiquityMathAssumption
    <3> QED
      BY <1>2, <3>1 DEF PoolIInv
  <2>3. q \in Nat /\ e1 \in Nat
    <3> HIDE DEF n, t
    <3>1. q \in Nat /\ q * t <= n
      BY <2>2, WholeMinutes, Zenon
    <3> HIDE DEF q
    <3>2. q * t \in Nat
      BY <2>2, <3>1
    <3> QED
      BY <2>2, <3>1, <3>2
  <2>4. q * sp.P \in Nat
    <3> HIDE DEF q
    <3> QED
      BY <2>3 DEF PoolIInv
  <2>5. /\ \A k \in DOMAIN G1 : G1[k] \in Nat
        /\ \A e, s : Pool!at(G1, e, s) \in Nat /\ Pool!at(G1, e, s) >= Pool!at(sp.G, e, s)
    <3>1. \A k \in DOMAIN sp.G : sp.G[k] \in Nat
      BY Zenon DEF PoolIInv
    <3> QED
      BY <2>4, <3>1, AddingToSums, Zenon
  <2> HIDE DEF n, t, q, G1, e1
  <2>6. /\ p.G = G1 /\ p.lastZEROError = e1
        /\ p.P = sp.P /\ p.scale = sp.scale /\ p.epoch = sp.epoch /\ p.S = sp.S
    BY <2>1, Zenon DEF PoolIInv
  <2> QED
    BY <2>1, <2>3, <2>5, <2>6, Zenon DEF Onward
<1> QED
  BY <1>1, <1>2, Zenon

\* What a deposit is worth depends on P, scale and epoch alone.
LEMMA SameWorth ==
  ASSUME NEW i, NEW s, NEW p, NEW q, q.P = p.P, q.scale = p.scale, q.epoch = p.epoch
  PROVE Pool!getCompoundedStakeFromSnapshots(i, s, q) = Pool!getCompoundedStakeFromSnapshots(i, s, p)
BY DEF Pool!getCompoundedStakeFromSnapshots

\* A deposit is worth an amount.
LEMMA WorthIsNat ==
  ASSUME PoolIInv, NEW u \in Users
  PROVE Pool!getCompoundedZUSDDeposit(u) \in Nat
<1> DEFINE i == deposits[u].initialValue
           s == depositSnapshots[u]
           a == (i * sp.P) \div s.P
           b == a \div SCALE_FACTOR
<1>1. i \in Nat /\ sp.P \in Nat /\ SCALE_FACTOR \in Nat \ {0} /\ (i > 0 => s.P \in Nat \ {0})
  BY Zenon DEF PoolIInv, Pool!Assumptions
<1>2. i # 0 => a \in Nat
  <2> SUFFICES ASSUME i # 0 PROVE a \in Nat
    BY Zenon
  <2>1. i > 0 /\ s.P \in Nat \ {0}
    BY <1>1
  <2> HIDE DEF i, s
  <2> QED
    BY <1>1, <2>1, QuotientIsNat, Zenon
<1>3. i # 0 => b \in Nat
  <2> HIDE DEF a
  <2> QED
    BY <1>1, <1>2
<1>4. Pool!getCompoundedZUSDDeposit(u) \in {0, a, b} /\ (i = 0 => Pool!getCompoundedZUSDDeposit(u) = 0)
  BY Zenon DEF Pool!getCompoundedZUSDDeposit, Pool!getCompoundedStakeFromSnapshots
<1> HIDE DEF i, a, b
<1> QED
  BY <1>2, <1>3, <1>4

\* A call that settles a deposit, with a registered tag or none.
LEMMA SettlingKeeps ==
  ASSUME PoolIInv, NEW v \in Users, NEW tag \in Users \cup {NULL},
         tag # NULL => frontEnds[tag].registered,
         NEW in \in Nat, NEW out \in Nat, NEW issued \in Nat,
         out <= Pool!getCompoundedZUSDDeposit(v), Pool!settle(v, tag, in, out, issued)
  PROVE PoolIInv' /\ Onward(sp, sp') /\ frontEnds' = frontEnds
<1> DEFINE p == Pool!updateG(sp, issued)
           d == Pool!getCompoundedZUSDDeposit(v) + in - out
           s == Pool!snapshotOf(p, d)
           g == IF d = 0 THEN NULL ELSE tag
           t1 == p.totalZUSDDeposits + in - out
           e1 == p.ETH - Pool!getDepositorETHGain(v)
<1>1. /\ deposits' = [deposits EXCEPT ![v] = [initialValue |-> d, frontEndTag |-> g]]
      /\ depositSnapshots' = [depositSnapshots EXCEPT ![v] = s]
      /\ sp' = [p EXCEPT !.totalZUSDDeposits = t1, !.ETH = e1]
      /\ frontEnds' = frontEnds /\ out <= sp.totalZUSDDeposits
  BY Zenon DEF Pool!settle
<1>2. /\ Onward(sp, p) /\ p.lastZEROError \in Nat
      /\ p = [sp EXCEPT !.G = p.G, !.lastZEROError = p.lastZEROError]
      /\ \A k \in DOMAIN p.G : p.G[k] \in Nat
  BY IssuingGoesOnward, Zenon
<1>3. d \in Nat
  BY WorthIsNat
<1>4. d # 0 => s.P = p.P /\ s.G = Pool!at(p.G, p.epoch, p.scale)
  BY Zenon DEF Pool!snapshotOf
<1>5. g \in Users \cup {NULL} /\ (g # NULL => frontEnds[g].registered)
  BY Zenon
<1> HIDE DEF p, d, s, g
<1>6. /\ p = [P |-> p.P, scale |-> p.scale, epoch |-> p.epoch, S |-> p.S, G |-> p.G,
              lastETHError |-> p.lastETHError, lastZUSDLossError |-> p.lastZUSDLossError,
              lastZEROError |-> p.lastZEROError,
              totalZUSDDeposits |-> p.totalZUSDDeposits, ETH |-> p.ETH]
      /\ p.P = sp.P /\ p.lastZUSDLossError = sp.lastZUSDLossError
      /\ p.totalZUSDDeposits = sp.totalZUSDDeposits
  <2> DEFINE G1 == p.G
             z == p.lastZEROError
  <2>1. p = [sp EXCEPT !.G = G1, !.lastZEROError = z]
    BY <1>2, Zenon
  <2> HIDE DEF G1, z
  <2> QED
    BY <2>1, Zenon DEF PoolIInv
<1>7. t1 \in Nat
  BY <1>1, <1>6 DEF PoolIInv
<1> HIDE DEF t1, e1
<1>8. /\ sp' = [P |-> p.P, scale |-> p.scale, epoch |-> p.epoch, S |-> p.S, G |-> p.G,
                lastETHError |-> p.lastETHError, lastZUSDLossError |-> p.lastZUSDLossError,
                lastZEROError |-> p.lastZEROError, totalZUSDDeposits |-> t1, ETH |-> e1]
  BY <1>1, <1>6, Zenon
<1>9. Onward(sp, sp')
  BY <1>2, <1>8, Zenon DEF Onward
<1>10. /\ sp'.P \in Nat \ {0} /\ sp'.lastZUSDLossError \in Int /\ sp'.lastZEROError \in Nat
       /\ sp'.totalZUSDDeposits \in Nat /\ \A k \in DOMAIN sp'.G : sp'.G[k] \in Nat
  BY <1>2, <1>6, <1>7, <1>8, Zenon DEF PoolIInv
<1>11. sp' = [P |-> sp'.P, scale |-> sp'.scale, epoch |-> sp'.epoch, S |-> sp'.S, G |-> sp'.G,
              lastETHError |-> sp'.lastETHError, lastZUSDLossError |-> sp'.lastZUSDLossError,
              lastZEROError |-> sp'.lastZEROError,
              totalZUSDDeposits |-> sp'.totalZUSDDeposits, ETH |-> sp'.ETH]
  BY <1>8, Zenon
<1>12. d > 0 => s.P \in Nat \ {0} /\ s.G \in Int
  <2>1. Pool!at(p.G, p.epoch, p.scale) \in Nat
    BY <1>2, Zenon DEF Onward
  <2> QED
    BY <1>3, <1>4, <1>6, <2>1 DEF PoolIInv
<1>13. /\ deposits' \in [Users -> [initialValue : Nat, frontEndTag : Users \cup {NULL}]]
       /\ depositSnapshots' = [u \in Users |-> depositSnapshots'[u]]
  BY <1>1, <1>3, <1>5, Zenon DEF PoolIInv
<1>14. ASSUME NEW u \in Users
       PROVE  /\ deposits'[u].initialValue > 0 =>
                    depositSnapshots'[u].P \in Nat \ {0} /\ depositSnapshots'[u].G \in Int
              /\ deposits'[u].frontEndTag # NULL => frontEnds[deposits'[u].frontEndTag].registered
  <2>1. CASE u = v
    <3>1. deposits'[u].initialValue = d /\ deposits'[u].frontEndTag = g /\ depositSnapshots'[u] = s
      BY <1>1, <2>1, Zenon DEF PoolIInv
    <3> QED
      BY <1>5, <1>12, <3>1, Zenon
  <2>2. CASE u # v
    <3>1. deposits'[u] = deposits[u] /\ depositSnapshots'[u] = depositSnapshots[u]
      BY <1>1, <2>2, Zenon DEF PoolIInv
    <3> QED
      BY <3>1, Zenon DEF PoolIInv
  <2> QED
    BY <2>1, <2>2, Zenon
<1>15. PoolIInv'
  BY <1>1, <1>10, <1>11, <1>13, <1>14, Zenon DEF PoolIInv
<1> QED
  BY <1>1, <1>9, <1>15, Zenon

\* A liquidation.
LEMMA OffsetKeeps ==
  ASSUME PoolIInv, NEW o \in Offsets, NEW issued \in Issuances, Pool!offset(o, issued)
  PROVE PoolIInv'
<1>0. /\ o.debt \in Nat /\ o.coll \in Nat /\ issued \in Nat
      /\ SCALE_FACTOR \in Nat \ {0} /\ DECIMAL_PRECISION \in Nat \ {0}
  BY LiquityMathAssumption, Zenon DEF PoolIInv, Pool!Assumptions
<1> DEFINE p == Pool!updateG(sp, issued)
           loss == Pool!lossPerUnitStaked(p, o.debt)
           q == Pool!product(p, DECIMAL_PRECISION - loss.perUnitStaked)
           n == o.coll * DECIMAL_PRECISION + p.lastETHError
           gain == n \div p.totalZUSDDeposits
           S1 == Pool!addedTo(p.S, p.epoch, p.scale, gain * p.P)
           e1 == n - gain * p.totalZUSDDeposits
           t1 == p.totalZUSDDeposits - o.debt
           c1 == p.ETH + o.coll
<1>1. /\ sp' = [p EXCEPT !.P = q.P, !.scale = q.scale, !.epoch = q.epoch, !.S = S1,
                         !.lastETHError = e1, !.lastZUSDLossError = loss.error,
                         !.totalZUSDDeposits = t1, !.ETH = c1]
      /\ sp'.P > 0
      /\ 0 < o.debt /\ o.debt <= sp.totalZUSDDeposits
      /\ UNCHANGED <<deposits, depositSnapshots, frontEnds>>
  BY Zenon DEF Pool!offset, Pool!mayOffset, Pool!updateRewardSumAndProduct
<1>2. /\ p.lastZEROError \in Nat
      /\ p = [sp EXCEPT !.G = p.G, !.lastZEROError = p.lastZEROError]
      /\ \A k \in DOMAIN p.G : p.G[k] \in Nat
  BY <1>0, IssuingGoesOnward, Zenon
<1> HIDE DEF p, S1, e1, t1, c1
<1>3. /\ p = [P |-> p.P, scale |-> p.scale, epoch |-> p.epoch, S |-> p.S, G |-> p.G,
              lastETHError |-> p.lastETHError, lastZUSDLossError |-> p.lastZUSDLossError,
              lastZEROError |-> p.lastZEROError,
              totalZUSDDeposits |-> p.totalZUSDDeposits, ETH |-> p.ETH]
      /\ p.P = sp.P /\ p.lastZUSDLossError = sp.lastZUSDLossError
      /\ p.totalZUSDDeposits = sp.totalZUSDDeposits
  <2> DEFINE G1 == p.G
             z == p.lastZEROError
  <2>1. p = [sp EXCEPT !.G = G1, !.lastZEROError = z]
    BY <1>2, Zenon
  <2> HIDE DEF G1, z
  <2> QED
    BY <2>1, Zenon DEF PoolIInv
<1>4. /\ p.P \in Nat /\ p.lastZUSDLossError \in Int
      /\ p.totalZUSDDeposits \in Nat \ {0} /\ o.debt <= p.totalZUSDDeposits
  BY <1>0, <1>1, <1>3 DEF PoolIInv
<1>5. loss.perUnitStaked \in Int /\ loss.error \in Int
  <2> DEFINE a == o.debt * DECIMAL_PRECISION - p.lastZUSDLossError
             b == a \div p.totalZUSDDeposits + 1
  <2>1. a \in Int
    BY <1>0, <1>4
  <2>2. loss = IF o.debt = p.totalZUSDDeposits THEN [perUnitStaked |-> DECIMAL_PRECISION, error |-> 0]
               ELSE [perUnitStaked |-> b, error |-> b * p.totalZUSDDeposits - a]
    BY Zenon DEF Pool!lossPerUnitStaked
  <2> HIDE DEF a, loss
  <2>3. b \in Int
    BY <1>4, <2>1
  <2> HIDE DEF b
  <2>4. b * p.totalZUSDDeposits - a \in Int
    BY <1>4, <2>1, <2>3
  <2> QED
    BY <1>0, <2>2, <2>3, <2>4
<1>6. q.P \in Int
  <2> DEFINE f == DECIMAL_PRECISION - loss.perUnitStaked
             a == (p.P * f) \div DECIMAL_PRECISION
             b == (p.P * f * SCALE_FACTOR) \div DECIMAL_PRECISION
  <2>1. f \in Int
    BY <1>0, <1>5
  <2>2. q.P \in {DECIMAL_PRECISION, a, b}
    BY Zenon DEF Pool!product
  <2> HIDE DEF f
  <2>3. p.P * f \in Int /\ p.P * f * SCALE_FACTOR \in Int
    BY <1>0, <1>4, <2>1
  <2>4. \A x \in Int : x \div DECIMAL_PRECISION \in Int
    BY <1>0
  <2>5. a \in Int /\ b \in Int
    BY <2>3, <2>4, Zenon
  <2> QED
    BY <1>0, <2>2, <2>5
<1>7. t1 \in Nat
  BY <1>0, <1>4 DEF t1
<1> HIDE DEF loss, q
<1> DEFINE P1 == q.P
           l1 == loss.error
           i1 == q.scale
           h1 == q.epoch
<1>8. sp' = [p EXCEPT !.P = P1, !.scale = i1, !.epoch = h1, !.S = S1,
                      !.lastETHError = e1, !.lastZUSDLossError = l1,
                      !.totalZUSDDeposits = t1, !.ETH = c1]
      /\ P1 \in Int /\ l1 \in Int
  BY <1>1, <1>5, <1>6, Zenon
<1> HIDE DEF P1, l1, i1, h1
<1>9. sp' = [P |-> P1, scale |-> i1, epoch |-> h1, S |-> S1, G |-> p.G,
             lastETHError |-> e1, lastZUSDLossError |-> l1,
             lastZEROError |-> p.lastZEROError, totalZUSDDeposits |-> t1, ETH |-> c1]
  BY <1>3, <1>8, Zenon
<1>10. /\ sp'.P \in Nat \ {0} /\ sp'.lastZUSDLossError \in Int /\ sp'.lastZEROError \in Nat
       /\ sp'.totalZUSDDeposits \in Nat /\ \A k \in DOMAIN sp'.G : sp'.G[k] \in Nat
  <2>1. /\ sp'.P = P1 /\ sp'.lastZUSDLossError = l1 /\ sp'.lastZEROError = p.lastZEROError
        /\ sp'.totalZUSDDeposits = t1 /\ sp'.G = p.G
    BY ONLY <1>9, Zenon
  <2>2. P1 \in Nat \ {0}
    BY <1>1, <1>8, <2>1
  <2> QED
    BY ONLY <1>2, <1>7, <1>8, <2>1, <2>2, Zenon
<1>11. sp' = [P |-> sp'.P, scale |-> sp'.scale, epoch |-> sp'.epoch, S |-> sp'.S, G |-> sp'.G,
              lastETHError |-> sp'.lastETHError, lastZUSDLossError |-> sp'.lastZUSDLossError,
              lastZEROError |-> sp'.lastZEROError,
              totalZUSDDeposits |-> sp'.totalZUSDDeposits, ETH |-> sp'.ETH]
  BY <1>9, Zenon
<1> QED
  BY <1>1, <1>10, <1>11, Zenon DEF PoolIInv

\* Every step keeps the invariant; a step of a user, moreover, only adds to the
\* sums of ZERO, and leaves a front end that is registered as it is.
LEMMA NextPoolIInv ==
  ASSUME PoolIInv, [Pool!Next]_(Pool!vars)
  PROVE /\ PoolIInv'
        /\ Pool!Deposit \/ Pool!Withdraw \/ Pool!Register =>
              /\ Onward(sp, sp')
              /\ \A f \in Users : frontEnds[f].registered => frontEnds'[f] = frontEnds[f]
<1> DEFINE Kept == /\ Onward(sp, sp')
                   /\ \A f \in Users : frontEnds[f].registered => frontEnds'[f] = frontEnds[f]
<1>0. /\ DepositAmounts \subseteq Nat /\ Issuances \subseteq Nat /\ KickbackRates \subseteq Nat
      /\ NULL \notin Users
  BY Zenon DEF PoolIInv, Pool!Assumptions
<1>1. ASSUME NEW u \in Users, NEW amount \in DepositAmounts, NEW tag \in Users \cup {NULL},
             NEW issued \in Issuances, Pool!provideToSP(u, amount, tag, issued)
      PROVE  PoolIInv' /\ Kept
  <2> DEFINE g == IF deposits[u].initialValue = 0 THEN tag ELSE deposits[u].frontEndTag
  <2>1. Pool!settle(u, g, amount, 0, issued)
    BY <1>1, Zenon DEF Pool!provideToSP
  <2>2. g \in Users \cup {NULL} /\ (g # NULL => frontEnds[g].registered)
    BY <1>1, Zenon DEF Pool!provideToSP, PoolIInv
  <2>3. 0 <= Pool!getCompoundedZUSDDeposit(u) /\ amount \in Nat /\ issued \in Nat /\ 0 \in Nat
    BY <1>0, WorthIsNat
  <2> HIDE DEF g
  <2>4. PoolIInv' /\ Onward(sp, sp') /\ frontEnds' = frontEnds
    BY ONLY <2>1, <2>2, <2>3, PoolIInv, SettlingKeeps, u \in Users, Zenon
  <2> QED
    BY <2>4, Zenon
<1>2. ASSUME NEW u \in Users, NEW out \in Nat, NEW issued \in Issuances,
             out <= Pool!getCompoundedZUSDDeposit(u),
             Pool!settle(u, deposits[u].frontEndTag, 0, out, issued)
      PROVE  PoolIInv' /\ Kept
  <2>1. /\ deposits[u].frontEndTag \in Users \cup {NULL}
        /\ deposits[u].frontEndTag # NULL => frontEnds[deposits[u].frontEndTag].registered
        /\ issued \in Nat /\ 0 \in Nat
    BY <1>0, Zenon DEF PoolIInv
  <2>2. PoolIInv' /\ Onward(sp, sp') /\ frontEnds' = frontEnds
    BY ONLY <1>2, <2>1, PoolIInv, SettlingKeeps, u \in Users, out \in Nat, Zenon
  <2> QED
    BY <2>2, Zenon
<1>3. CASE Pool!Deposit
  BY <1>1, <1>3, Zenon DEF Pool!Deposit, Pool!provideToSpFromDLLR
<1>4. CASE Pool!Withdraw
  <2>1. PICK u \in Users, issued \in Issuances :
           \/ \E amount \in DepositAmounts \cup {0} : Pool!withdrawFromSP(u, amount, issued)
           \/ Pool!withdrawETHGainToTrove(u, issued)
    BY <1>4, Zenon DEF Pool!Withdraw
  <2>2. Pool!getCompoundedZUSDDeposit(u) \in Nat
    BY WorthIsNat, Zenon
  <2>3. ASSUME NEW amount \in DepositAmounts \cup {0}, Pool!withdrawFromSP(u, amount, issued)
        PROVE  PoolIInv' /\ Kept
    <3> DEFINE out == Pool!min(amount, Pool!getCompoundedZUSDDeposit(u))
    <3>1. out \in Nat /\ out <= Pool!getCompoundedZUSDDeposit(u)
      BY <1>0, <2>2 DEF Pool!min
    <3>2. Pool!settle(u, deposits[u].frontEndTag, 0, out, issued)
      BY <2>3, Zenon DEF Pool!withdrawFromSP
    <3> HIDE DEF out
    <3> QED
      BY <1>2, <3>1, <3>2, Zenon
  <2>4. ASSUME Pool!withdrawETHGainToTrove(u, issued)
        PROVE  PoolIInv' /\ Kept
    <3>1. Pool!settle(u, deposits[u].frontEndTag, 0, 0, issued) /\ 0 \in Nat
          /\ 0 <= Pool!getCompoundedZUSDDeposit(u)
      BY <2>2, <2>4 DEF Pool!withdrawETHGainToTrove
    <3> QED
      BY <1>2, <3>1, Zenon
  <2> QED
    BY <2>1, <2>3, <2>4, Zenon
<1>5. ASSUME \A e, s : Pool!at(sp.G, e, s) \in Nat, sp' = sp
      PROVE  Onward(sp, sp')
  BY <1>5 DEF Onward
<1>6. \A e, s : Pool!at(sp.G, e, s) \in Nat
  BY Zenon DEF PoolIInv, Pool!at
<1>7. CASE Pool!Register
  <2>1. PICK u \in Users, rate \in KickbackRates : Pool!registerFrontEnd(u, rate)
    BY <1>7, Zenon DEF Pool!Register
  <2>2. /\ ~frontEnds[u].registered
        /\ frontEnds' = [frontEnds EXCEPT ![u] = [registered |-> TRUE, kickbackRate |-> rate]]
        /\ UNCHANGED <<deposits, depositSnapshots, sp>>
    BY <2>1, Zenon DEF Pool!registerFrontEnd
  <2>3. frontEnds' \in [Users -> [registered : BOOLEAN, kickbackRate : Nat]]
    BY <1>0, <2>2, Zenon DEF PoolIInv
  <2>4. \A f \in Users : frontEnds[f].registered => frontEnds'[f] = frontEnds[f]
    BY <2>2, Zenon DEF PoolIInv
  <2>5. PoolIInv'
    BY <1>0, <2>2, <2>3, <2>4 DEF PoolIInv
  <2> QED
    BY <1>5, <1>6, <2>2, <2>4, <2>5, Zenon
<1>8. CASE Pool!Liquidation
  <2>1. PoolIInv'
    BY <1>8, OffsetKeeps, Zenon DEF Pool!Liquidation
  <2>2. ~(Pool!Deposit \/ Pool!Withdraw \/ Pool!Register) \/ Kept
    BY <1>3, <1>4, <1>7, Zenon
  <2> QED
    BY <2>1, <2>2, Zenon
<1>9. CASE Pool!trovesChange \/ UNCHANGED Pool!vars
  <2>1. UNCHANGED <<deposits, depositSnapshots, frontEnds, sp>>
    BY <1>9, Zenon DEF Pool!trovesChange, Pool!vars
  <2>2. PoolIInv'
    BY <2>1, Zenon DEF PoolIInv
  <2> QED
    BY <1>5, <1>6, <2>1, <2>2, Zenon
<1> QED
  BY <1>3, <1>4, <1>7, <1>8, <1>9, Zenon DEF Pool!Next

\* Rounding down keeps the order of integers.
LEMMA QuotientOfIntegers ==
  ASSUME NEW a \in Int, NEW b \in Int, a <= b, NEW c \in Nat, NEW d \in Nat \ {0}
  PROVE /\ (c * a) \div d \in Int /\ (c * b) \div d \in Int
        /\ (c * a) \div d <= (c * b) \div d
<1> DEFINE x == c * a
           y == c * b
<1>1. x \in Int /\ y \in Int /\ x <= y
  OBVIOUS
<1> HIDE DEF x, y
<1>2. x \div d \in Int /\ y \div d \in Int /\ x \div d <= y \div d
  BY <1>1
<1> QED
  BY <1>2, Zenon DEF x, y

\* Larger sums of ZERO make no gain less.
LEMMA GainsGrow ==
  ASSUME PoolIInv, NEW i \in Nat, NEW snap, i > 0 => snap.P \in Nat \ {0} /\ snap.G \in Int,
         NEW G, NEW H,
         \A e, s : /\ Pool!at(G, e, s) \in Nat /\ Pool!at(H, e, s) \in Nat
                   /\ Pool!at(H, e, s) >= Pool!at(G, e, s),
         NEW k \in Nat,
         NEW v, v = Pool!gainFromSnapshots(i, snap, G, snap.G),
         NEW w, w = Pool!gainFromSnapshots(i, snap, H, snap.G)
  PROVE (k * w) \div DECIMAL_PRECISION >= (k * v) \div DECIMAL_PRECISION
<1>0. DECIMAL_PRECISION \in Nat \ {0} /\ SCALE_FACTOR \in Nat \ {0}
  BY LiquityMathAssumption, Zenon DEF PoolIInv, Pool!Assumptions
<1>1. CASE i = 0
  <2>1. v = 0 /\ w = 0
    BY <1>1, Zenon DEF Pool!gainFromSnapshots
  <2> QED
    BY <1>0, <2>1, QuotientOfIntegers
<1>2. CASE i # 0
  <2> DEFINE x == Pool!at(G, snap.epoch, snap.scale)
             y == Pool!at(H, snap.epoch, snap.scale)
             x1 == Pool!at(G, snap.epoch, snap.scale + 1)
             y1 == Pool!at(H, snap.epoch, snap.scale + 1)
             a == (x - snap.G) + x1 \div SCALE_FACTOR
             b == (y - snap.G) + y1 \div SCALE_FACTOR
             r == snap.P
  <2>1. /\ v = ((i * a) \div r) \div DECIMAL_PRECISION
        /\ w = ((i * b) \div r) \div DECIMAL_PRECISION
    BY <1>2, Zenon DEF Pool!gainFromSnapshots
  <2>2. x \in Nat /\ y \in Nat /\ x1 \in Nat /\ y1 \in Nat /\ x <= y /\ x1 <= y1
    BY Zenon
  <2>3. r \in Nat \ {0} /\ snap.G \in Int
    BY <1>2
  <2> HIDE DEF x, y, x1, y1, r
  <2>4. x1 \div SCALE_FACTOR \in Int /\ y1 \div SCALE_FACTOR \in Int
        /\ x1 \div SCALE_FACTOR <= y1 \div SCALE_FACTOR
    BY <1>0, <2>2
  <2>5. a \in Int /\ b \in Int /\ a <= b
    BY <2>2, <2>3, <2>4
  <2> HIDE DEF a, b
  <2> DEFINE f == (i * a) \div r
             g == (i * b) \div r
  <2>6. f \in Int /\ g \in Int /\ f <= g
    BY <2>3, <2>5, QuotientOfIntegers, Zenon
  <2>7. v = f \div DECIMAL_PRECISION /\ w = g \div DECIMAL_PRECISION
    BY <2>1, Zenon
  <2> HIDE DEF f, g
  <2>8. v \in Int /\ w \in Int /\ v <= w
    BY <1>0, <2>6, <2>7
  <2>9. /\ (k * v) \div DECIMAL_PRECISION \in Int /\ (k * w) \div DECIMAL_PRECISION \in Int
        /\ (k * v) \div DECIMAL_PRECISION <= (k * w) \div DECIMAL_PRECISION
    BY <1>0, <2>8, QuotientOfIntegers, Zenon
  <2> QED
    BY <2>9, Zenon
<1> QED
  BY <1>1, <1>2, Zenon

\* A call by one user leaves the deposits of all others, and their gains of
\* collateral, exactly as they were, and takes no ZERO from them: P, S, scale and
\* epoch stay, and G only grows, for any users, amounts and precision.
THEOREM OthersStayUndisturbed ==
  ASSUME Pool!Assumptions
  PROVE Pool!Spec => Pool!OthersUndisturbed
<1> DEFINE Same ==
      Pool!Deposit \/ Pool!Withdraw \/ Pool!Register =>
        \A u \in Users :
            deposits'[u] = deposits[u] /\ depositSnapshots'[u] = depositSnapshots[u] =>
            /\ Pool!getCompoundedZUSDDeposit(u)' = Pool!getCompoundedZUSDDeposit(u)
            /\ Pool!getDepositorETHGain(u)' = Pool!getDepositorETHGain(u)
            /\ Pool!getDepositorZEROGain(u, deposits[u].frontEndTag, sp)'
                 >= Pool!getDepositorZEROGain(u, deposits[u].frontEndTag, sp)
<1>1. Pool!Init => PoolIInv
  <2> SUFFICES ASSUME Pool!Init PROVE PoolIInv
    BY Zenon
  <2>1. sp = [P |-> DECIMAL_PRECISION, scale |-> 0, epoch |-> 0, S |-> << >>, G |-> << >>,
              lastETHError |-> 0, lastZUSDLossError |-> 0, lastZEROError |-> 0,
              totalZUSDDeposits |-> 0, ETH |-> 0]
    BY Zenon DEF Pool!Init
  <2>2. DOMAIN sp.G = {}
    BY <2>1
  <2>3. /\ sp.P \in Nat \ {0} /\ sp.lastZUSDLossError \in Int /\ sp.lastZEROError \in Nat
        /\ sp.totalZUSDDeposits \in Nat /\ \A k \in DOMAIN sp.G : sp.G[k] \in Nat
    BY <2>1, <2>2, LiquityMathAssumption
  <2>4. sp = [P |-> sp.P, scale |-> sp.scale, epoch |-> sp.epoch, S |-> sp.S, G |-> sp.G,
              lastETHError |-> sp.lastETHError, lastZUSDLossError |-> sp.lastZUSDLossError,
              lastZEROError |-> sp.lastZEROError,
              totalZUSDDeposits |-> sp.totalZUSDDeposits, ETH |-> sp.ETH]
    BY <2>1, Zenon
  <2>5. /\ deposits = [u \in Users |-> [initialValue |-> 0, frontEndTag |-> NULL]]
        /\ depositSnapshots = [u \in Users |-> Pool!NoSnapshot]
        /\ frontEnds = [u \in Users |-> [registered |-> FALSE, kickbackRate |-> 0]]
    BY Zenon DEF Pool!Init, Pool!NoDeposit
  <2> QED
    BY <2>3, <2>4, <2>5 DEF PoolIInv
<1>2. PoolIInv /\ [Pool!Next]_(Pool!vars) => PoolIInv'
  BY NextPoolIInv, Zenon
<1>3. PoolIInv /\ [Pool!Next]_(Pool!vars) => [Same]_(Pool!vars)
  <2> SUFFICES ASSUME PoolIInv, [Pool!Next]_(Pool!vars),
                      Pool!Deposit \/ Pool!Withdraw \/ Pool!Register, NEW u \in Users,
                      deposits'[u] = deposits[u], depositSnapshots'[u] = depositSnapshots[u]
               PROVE /\ Pool!getCompoundedZUSDDeposit(u)' = Pool!getCompoundedZUSDDeposit(u)
                     /\ Pool!getDepositorETHGain(u)' = Pool!getDepositorETHGain(u)
                     /\ Pool!getDepositorZEROGain(u, deposits[u].frontEndTag, sp)'
                          >= Pool!getDepositorZEROGain(u, deposits[u].frontEndTag, sp)
    BY Zenon DEF Same
  <2>1. PoolIInv' /\ Onward(sp, sp')
        /\ \A f \in Users : frontEnds[f].registered => frontEnds'[f] = frontEnds[f]
    BY NextPoolIInv, Zenon
  <2>2. Pool!getCompoundedZUSDDeposit(u)' = Pool!getCompoundedZUSDDeposit(u)
    <3>1. sp'.P = sp.P /\ sp'.scale = sp.scale /\ sp'.epoch = sp.epoch
      BY <2>1, Zenon DEF Onward
    <3> QED
      BY <3>1, SameWorth DEF Pool!getCompoundedZUSDDeposit
  <2>3. Pool!getDepositorETHGain(u)' = Pool!getDepositorETHGain(u)
    <3>1. sp'.S = sp.S
      BY <2>1, Zenon DEF Onward
    <3> QED
      BY <3>1, Zenon DEF Pool!getDepositorETHGain
  <2>4. Pool!getDepositorZEROGain(u, deposits[u].frontEndTag, sp)'
          >= Pool!getDepositorZEROGain(u, deposits[u].frontEndTag, sp)
    <3> DEFINE i == deposits[u].initialValue
               snap == depositSnapshots[u]
               tag == deposits[u].frontEndTag
               k == IF tag = NULL THEN DECIMAL_PRECISION ELSE frontEnds[tag].kickbackRate
               v == Pool!gainFromSnapshots(i, snap, sp.G, snap.G)
               w == Pool!gainFromSnapshots(i, snap, sp'.G, snap.G)
    <3>1. /\ tag \in Users \cup {NULL} /\ i \in Nat
          /\ i > 0 => snap.P \in Nat \ {0} /\ snap.G \in Int
          /\ tag # NULL => frontEnds[tag].registered
      BY Zenon DEF PoolIInv
    <3>2. k \in Nat
      BY <3>1, LiquityMathAssumption, Zenon DEF PoolIInv
    <3>3. tag # NULL => frontEnds'[tag] = frontEnds[tag]
      BY <2>1, <3>1, Zenon
    <3>4. Pool!getDepositorZEROGain(u, deposits[u].frontEndTag, sp)
            = (k * v) \div DECIMAL_PRECISION
      BY Zenon DEF Pool!getDepositorZEROGain
    <3>5. Pool!getDepositorZEROGain(u, deposits[u].frontEndTag, sp)'
            = (k * w) \div DECIMAL_PRECISION
      BY <3>3, Zenon DEF Pool!getDepositorZEROGain
    <3>6. \A e, s : /\ Pool!at(sp.G, e, s) \in Nat /\ Pool!at(sp'.G, e, s) \in Nat
                    /\ Pool!at(sp'.G, e, s) >= Pool!at(sp.G, e, s)
      BY <2>1, Zenon DEF Onward, PoolIInv, Pool!at
    <3> DEFINE G == sp.G
               H == sp'.G
    <3>7. v = Pool!gainFromSnapshots(i, snap, G, snap.G)
          /\ w = Pool!gainFromSnapshots(i, snap, H, snap.G)
      BY Zenon
    <3>8. \A e, s : /\ Pool!at(G, e, s) \in Nat /\ Pool!at(H, e, s) \in Nat
                    /\ Pool!at(H, e, s) >= Pool!at(G, e, s)
      BY <3>6, Zenon
    <3> HIDE DEF i, snap, tag, k, v, w, G, H
    <3>9. (k * w) \div DECIMAL_PRECISION >= (k * v) \div DECIMAL_PRECISION
      BY <3>1, <3>2, <3>7, <3>8, GainsGrow, Zenon
    <3> QED
      BY <3>4, <3>5, <3>9, Zenon
  <2> QED
    BY <2>2, <2>3, <2>4, Zenon
<1> HIDE DEF Same
<1>4. Pool!Spec => [][Same]_(Pool!vars)
  BY <1>1, <1>2, <1>3, PTL DEF Pool!Spec
<1> QED
  BY <1>4, Zenon DEF Pool!OthersUndisturbed, Same
-----------------------------------------------------------------------------
(* The base rate *)

\* The strengthening of DecayNotPostponed that is inductive: the clocks do not
\* run ahead, and each minute that the base rate was decayed for stands for at
\* most two that passed until the last fee operation.
RateInv ==
  /\ now \in Nat /\ lastFeeOperationTime \in Nat
  /\ decay = [since |-> decay.since, minutes |-> decay.minutes]
  /\ decay.since \in Nat /\ decay.minutes \in Nat
  /\ lastFeeOperationTime <= now /\ decay.since <= now
  /\ lastFeeOperationTime - decay.since <= (2 * decay.minutes) * SECONDS_IN_ONE_MINUTE

\* A borrowing after m minutes or in the same minute.
LEMMA BorrowingKeeps ==
  ASSUME RateInv,
         decay' = [decay EXCEPT !.minutes = decay.minutes + minutesPassedSinceLastFeeOp],
         updateLastFeeOpTime, UNCHANGED now
  PROVE RateInv'
<1> DEFINE S == SECONDS_IN_ONE_MINUTE
           L == lastFeeOperationTime
           m == minutesPassedSinceLastFeeOp
           d == decay.minutes
           z == decay.since
<1>1. /\ S \in Nat \ {0} /\ now \in Nat /\ L \in Nat /\ d \in Nat /\ z \in Nat
      /\ L <= now /\ z <= now /\ L - z <= (2 * d) * S
  BY BaseRateAssumption, Zenon DEF RateInv
<1>2. now - L \in Nat /\ m = (now - L) \div S
  BY <1>1 DEF minutesPassedSinceLastFeeOp
<1>3. lastFeeOperationTime' = IF now - L >= S THEN now ELSE L
  BY Zenon DEF updateLastFeeOpTime
<1>4. decay' = [since |-> z, minutes |-> d + m]
  BY Zenon DEF RateInv
<1> HIDE DEF S, L, m, d, z
<1>5. m \in Nat /\ m * S <= now - L /\ now - L < (m + 1) * S
  BY <1>1, <1>2, WholeMinutes, Zenon
<1>6. lastFeeOperationTime' - z <= (2 * (d + m)) * S
  <2>1. m * S \in Nat /\ d * S \in Nat
    BY <1>1, <1>5
  <2> DEFINE p == m * S
             q == d * S
  <2>2. /\ (2 * d) * S = 2 * q /\ (2 * (d + m)) * S = 2 * q + 2 * p
        /\ (m + 1) * S = p + S
    BY <1>1, <1>5, Z3
  <2>3. p \in Nat /\ q \in Nat
    BY <2>1, Zenon
  <2>4. m >= 1 => p >= S
    BY <1>1, <1>5, Z3
  <2>5. m = 0 => p = 0
    BY <1>1
  <2> HIDE DEF p, q
  <2>6. CASE now - L >= S
    <3>1. m >= 1
      BY <1>1, <1>5, <2>2, <2>3, <2>5, <2>6
    <3> QED
      BY <1>1, <1>3, <1>5, <2>2, <2>3, <2>4, <2>6, <3>1
  <2>7. CASE ~(now - L >= S)
    BY <1>1, <1>3, <2>2, <2>3, <2>7
  <2> QED
    BY <2>6, <2>7, Zenon
<1>7. /\ lastFeeOperationTime' \in Nat /\ lastFeeOperationTime' <= now
      /\ d + m \in Nat
  BY <1>1, <1>3, <1>5
<1>8. decay'.since = z /\ decay'.minutes = d + m
  BY <1>4
<1> QED
  BY <1>1, <1>4, <1>6, <1>7, <1>8, Zenon DEF RateInv, S

\* A redemption starts the time anew.
LEMMA RedemptionKeeps ==
  ASSUME RateInv, decay' = [since |-> now, minutes |-> 0], updateLastFeeOpTime, UNCHANGED now
  PROVE RateInv'
<1>1. lastFeeOperationTime' \in Nat /\ lastFeeOperationTime' <= now
  BY BaseRateAssumption DEF RateInv, updateLastFeeOpTime
<1>2. decay'.since = now /\ decay'.minutes = 0 /\ (2 * 0) * SECONDS_IN_ONE_MINUTE = 0
  BY BaseRateAssumption
<1> QED
  BY <1>1, <1>2 DEF RateInv

\* A step that leaves the base rate and its times alone.
LEMMA RateUnchanged == RateInv /\ UNCHANGED rateVars => RateInv'
BY Zenon DEF RateInv, rateVars

\* Every step of the client and of the others keeps the strengthening.
LEMMA NextRateInv == RateInv /\ [Next]_vars => RateInv'
<1> SUFFICES ASSUME RateInv, [Next]_vars PROVE RateInv'
  BY Zenon
<1>1. ASSUME NEW amount, NEW maxFee, triggerBorrowingFee(amount, maxFee) PROVE RateInv'
  BY <1>1, BorrowingKeeps, Zenon DEF triggerBorrowingFee, decayBaseRateFromBorrowing
<1>2. ASSUME NEW fraction, NEW drawn, NEW maxFee, redeem(fraction, drawn, maxFee) PROVE RateInv'
  BY <1>2, RedemptionKeeps, Zenon DEF redeem
<1>3. ASSUME NEW seconds \in BlockTimes, block(seconds) PROVE RateInv'
  <2>1. seconds \in Nat /\ now' = now + seconds /\ UNCHANGED <<lastFeeOperationTime, decay>>
    BY <1>3, BaseRateAssumption, Zenon DEF block, tick
  <2> QED
    BY <2>1 DEF RateInv
<1>4. CASE mined
  BY <1>1, <1>2, <1>4, RateUnchanged, Zenon DEF mined
<1>5. ASSUME NEW amount \in Amounts, othersBorrow(amount) PROVE RateInv'
  BY <1>1, <1>5, Zenon DEF othersBorrow
<1>6. ASSUME NEW fraction \in Fractions, othersRedeem(fraction) PROVE RateInv'
  BY <1>2, <1>6, Zenon DEF othersRedeem
<1>7. ASSUME NEW field \in DOMAIN quote, read(field) PROVE RateInv'
  BY <1>7, RateUnchanged, Zenon DEF read
<1>8. ASSUME NEW amount \in Amounts, populateBorrowing(amount) \/ populateWithdrawal(amount)
      PROVE RateInv'
  BY <1>8, RateUnchanged, Zenon DEF populateBorrowing, populateWithdrawal, populate
<1>9. ASSUME NEW attempted \in Fractions, NEW truncated \in Fractions,
             populateRedemption(attempted, truncated)
      PROVE RateInv'
  BY <1>9, RateUnchanged, Zenon DEF populateRedemption, populate
<1>10. CASE increaseAmountByMinimumNetDebt
  BY <1>10, RateUnchanged, Zenon DEF increaseAmountByMinimumNetDebt
<1>11. CASE toggleRecoveryMode
  BY <1>11, RateUnchanged, Zenon DEF toggleRecoveryMode
<1>12. CASE UNCHANGED vars
  BY <1>12, RateUnchanged, Zenon DEF vars
<1> QED
  BY <1>3, <1>4, <1>5, <1>6, <1>7, <1>8, <1>9, <1>10, <1>11, <1>12, Zenon DEF Next

\* The strengthening bounds the time that was dropped.
LEMMA RateInvBounds == RateInv => DecayNotPostponed
<1> SUFFICES ASSUME RateInv PROVE DecayNotPostponed
  BY Zenon
<1> DEFINE S == SECONDS_IN_ONE_MINUTE
           L == lastFeeOperationTime
           m == minutesPassedSinceLastFeeOp
           d == decay.minutes
           z == decay.since
<1>1. /\ S \in Nat \ {0} /\ now \in Nat /\ L \in Nat /\ d \in Nat /\ z \in Nat
      /\ L <= now /\ L - z <= (2 * d) * S
  BY BaseRateAssumption, Zenon DEF RateInv
<1>2. now - L \in Nat /\ m = (now - L) \div S
  BY <1>1 DEF minutesPassedSinceLastFeeOp
<1> HIDE DEF S, L, m, d, z
<1>3. m \in Nat /\ now - L < (m + 1) * S
  BY <1>1, <1>2, WholeMinutes, Zenon
<1>4. (2 * d + m + 1) * S = (2 * d) * S + (m + 1) * S
  BY <1>1, <1>3, Z3
<1> DEFINE p == (2 * d) * S
           q == (m + 1) * S
<1>5. p \in Nat /\ q \in Nat /\ (2 * d + m + 1) * S = p + q /\ L - z <= p /\ now - L < q
  BY <1>1, <1>3, <1>4
<1> HIDE DEF p, q
<1>6. now - z < p + q
  BY <1>1, <1>5
<1>7. now - z < (2 * d + m + 1) * S
  BY <1>5, <1>6, Zenon
<1> QED
  BY <1>7, Zenon DEF DecayNotPostponed, S, L, m, d, z

\* However the fee operations are timed, at least half of the time since the
\* last redemption has decayed the base rate, but for what is left of a minute
\* (_updateLastFeeOpTime).
THEOREM DecayIsNotPostponed == Spec => []DecayNotPostponed
<1>1. Init => RateInv
  BY BaseRateAssumption DEF Init, InitRate, RateInv
<1> QED
  BY <1>1, NextRateInv, RateInvBounds, PTL DEF Spec
-----------------------------------------------------------------------------
(* The split of the fees *)

CONSTANTS Tokens, StakedAmounts, UINT96, Fees, Shares, MAX_FEES, MAX_STAKED
VARIABLES stakes, totalZEROStaked, F, snapshots, zero, held, share, balance, paid

Split == INSTANCE FeeDistributor WITH Amounts <- StakedAmounts

\* The strengthening of NothingIsLeftOver and GainsOnlyGrow that is inductive:
\* the running sums never fall behind a staker's snapshot, and what the
\* distributor holds is part of what was paid.
SplitIInv ==
  /\ Split!Assumptions
  /\ stakes \in [Users -> Nat] /\ totalZEROStaked \in Int
  /\ F \in [Tokens -> Nat] /\ snapshots \in [Users -> [Tokens -> Nat]]
  /\ \A u \in Users, t \in Tokens : snapshots[u][t] <= F[t]
  /\ share \in Nat
  /\ balance \in [Tokens -> Nat] /\ paid \in [Tokens -> Nat]
  /\ \A t \in Tokens : balance[t] <= paid[t]
  /\ Split!NothingIsLeftOver
-----------------------------------------------------------------------------
\* Rounding down keeps the order.
LEMMA QuotientIsMonotone ==
  ASSUME NEW a \in Nat, NEW b \in Nat, a <= b, NEW c \in Nat, NEW d \in Nat \ {0}
  PROVE (c * a) \div d <= (c * b) \div d
<1>1. c * a \in Nat /\ c * b \in Nat /\ c * a <= c * b
  OBVIOUS
<1> DEFINE x == c * a
           y == c * b
<1>2. x \in Nat /\ y \in Nat /\ x <= y
  BY <1>1, Zenon
<1> HIDE DEF x, y
<1>3. x \div d <= y \div d
  BY <1>2
<1> QED
  BY <1>3, Zenon DEF x, y

\* distributeFees gives out the fee whole, as long as it is in the range of the
\* collector's amounts.
LEMMA SplitIsWhole ==
  ASSUME SplitIInv, NEW t \in Tokens, NEW due \in Nat, due # 0 => Split!toFeeSharingCollector(due) <= due
  PROVE LET rest == due - Split!transferred(t, Split!toFeeSharingCollector(due)) - Split!toZeroStaking(due)
        IN  /\ Split!toZeroStaking(due) \in Nat
            /\ rest \in Nat /\ rest <= due
            /\ due < UINT96 => rest = 0
<1> DEFINE c == Split!toFeeSharingCollector(due)
<1>1. c \in Nat
  BY QuotientIsNat, LiquityMathAssumption, Zenon DEF Split!toFeeSharingCollector, SplitIInv
<1>2. c <= due
  <2>1. CASE due = 0
    <3>1. due * share = 0
      BY <2>1 DEF SplitIInv
    <3>2. c = 0 \div DECIMAL_PRECISION
      BY <3>1, Zenon DEF Split!toFeeSharingCollector
    <3> QED
      BY <2>1, <3>2, LiquityMathAssumption
  <2> QED
    BY <2>1, Zenon
<1> HIDE DEF c
<1>3. Split!toZeroStaking(due) = due - c
  BY Zenon DEF Split!toZeroStaking, c
<1>4. UINT96 \in Nat \ {0}
  BY Zenon DEF SplitIInv, Split!Assumptions
<1>5. /\ Split!transferred(t, c) \in Nat /\ Split!transferred(t, c) <= c
      /\ c < UINT96 => Split!transferred(t, c) = c
  <2>1. c % UINT96 \in Nat /\ c % UINT96 <= c /\ (c < UINT96 => c % UINT96 = c)
    BY <1>1, <1>4
  <2> QED
    BY <1>1, <2>1 DEF Split!transferred
<1> DEFINE sent == Split!transferred(t, c)
<1>6. /\ due - sent - (due - c) \in Nat /\ due - sent - (due - c) <= due
      /\ due < UINT96 => due - sent - (due - c) = 0
  <2> HIDE DEF sent
  <2>1. sent \in Nat /\ sent <= c /\ (c < UINT96 => sent = c)
    BY <1>5, Zenon DEF sent
  <2> QED
    BY <1>1, <1>2, <1>4, <2>1
<1> QED
  BY <1>1, <1>2, <1>3, <1>6 DEF c

\* A fee that reaches the stakers does not lower the running sums.
LEMMA SumsGrow ==
  ASSUME SplitIInv, NEW t \in Tokens, NEW fee \in Nat
  PROVE Split!increased(t, fee, totalZEROStaked) \in Nat /\ F[t] <= Split!increased(t, fee, totalZEROStaked)
<1>1. F[t] \in Nat /\ totalZEROStaked \in Int
  BY Zenon DEF SplitIInv
<1>2. CASE totalZEROStaked > 0
  <2>1. (fee * DECIMAL_PRECISION) \div totalZEROStaked \in Nat
    BY <1>1, <1>2, QuotientIsNat, LiquityMathAssumption
  <2> QED
    BY <1>1, <1>2, <2>1 DEF Split!increased
<1>3. CASE ~(totalZEROStaked > 0)
  BY <1>1, <1>3 DEF Split!increased
<1> QED
  BY <1>2, <1>3, Zenon
-----------------------------------------------------------------------------
\* distributeFees keeps the invariant and only adds to the sums.
LEMMA PayKeeps ==
  ASSUME SplitIInv, NEW fee \in [Tokens -> Fees], Split!payFees(fee)
  PROVE SplitIInv' /\ \A t \in Tokens : F[t] <= F'[t]
<1> DEFINE due == [t \in Tokens |-> balance[t] + fee[t]]
           toStaking == [t \in Tokens |-> Split!toZeroStaking(due[t])]
<1>1. \A t \in Tokens : fee[t] \in Nat /\ due[t] \in Nat /\ due[t] <= paid[t] + fee[t]
  <2> SUFFICES ASSUME NEW t \in Tokens
               PROVE fee[t] \in Nat /\ due[t] \in Nat /\ due[t] <= paid[t] + fee[t]
    BY Zenon
  <2>1. fee[t] \in Nat
    BY Zenon DEF SplitIInv, Split!Assumptions
  <2>2. balance[t] \in Nat /\ paid[t] \in Nat /\ balance[t] <= paid[t]
    BY Zenon DEF SplitIInv
  <2> QED
    BY <2>1, <2>2
<1>2. \A t \in Tokens : due[t] # 0 => Split!toFeeSharingCollector(due[t]) <= due[t]
  BY Zenon DEF Split!payFees
<1>3. /\ paid' = [t \in Tokens |-> paid[t] + fee[t]]
      /\ balance' = [t \in Tokens |->
                      due[t] - Split!transferred(t, Split!toFeeSharingCollector(due[t]))
                        - Split!toZeroStaking(due[t])]
      /\ F' = [t \in Tokens |-> IF toStaking[t] # 0
                                THEN Split!increased(t, toStaking[t], totalZEROStaked) ELSE F[t]]
      /\ UNCHANGED <<stakes, totalZEROStaked, snapshots, share>>
  BY Zenon DEF Split!payFees
<1>4. paid' \in [Tokens -> Nat]
  BY <1>1, <1>3 DEF SplitIInv
<1>5. \A t \in Tokens : toStaking[t] \in Nat
  BY <1>1, <1>2, SplitIsWhole, Zenon
<1>6. \A t \in Tokens : balance'[t] \in Nat /\ balance'[t] <= due[t] /\ (due[t] < UINT96 => balance'[t] = 0)
  BY <1>1, <1>2, <1>3, SplitIsWhole, Zenon
<1>7. \A t \in Tokens : balance'[t] <= paid'[t] /\ (paid'[t] < UINT96 => balance'[t] = 0)
  <2> SUFFICES ASSUME NEW t \in Tokens
               PROVE balance'[t] <= paid'[t] /\ (paid'[t] < UINT96 => balance'[t] = 0)
    BY Zenon
  <2>1. paid'[t] = paid[t] + fee[t] /\ paid'[t] \in Nat
    BY <1>3, <1>4, Zenon
  <2>2. due[t] <= paid'[t] /\ due[t] \in Nat
    BY <1>1, <2>1, Zenon
  <2>3. balance'[t] \in Nat /\ balance'[t] <= due[t] /\ (due[t] < UINT96 => balance'[t] = 0)
    BY <1>6, Zenon
  <2>4. UINT96 \in Nat
    BY Zenon DEF SplitIInv, Split!Assumptions
  <2> HIDE DEF due
  <2> QED
    BY <2>1, <2>2, <2>3, <2>4
<1>8. \A t \in Tokens : F'[t] \in Nat /\ F[t] <= F'[t]
  <2> SUFFICES ASSUME NEW t \in Tokens PROVE F'[t] \in Nat /\ F[t] <= F'[t]
    BY Zenon
  <2>1. F[t] \in Nat /\ toStaking[t] \in Nat
    BY <1>5, Zenon DEF SplitIInv
  <2>2. F'[t] = IF toStaking[t] # 0 THEN Split!increased(t, toStaking[t], totalZEROStaked) ELSE F[t]
    BY <1>3, Zenon
  <2> HIDE DEF toStaking
  <2> QED
    BY <2>1, <2>2, SumsGrow
<1>9. F' \in [Tokens -> Nat] /\ balance' \in [Tokens -> Nat]
  <2> HIDE DEF due, toStaking
  <2> QED
    BY <1>3, <1>6, <1>8, Zenon
<1>10. \A u \in Users, t \in Tokens : snapshots'[u][t] <= F'[t]
  <2> SUFFICES ASSUME NEW u \in Users, NEW t \in Tokens PROVE snapshots[u][t] <= F'[t]
    BY <1>3, Zenon
  <2>1. snapshots[u][t] \in Nat /\ F[t] \in Nat /\ snapshots[u][t] <= F[t]
    BY Zenon DEF SplitIInv
  <2>2. F'[t] \in Nat /\ F[t] <= F'[t]
    BY <1>8, Zenon
  <2> QED
    BY <2>1, <2>2
<1> HIDE DEF due, toStaking
<1> QED
  BY <1>3, <1>4, <1>7, <1>8, <1>9, <1>10, Zenon DEF SplitIInv, Split!NothingIsLeftOver

\* Staking and unstaking keep the invariant: the snapshot is the sum.
LEMMA StakeKeeps ==
  ASSUME SplitIInv, NEW u \in Users, NEW a \in Nat, Split!userStakes(u, a) \/ Split!userUnstakes(u, a)
  PROVE SplitIInv' /\ F' = F
<1>1. /\ F' = F /\ snapshots' = [snapshots EXCEPT ![u] = F]
      /\ UNCHANGED <<share, balance, paid>>
  BY Zenon DEF Split!userStakes, Split!userUnstakes, Split!stake, Split!unstake, Split!updateUserSnapshots
<1>2. stakes' \in [Users -> Nat] /\ totalZEROStaked' \in Int
  <2>1. CASE Split!stake(u, a)
    BY <2>1 DEF Split!stake, SplitIInv
  <2>2. CASE Split!unstake(u, a)
    <3> DEFINE withdrawn == Split!min(a, stakes[u])
    <3>1. withdrawn \in Nat /\ withdrawn <= stakes[u] /\ stakes[u] \in Nat
      BY DEF Split!min, SplitIInv
    <3>2. /\ stakes' = [stakes EXCEPT ![u] = stakes[u] - withdrawn]
          /\ totalZEROStaked' = totalZEROStaked - withdrawn
      BY <2>2, Zenon DEF Split!unstake
    <3> HIDE DEF withdrawn
    <3> QED
      BY <3>1, <3>2 DEF SplitIInv
  <2> QED
    BY <2>1, <2>2, Zenon DEF Split!userStakes, Split!userUnstakes
<1>3. snapshots' \in [Users -> [Tokens -> Nat]] /\ \A v \in Users, t \in Tokens : snapshots'[v][t] <= F[t]
  BY <1>1 DEF SplitIInv
<1> QED
  BY <1>1, <1>2, <1>3, Zenon DEF SplitIInv, Split!NothingIsLeftOver

\* Every step keeps the invariant, and no step lowers the sums.
LEMMA NextSplitIInv ==
  ASSUME SplitIInv, [Split!Next]_(Split!vars)
  PROVE SplitIInv' /\ \A t \in Tokens : F[t] <= F'[t]
<1>0. \A t \in Tokens : F[t] \in Nat
  BY Zenon DEF SplitIInv
<1>1. ASSUME NEW s \in Shares, Split!setFeeToFeeSharingCollector(s) PROVE SplitIInv' /\ F' = F
  BY <1>1, Zenon DEF Split!setFeeToFeeSharingCollector, Split!stakingVars, SplitIInv,
               Split!Assumptions, Split!NothingIsLeftOver
<1>2. ASSUME NEW fee \in [Tokens -> Fees], Split!payFees(fee)
      PROVE  SplitIInv' /\ \A t \in Tokens : F[t] <= F'[t]
  BY <1>2, PayKeeps, Zenon
<1>3. ASSUME NEW u \in Users, NEW a \in StakedAmounts \cup {0},
             Split!userStakes(u, a) \/ Split!userUnstakes(u, a)
      PROVE  SplitIInv' /\ F' = F
  <2>1. a \in Nat
    BY DEF SplitIInv, Split!Assumptions
  <2> QED
    BY <1>3, <2>1, StakeKeeps, Zenon
<1>4. CASE UNCHANGED Split!vars
  BY <1>0, <1>4 DEF Split!vars, Split!stakingVars, SplitIInv, Split!NothingIsLeftOver
<1> QED
  BY <1>0, <1>1, <1>2, <1>3, <1>4 DEF Split!Next
-----------------------------------------------------------------------------
\* distributeFees leaves nothing of a fee in the FeeDistributor, whatever share
\* the owner sets: the part that is rounded down and the rest add up.
THEOREM FeesAreSplitWhole ==
  ASSUME Split!Assumptions
  PROVE Split!Spec => []Split!NothingIsLeftOver
<1>1. Split!Init => SplitIInv
  BY LiquityMathAssumption DEF Split!Init, Split!StakingInit, SplitIInv, Split!NothingIsLeftOver
<1>2. SplitIInv /\ [Split!Next]_(Split!vars) => SplitIInv'
  BY NextSplitIInv, Zenon
<1>3. SplitIInv => Split!NothingIsLeftOver
  BY Zenon DEF SplitIInv
<1> QED
  BY <1>1, <1>2, <1>3, PTL DEF Split!Spec

\* What a staker has gained is theirs: neither other stakers nor the
\* FeeDistributor make it less, however the sums are rounded.
THEOREM GainsAreKept ==
  ASSUME Split!Assumptions
  PROVE Split!Spec => Split!GainsOnlyGrow
<1> DEFINE Grows == \A u \in Users, t \in Tokens :
                       snapshots'[u] = snapshots[u] /\ stakes'[u] = stakes[u] =>
                         Split!pendingGain(u, t)' >= Split!pendingGain(u, t)
<1>1. Split!Init => SplitIInv
  BY LiquityMathAssumption DEF Split!Init, Split!StakingInit, SplitIInv, Split!NothingIsLeftOver
<1>2. SplitIInv /\ [Split!Next]_(Split!vars) => SplitIInv'
  BY NextSplitIInv
<1>3. SplitIInv /\ [Split!Next]_(Split!vars) => [Grows]_(Split!stakingVars)
  <2> SUFFICES ASSUME SplitIInv, [Split!Next]_(Split!vars), NEW u \in Users, NEW t \in Tokens,
                      snapshots'[u] = snapshots[u], stakes'[u] = stakes[u]
               PROVE Split!pendingGain(u, t)' >= Split!pendingGain(u, t)
    BY Zenon
  <2>1. SplitIInv' /\ F[t] <= F'[t]
    BY NextSplitIInv, Zenon
  <2> DEFINE a == F[t] - snapshots[u][t]
             b == F'[t] - snapshots[u][t]
  <2>2. stakes[u] \in Nat /\ a \in Nat /\ b \in Nat /\ a <= b
    BY <2>1 DEF SplitIInv
  <2>3. Split!pendingGain(u, t) = (stakes[u] * a) \div DECIMAL_PRECISION
    BY Zenon DEF Split!pendingGain
  <2>4. Split!pendingGain(u, t)' = (stakes[u] * b) \div DECIMAL_PRECISION
    BY Zenon DEF Split!pendingGain
  <2> HIDE DEF a, b
  <2>5. (stakes[u] * a) \div DECIMAL_PRECISION <= (stakes[u] * b) \div DECIMAL_PRECISION
    BY <2>2, QuotientIsMonotone, LiquityMathAssumption, Zenon
  <2>6. /\ (stakes[u] * a) \div DECIMAL_PRECISION \in Nat
        /\ (stakes[u] * b) \div DECIMAL_PRECISION \in Nat
    BY <2>2, QuotientIsNat, LiquityMathAssumption, Zenon
  <2> QED
    BY <2>3, <2>4, <2>5, <2>6, Zenon
<1> HIDE DEF Grows
<1>4. Split!Spec => [][Grows]_(Split!stakingVars)
  BY <1>1, <1>2, <1>3, PTL DEF Split!Spec
<1> QED
  BY <1>4, Zenon DEF Split!GainsOnlyGrow, Grows
-----------------------------------------------------------------------------
(* PriceFeed *)

CONSTANTS MoCMedianizers, RskOracles, Prices
VARIABLES oracle, priceFeeds, lastGoodPrice, fetched, seen

Feed == INSTANCE PriceFeed

\* The strengthening of FetchedPriceWasSeen that is inductive: once there is a
\* main feed, the price that was stored last is one that was seen.
FeedIInv ==
  /\ priceFeeds \in [0..1 -> Feed!Adapters \cup {NONE}]
  /\ priceFeeds[0] # NONE => lastGoodPrice \in seen
  /\ Feed!FetchedPriceWasSeen

\* What an adapter answers with success is what its oracle has.
LEMMA WorksMeansOracleWorks ==
  ASSUME NEW f, Feed!works(f)
  PROVE f # NONE /\ oracle[f].works /\ Feed!latestAnswer(f).price = oracle[f].price
BY Zenon DEF Feed!works, Feed!reverts, Feed!latestAnswer

\* A price that a working feed in use has is seen, and what was seen stays so.
LEMMA LookSees ==
  ASSUME Feed!look
  PROVE /\ seen \subseteq seen'
        /\ \A i \in 0..1 : priceFeeds'[i] # NONE /\ oracle[priceFeeds'[i]].works
                             => oracle[priceFeeds'[i]].price \in seen'
BY DEF Feed!look

\* fetchPrice keeps the invariant, by which of the feeds answers.
LEMMA FetchPriceKeeps ==
  ASSUME FeedIInv, Feed!fetchPrice
  PROVE FeedIInv'
<1> DEFINE main == priceFeeds[0]
           backup == priceFeeds[1]
           failed(f) == ~Feed!reverts(f) /\ ~Feed!latestAnswer(f).success
<1>1. Feed!look /\ priceFeeds' = priceFeeds
  BY Zenon DEF Feed!fetchPrice
<1>2. seen \subseteq seen'
  BY <1>1, LookSees, Zenon
<1>3. CASE Feed!works(main) /\ Feed!storePrice(Feed!latestAnswer(main).price)
  <2>1. Feed!latestAnswer(main).price \in seen'
    BY <1>1, <1>3, LookSees, WorksMeansOracleWorks
  <2> QED
    BY <1>1, <1>3, <2>1, Zenon DEF FeedIInv, Feed!FetchedPriceWasSeen, Feed!storePrice
<1>4. CASE Feed!works(backup) /\ Feed!storePrice(Feed!latestAnswer(backup).price)
  <2>1. Feed!latestAnswer(backup).price \in seen'
    BY <1>1, <1>4, LookSees, WorksMeansOracleWorks
  <2> QED
    BY <1>1, <1>4, <2>1, Zenon DEF FeedIInv, Feed!FetchedPriceWasSeen, Feed!storePrice
<1>5. CASE failed(main) /\ fetched' = lastGoodPrice /\ UNCHANGED lastGoodPrice
  <2>1. main # NONE
    BY <1>5, Zenon DEF Feed!reverts
  <2> QED
    BY <1>1, <1>2, <1>5, <2>1, Zenon DEF FeedIInv, Feed!FetchedPriceWasSeen
<1>6. CASE fetched' = NONE /\ UNCHANGED lastGoodPrice
  BY <1>1, <1>2, <1>6, Zenon DEF FeedIInv, Feed!FetchedPriceWasSeen
<1> QED
  BY <1>3, <1>4, <1>5, <1>6, Zenon DEF Feed!fetchPrice

\* Every call of the contract, and every change of an oracle, keeps the invariant.
LEMMA NextFeedIInv == FeedIInv /\ [Feed!Next]_(Feed!vars) => FeedIInv'
<1> SUFFICES ASSUME FeedIInv, [Feed!Next]_(Feed!vars) PROVE FeedIInv'
  OBVIOUS
<1>1. ASSUME NEW f \in Feed!Adapters, Feed!oracleChanges(f) PROVE FeedIInv'
  BY <1>1, Zenon DEF Feed!oracleChanges, FeedIInv, Feed!FetchedPriceWasSeen
<1>2. ASSUME NEW i \in 0..1, NEW f \in Feed!Adapters, priceFeeds[i] # NONE, Feed!setAddress(i, f)
      PROVE FeedIInv'
  <2>1. seen \subseteq seen'
    BY <1>2, LookSees, Zenon DEF Feed!setAddress
  <2>2. priceFeeds' = [priceFeeds EXCEPT ![i] = f] /\ UNCHANGED <<lastGoodPrice, fetched>>
    BY <1>2, Zenon DEF Feed!setAddress
  <2>3. priceFeeds[0] = NONE => priceFeeds'[0] = NONE
    BY <1>2, <2>2 DEF FeedIInv
  <2> QED
    BY <2>1, <2>2, <2>3, Zenon DEF FeedIInv, Feed!FetchedPriceWasSeen
<1>3. ASSUME NEW main \in Feed!Adapters, NEW backup \in Feed!Adapters,
             Feed!setAddresses(main, backup)
      PROVE FeedIInv'
  <2>1. Feed!look /\ Feed!works(main) /\ priceFeeds' = [i \in 0..1 |-> IF i = 0 THEN main ELSE backup]
    BY <1>3, Zenon DEF Feed!setAddresses
  <2>2. seen \subseteq seen' /\ Feed!latestAnswer(main).price \in seen'
    <3>1. priceFeeds'[0] = main
      BY <2>1
    <3> QED
      BY <2>1, <3>1, LookSees, WorksMeansOracleWorks
  <2> QED
    BY <1>3, <2>1, <2>2, Zenon DEF Feed!setAddresses, FeedIInv, Feed!FetchedPriceWasSeen
<1>4. CASE Feed!fetchPrice
  BY <1>4, FetchPriceKeeps, Zenon
<1>5. CASE UNCHANGED Feed!vars
  BY <1>5, Zenon DEF Feed!vars, FeedIInv, Feed!FetchedPriceWasSeen
<1> QED
  BY <1>1, <1>2, <1>3, <1>4, <1>5, Zenon DEF Feed!Next

\* Whichever oracles fail and whichever feeds are replaced, every price that
\* fetchPrice returns is one that a working oracle in use had when the contract
\* looked: setAddress, which stores no price, does not break the fallback.
THEOREM FetchedPriceIsGood == Feed!Spec => []Feed!FetchedPriceWasSeen
<1>1. Feed!Init => FeedIInv
  BY DEF Feed!Init, FeedIInv, Feed!FetchedPriceWasSeen
<1>2. FeedIInv /\ [Feed!Next]_(Feed!vars) => FeedIInv'
  BY NextFeedIInv, Zenon
<1>3. FeedIInv => Feed!FetchedPriceWasSeen
  BY Zenon DEF FeedIInv
<1> QED
  BY <1>1, <1>2, <1>3, PTL DEF Feed!Spec
-----------------------------------------------------------------------------
(* Calls in DLLR *)

CONSTANTS ZUSD_GAS_COMPENSATION, MIN_NET_DEBT, MAX_AMOUNT, MAX_FEE, MAX_TOTAL
VARIABLES debt, pending, deposit, zusd, dllr, kept, pool, reverted

Nue == INSTANCE NueTroves WITH held <- kept

(***************************************************************************)
(* What the step proofs need: the amounts are integers and the balances    *)
(* never negative, so a call that pays from the one purse can be paid from *)
(* both, and no ZUSD is left in a contract.                                *)
(***************************************************************************)
NueIInv ==
    /\ Nue!Assumptions
    /\ {debt, pending, deposit, kept, pool} \subseteq Int
    /\ zusd \in Nat
    /\ dllr \in Nat
    /\ deposit >= 0
    /\ pending >= 0
    /\ Nue!NothingLeftBehind

\* Min of two integers is one of them, at most the other: what a withdrawal takes from
\* the pool is no more than the deposit and the amount asked for.
LEMMA WithdrawnBounds ==
    ASSUME NEW a \in Nat, deposit \in Nat
    PROVE  /\ Nue!Zusd!withdrawn(a) \in Nat
           /\ Nue!Zusd!withdrawn(a) <= deposit
<1>1. \E x \in {a, deposit} : \A y \in {a, deposit} : x <= y
  OBVIOUS
<1>2. /\ Nue!Zusd!Min({a, deposit}) \in {a, deposit}
      /\ \A y \in {a, deposit} : Nue!Zusd!Min({a, deposit}) <= y
  BY <1>1, Zenon DEF Nue!Zusd!Min
<1> QED BY <1>2, Zenon DEF Nue!Zusd!withdrawn

\* The invariant holds at the start: every amount is 0.
LEMMA InitNueIInv == Nue!Assumptions /\ Nue!Init => NueIInv
  BY DEF Nue!Init, NueIInv, Nue!NothingLeftBehind, Nue!Zusd!PurseInit

\* A call in DLLR keeps the balances and leaves no ZUSD behind.
LEMMA NueCallKeeps == ASSUME NueIInv, Nue!NueCall PROVE NueIInv'
<1> USE DEF NueIInv, Nue!Assumptions, Nue!NothingLeftBehind, Nue!Amounts, Nue!Zusd!Amounts,
            Nue!Fees, Nue!Done, Nue!Elsewhere, Nue!mintTo, Nue!redeemZusdFromDllr,
            Nue!Zusd!owed, Nue!Zusd!net
<1>1. ASSUME NEW a \in Nue!Amounts, NEW fee \in Nue!Fees, Nue!openNueTrove(a, fee)
      PROVE NueIInv'
  BY <1>1 DEF Nue!openNueTrove, Nue!Zusd!openTrove
<1>2. ASSUME NEW a \in Nue!Amounts \cup {0}, NEW fee \in Nue!Fees,
             Nue!adjustNueTroveBorrowing(a, fee)
      PROVE NueIInv'
  BY <1>2 DEF Nue!adjustNueTroveBorrowing, Nue!Zusd!borrow
<1>3. ASSUME NEW a \in Nue!Amounts, Nue!adjustNueTroveRepaying(a) PROVE NueIInv'
  BY <1>3 DEF Nue!adjustNueTroveRepaying, Nue!Zusd!repay
<1>4. ASSUME NEW a \in Nue!Amounts, Nue!provideToSpFromDLLR(a) PROVE NueIInv'
  BY <1>4 DEF Nue!provideToSpFromDLLR, Nue!Zusd!provideToSP
<1>5. ASSUME NEW a \in Nue!Amounts, Nue!withdrawFromSpAndConvertToDLLR(a) PROVE NueIInv'
  <2>1. Nue!Zusd!withdrawn(a) \in Nat /\ Nue!Zusd!withdrawn(a) <= deposit
    BY WithdrawnBounds
  <2> QED BY <1>5, <2>1 DEF Nue!withdrawFromSpAndConvertToDLLR, Nue!Zusd!withdrawFromSP
<1>6. ASSUME NEW a \in Nue!Amounts, NEW lot \in Nue!Amounts, NEW own \in Nue!Amounts \cup {0},
             Nue!redeemCollateralViaDLLR(a, lot, own)
      PROVE NueIInv'
  BY <1>6 DEF Nue!redeemCollateralViaDLLR, Nue!Zusd!redeemCollateral, Nue!Zusd!redeemFromTrove
<1>7. ASSUME Nue!closeNueTrove PROVE NueIInv'
  BY <1>7 DEF Nue!closeNueTrove, Nue!Zusd!closeTrove
<1> QED BY <1>1, <1>2, <1>3, <1>4, <1>5, <1>6, <1>7, Zenon DEF Nue!NueCall

\* So does a plain operation, or what others do to the account.
LEMMA PlainKeeps == ASSUME NueIInv, Nue!PlainStep PROVE NueIInv'
<1> USE DEF NueIInv, Nue!Assumptions, Nue!NothingLeftBehind, Nue!Zusd!Amounts, Nue!Zusd!owed,
            Nue!Zusd!net
<1> SUFFICES debt' \in Int /\ pending' \in Nat /\ deposit' \in Nat /\ zusd' \in Nat
  BY DEF Nue!PlainStep
<1>1. ASSUME NEW a \in Nue!Zusd!Amounts, NEW fee \in 0..MAX_FEE,
             Nue!Zusd!openTrove(a, fee, a) \/ Nue!Zusd!borrow(a, fee, a)
      PROVE  debt' \in Int /\ pending' \in Nat /\ deposit' \in Nat /\ zusd' \in Nat
  BY <1>1 DEF Nue!Zusd!openTrove, Nue!Zusd!borrow
<1>2. ASSUME NEW fee \in 0..MAX_FEE, Nue!Zusd!borrow(0, fee, 0)
      PROVE  debt' \in Int /\ pending' \in Nat /\ deposit' \in Nat /\ zusd' \in Nat
  BY <1>2 DEF Nue!Zusd!borrow
<1>3. ASSUME NEW a \in Nue!Zusd!Amounts,
             Nue!Zusd!repay(a, zusd) \/ Nue!Zusd!provideToSP(a, zusd)
      PROVE  debt' \in Int /\ pending' \in Nat /\ deposit' \in Nat /\ zusd' \in Nat
  BY <1>3 DEF Nue!Zusd!repay, Nue!Zusd!provideToSP
<1>4. ASSUME Nue!Zusd!closeTrove(zusd) \/ Nue!Zusd!liquidated
      PROVE  debt' \in Int /\ pending' \in Nat /\ deposit' \in Nat /\ zusd' \in Nat
  BY <1>4 DEF Nue!Zusd!closeTrove, Nue!Zusd!liquidated
<1>5. ASSUME NEW a \in Nue!Zusd!Amounts \cup {0},
             Nue!Zusd!withdrawFromSP(a, Nue!Zusd!withdrawn(a))
      PROVE  debt' \in Int /\ pending' \in Nat /\ deposit' \in Nat /\ zusd' \in Nat
  <2>1. Nue!Zusd!withdrawn(a) \in Nat /\ Nue!Zusd!withdrawn(a) <= deposit
    BY WithdrawnBounds
  <2> QED BY <1>5, <2>1 DEF Nue!Zusd!withdrawFromSP
<1>6. ASSUME NEW a \in Nue!Zusd!Amounts, NEW lot \in Nue!Zusd!Amounts,
             NEW own \in Nue!Zusd!Amounts \cup {0}, Nue!Zusd!redeemCollateral(a, lot, own, zusd)
      PROVE  debt' \in Int /\ pending' \in Nat /\ deposit' \in Nat /\ zusd' \in Nat
  BY <1>6 DEF Nue!Zusd!redeemCollateral, Nue!Zusd!redeemFromTrove
<1>7. ASSUME NEW a \in Nue!Zusd!Amounts,
             \/ Nue!Zusd!redistributed(a) \/ Nue!Zusd!offset(a)
             \/ Nue!Zusd!transfer(a) \/ Nue!Zusd!transfer(-a)
      PROVE  debt' \in Int /\ pending' \in Nat /\ deposit' \in Nat /\ zusd' \in Nat
  BY <1>7 DEF Nue!Zusd!redistributed, Nue!Zusd!offset, Nue!Zusd!transfer
<1>8. ASSUME NEW own \in Nue!Zusd!Amounts \cup {0}, Nue!Zusd!redeemedByOthers(own)
      PROVE  debt' \in Int /\ pending' \in Nat /\ deposit' \in Nat /\ zusd' \in Nat
  BY <1>8 DEF Nue!Zusd!redeemedByOthers, Nue!Zusd!redeemFromTrove
<1> HIDE DEF NueIInv, Nue!Assumptions, Nue!NothingLeftBehind, Nue!Zusd!Amounts, Nue!Zusd!owed,
             Nue!Zusd!net
<1>9. \A a \in Nue!Zusd!Amounts \cup {0}, fee \in 0..MAX_FEE : Nue!Zusd!borrow(a, fee, a) =>
         debt' \in Int /\ pending' \in Nat /\ deposit' \in Nat /\ zusd' \in Nat
  BY <1>1, <1>2, Zenon
<1> QED BY <1>1, <1>3, <1>4, <1>5, <1>6, <1>7, <1>8, <1>9, Zenon DEF Nue!PlainStep, Nue!Zusd!PurseNext

\* The invariant is inductive.
LEMMA NextNueIInv == NueIInv /\ [Nue!Next]_(Nue!vars) => NueIInv'
<1> SUFFICES ASSUME NueIInv, [Nue!Next]_(Nue!vars) PROVE NueIInv'
  OBVIOUS
<1>1. CASE UNCHANGED Nue!vars
  BY <1>1, Zenon DEF Nue!vars, NueIInv, Nue!NothingLeftBehind
<1>2. ASSUME NEW a \in Nue!Amounts, Nue!transferDLLR(a) \/ Nue!transferDLLR(-a) PROVE NueIInv'
  BY <1>2 DEF Nue!transferDLLR, NueIInv, Nue!Assumptions, Nue!NothingLeftBehind, Nue!Amounts,
              Nue!Zusd!Amounts
<1> QED BY <1>1, <1>2, NueCallKeeps, PlainKeeps, Zenon DEF Nue!Next

\* A call in DLLR is the plain call on what the account has in either token.
LEMMA NueCallIsPlain == ASSUME NueIInv, Nue!NueCall
    PROVE Nue!Either!PurseNext \/ UNCHANGED Nue!Either!purseVars
<1> USE DEF NueIInv, Nue!Assumptions, Nue!Amounts, Nue!Zusd!Amounts, Nue!Either!Amounts,
            Nue!Fees, Nue!mintTo, Nue!redeemZusdFromDllr, Nue!Zusd!owed, Nue!Zusd!net,
            Nue!Either!owed, Nue!Either!net
<1>1. ASSUME NEW a \in Nue!Amounts, NEW fee \in Nue!Fees, Nue!openNueTrove(a, fee)
      PROVE Nue!Either!openTrove(a, fee, a)
  BY <1>1 DEF Nue!openNueTrove, Nue!Zusd!openTrove, Nue!Either!openTrove
<1>2. ASSUME NEW a \in Nue!Amounts \cup {0}, NEW fee \in Nue!Fees,
             Nue!adjustNueTroveBorrowing(a, fee)
      PROVE Nue!Either!borrow(a, fee, a)
  BY <1>2 DEF Nue!adjustNueTroveBorrowing, Nue!Zusd!borrow, Nue!Either!borrow
<1>3. ASSUME NEW a \in Nue!Amounts, Nue!adjustNueTroveRepaying(a)
      PROVE Nue!Either!repay(a, zusd + dllr)
  BY <1>3 DEF Nue!adjustNueTroveRepaying, Nue!Zusd!repay, Nue!Either!repay
<1>4. ASSUME NEW a \in Nue!Amounts, Nue!provideToSpFromDLLR(a)
      PROVE Nue!Either!provideToSP(a, zusd + dllr)
  BY <1>4 DEF Nue!provideToSpFromDLLR, Nue!Zusd!provideToSP, Nue!Either!provideToSP
<1>5. ASSUME NEW a \in Nue!Amounts, Nue!withdrawFromSpAndConvertToDLLR(a)
      PROVE Nue!Either!withdrawFromSP(a, Nue!Either!withdrawn(a))
  <2>1. Nue!Zusd!withdrawn(a) \in Nat
    BY WithdrawnBounds DEF Nue!NothingLeftBehind
  <2>2. Nue!Either!withdrawn(a) = Nue!Zusd!withdrawn(a)
    BY Zenon DEF Nue!Either!withdrawn, Nue!Zusd!withdrawn, Nue!Either!Min, Nue!Zusd!Min
  <2> QED BY <1>5, <2>1, <2>2 DEF Nue!withdrawFromSpAndConvertToDLLR, Nue!Zusd!withdrawFromSP,
                                  Nue!Either!withdrawFromSP
<1>6. ASSUME NEW a \in Nue!Amounts, NEW lot \in Nue!Amounts, NEW own \in Nue!Amounts \cup {0},
             Nue!redeemCollateralViaDLLR(a, lot, own)
      PROVE  Nue!Either!redeemCollateral(a, lot, own, zusd + dllr)
  BY <1>6 DEF Nue!redeemCollateralViaDLLR, Nue!Zusd!redeemCollateral,
              Nue!Zusd!redeemFromTrove, Nue!Either!redeemCollateral, Nue!Either!redeemFromTrove
<1>7. ASSUME Nue!closeNueTrove
      PROVE Nue!Either!closeTrove(zusd + dllr) \/ UNCHANGED Nue!Either!purseVars
  BY <1>7 DEF Nue!closeNueTrove, Nue!Zusd!closeTrove, Nue!Either!closeTrove,
              Nue!Either!purseVars
<1> HIDE DEF NueIInv, Nue!Assumptions, Nue!mintTo, Nue!redeemZusdFromDllr, Nue!Zusd!owed,
             Nue!Zusd!net, Nue!Either!owed, Nue!Either!net
<1> QED BY <1>1, <1>2, <1>3, <1>4, <1>5, <1>6, <1>7, Zenon DEF Nue!NueCall, Nue!Either!PurseNext

\* A plain step is one too: whatever the account's DLLR, it adds to what it can pay with.
LEMMA PlainIsPlain == ASSUME NueIInv, Nue!PlainStep PROVE Nue!Either!PurseNext
<1> USE DEF NueIInv, Nue!Assumptions, Nue!PlainStep, Nue!Zusd!Amounts, Nue!Either!Amounts,
            Nue!Zusd!owed, Nue!Zusd!net, Nue!Either!owed, Nue!Either!net
<1>1. ASSUME NEW a \in Nue!Zusd!Amounts, NEW fee \in 0..MAX_FEE, Nue!Zusd!openTrove(a, fee, a)
      PROVE Nue!Either!openTrove(a, fee, a)
  BY <1>1 DEF Nue!Zusd!openTrove, Nue!Either!openTrove
<1>2. ASSUME NEW a \in Nue!Zusd!Amounts \cup {0}, NEW fee \in 0..MAX_FEE,
             Nue!Zusd!borrow(a, fee, a)
      PROVE Nue!Either!borrow(a, fee, a)
  BY <1>2 DEF Nue!Zusd!borrow, Nue!Either!borrow
<1>3. ASSUME NEW a \in Nue!Zusd!Amounts, Nue!Zusd!repay(a, zusd)
      PROVE Nue!Either!repay(a, zusd + dllr)
  BY <1>3 DEF Nue!Zusd!repay, Nue!Either!repay
<1>4. ASSUME NEW a \in Nue!Zusd!Amounts, Nue!Zusd!provideToSP(a, zusd)
      PROVE Nue!Either!provideToSP(a, zusd + dllr)
  BY <1>4 DEF Nue!Zusd!provideToSP, Nue!Either!provideToSP
<1>5. ASSUME NEW a \in Nue!Zusd!Amounts \cup {0},
             Nue!Zusd!withdrawFromSP(a, Nue!Zusd!withdrawn(a))
      PROVE Nue!Either!withdrawFromSP(a, Nue!Either!withdrawn(a))
  <2>1. Nue!Zusd!withdrawn(a) \in Nat
    BY WithdrawnBounds
  <2>2. Nue!Either!withdrawn(a) = Nue!Zusd!withdrawn(a)
    BY Zenon DEF Nue!Either!withdrawn, Nue!Zusd!withdrawn, Nue!Either!Min, Nue!Zusd!Min
  <2> QED BY <1>5, <2>1, <2>2 DEF Nue!Zusd!withdrawFromSP, Nue!Either!withdrawFromSP
<1>6. ASSUME NEW a \in Nue!Zusd!Amounts, NEW lot \in Nue!Zusd!Amounts,
             NEW own \in Nue!Zusd!Amounts \cup {0}, Nue!Zusd!redeemCollateral(a, lot, own, zusd)
      PROVE  Nue!Either!redeemCollateral(a, lot, own, zusd + dllr)
  BY <1>6 DEF Nue!Zusd!redeemCollateral, Nue!Zusd!redeemFromTrove,
              Nue!Either!redeemCollateral, Nue!Either!redeemFromTrove
<1>7. ASSUME NEW a \in Nue!Zusd!Amounts, Nue!Zusd!transfer(a) \/ Nue!Zusd!transfer(-a)
      PROVE Nue!Either!transfer(a) \/ Nue!Either!transfer(-a)
  BY <1>7 DEF Nue!Zusd!transfer, Nue!Either!transfer
<1>8. ASSUME NEW a \in Nue!Zusd!Amounts, Nue!Zusd!redistributed(a) \/ Nue!Zusd!offset(a)
      PROVE Nue!Either!redistributed(a) \/ Nue!Either!offset(a)
  BY <1>8, Zenon DEF Nue!Zusd!redistributed, Nue!Zusd!offset, Nue!Either!redistributed,
              Nue!Either!offset
<1>9. ASSUME NEW own \in Nue!Zusd!Amounts \cup {0}, Nue!Zusd!redeemedByOthers(own)
      PROVE Nue!Either!redeemedByOthers(own)
  BY <1>9, Zenon DEF Nue!Zusd!redeemedByOthers, Nue!Zusd!redeemFromTrove,
              Nue!Either!redeemedByOthers, Nue!Either!redeemFromTrove
<1>10. Nue!Zusd!closeTrove(zusd) => Nue!Either!closeTrove(zusd + dllr)
  BY DEF Nue!Zusd!closeTrove, Nue!Either!closeTrove
<1>11. Nue!Zusd!liquidated => Nue!Either!liquidated
  BY Zenon DEF Nue!Zusd!liquidated, Nue!Either!liquidated
<1> HIDE DEF NueIInv, Nue!Assumptions, Nue!PlainStep, Nue!Zusd!owed, Nue!Zusd!net,
             Nue!Either!owed, Nue!Either!net
<1> QED BY <1>1, <1>2, <1>3, <1>4, <1>5, <1>6, <1>7, <1>8, <1>9, <1>10,
<1>11, Zenon DEF Nue!PlainStep, Nue!Zusd!PurseNext, Nue!Either!PurseNext

(***************************************************************************)
(* Every behaviour of the calls in DLLR and in ZUSD is, for an account     *)
(* that counts both tokens together, a behaviour of the plain calls (the   *)
(* interface's "identical to ..., but operates on NUE tokens"), and no     *)
(* ZUSD stays behind in BorrowerOperations or leaves the Stability Pool    *)
(* unrecorded.                                                             *)
(***************************************************************************)
THEOREM NueImplementsPlain ==
  ASSUME Nue!Assumptions
  PROVE  Nue!Spec => Nue!NueIsPlain /\ []Nue!NothingLeftBehind
<1>1. Nue!Init => Nue!Either!PurseInit
  BY DEF Nue!Init, Nue!Zusd!PurseInit, Nue!Either!PurseInit
<1>2. NueIInv /\ [Nue!Next]_(Nue!vars) => [Nue!Either!PurseNext]_(Nue!Either!purseVars)
  <2> SUFFICES ASSUME NueIInv, [Nue!Next]_(Nue!vars)
      PROVE Nue!Either!PurseNext \/ UNCHANGED Nue!Either!purseVars
    BY Zenon
  <2>1. CASE UNCHANGED Nue!vars
    BY <2>1, Zenon DEF Nue!vars, Nue!Either!purseVars
  <2>2. ASSUME NEW a \in Nue!Amounts, Nue!transferDLLR(a) PROVE Nue!Either!PurseNext
    <3>1. Nue!Either!transfer(a)
      BY <2>2 DEF Nue!transferDLLR, NueIInv, Nue!Assumptions, Nue!Amounts, Nue!Zusd!Amounts,
                  Nue!Either!transfer
    <3> QED BY <3>1, Zenon DEF Nue!Either!PurseNext, Nue!Amounts, Nue!Zusd!Amounts, Nue!Either!Amounts
  <2>3. ASSUME NEW a \in Nue!Amounts, Nue!transferDLLR(-a) PROVE Nue!Either!PurseNext
    <3>1. Nue!Either!transfer(-a)
      BY <2>3 DEF Nue!transferDLLR, NueIInv, Nue!Assumptions, Nue!Amounts, Nue!Zusd!Amounts,
                  Nue!Either!transfer
    <3> QED BY <3>1, Zenon DEF Nue!Either!PurseNext, Nue!Amounts, Nue!Zusd!Amounts, Nue!Either!Amounts
  <2> QED BY <2>1, <2>2, <2>3, NueCallIsPlain, PlainIsPlain, Zenon DEF Nue!Next
<1>3. NueIInv => Nue!NothingLeftBehind
  BY Zenon DEF NueIInv
<1> QED BY <1>1, <1>2, <1>3, InitNueIInv, NextNueIInv, PTL DEF Nue!Spec, Nue!NueIsPlain,
                                                               Nue!Either!PurseSpec

(***************************************************************************)
(* A call in DLLR leaves the caller's ZUSD alone, but for the pending debt *)
(* that closeNueTrove does not convert.                                    *)
(***************************************************************************)
THEOREM NueCallsSpareZusd ==
  ASSUME Nue!Assumptions
  PROVE  Nue!Spec => Nue!NueSparesZusd
<1> DEFINE Spares == IF debt > 0 /\ debt' = 0 THEN zusd' >= zusd - pending ELSE zusd' >= zusd
<1>1. ASSUME NueIInv, Nue!NueCall PROVE Spares
  <2> USE <1>1 DEF NueIInv, Nue!Assumptions, Nue!Amounts, Nue!Zusd!Amounts, Nue!Fees,
                   Nue!redeemZusdFromDllr, Nue!Zusd!owed, Nue!Zusd!net
  <2>1. ASSUME NEW a \in Nue!Amounts, NEW fee \in Nue!Fees, Nue!openNueTrove(a, fee)
        PROVE Spares
    BY <2>1 DEF Nue!openNueTrove, Nue!Zusd!openTrove
  <2>2. ASSUME NEW a \in Nue!Amounts \cup {0}, NEW fee \in Nue!Fees,
               Nue!adjustNueTroveBorrowing(a, fee)
        PROVE Spares
    BY <2>2 DEF Nue!adjustNueTroveBorrowing, Nue!Zusd!borrow
  <2>3. ASSUME NEW a \in Nue!Amounts, Nue!adjustNueTroveRepaying(a) PROVE Spares
    BY <2>3 DEF Nue!adjustNueTroveRepaying, Nue!Zusd!repay
  <2>4. ASSUME NEW a \in Nue!Amounts, Nue!provideToSpFromDLLR(a) PROVE Spares
    BY <2>4 DEF Nue!provideToSpFromDLLR, Nue!Zusd!provideToSP
  <2>5. ASSUME NEW a \in Nue!Amounts, Nue!withdrawFromSpAndConvertToDLLR(a) PROVE Spares
    BY <2>5 DEF Nue!withdrawFromSpAndConvertToDLLR, Nue!Zusd!withdrawFromSP
  <2>6. ASSUME NEW a \in Nue!Amounts, NEW lot \in Nue!Amounts,
               NEW own \in Nue!Amounts \cup {0}, Nue!redeemCollateralViaDLLR(a, lot, own)
        PROVE Spares
    BY <2>6 DEF Nue!redeemCollateralViaDLLR, Nue!Zusd!redeemCollateral
  <2>7. ASSUME Nue!closeNueTrove PROVE Spares
    BY <2>7 DEF Nue!closeNueTrove, Nue!Zusd!closeTrove
  <2> QED BY <2>1, <2>2, <2>3, <2>4, <2>5, <2>6, <2>7, Zenon DEF Nue!NueCall
<1>2. NueIInv => [Nue!NueCall => Spares]_(Nue!vars)
  BY <1>1, Zenon
<1> HIDE DEF Spares
<1>3. Nue!Spec => [][Nue!NueCall => Spares]_(Nue!vars)
  BY <1>2, InitNueIInv, NextNueIInv, PTL DEF Nue!Spec
<1> QED BY <1>3, Zenon DEF Nue!NueSparesZusd, Spares
=============================================================================
