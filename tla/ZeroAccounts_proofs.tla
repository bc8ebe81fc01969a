------------------------- MODULE ZeroAccounts_proofs -------------------------
(***************************************************************************)
(* The accounts of ZeroSystem, for any number of borrowers, any prices and  *)
(* any amounts: the pools hold what the troves are recorded with, the ZUSD  *)
(* in circulation is owed by someone, stakes add up, rewards and surplus    *)
(* are covered.  First sums over finite sets, then the inductive invariant, *)
(* and the operations of borrowers, depositors and redeemers that keep it.  *)
(***************************************************************************)
EXTENDS ZeroSystem_proofs

-----------------------------------------------------------------------------
(* Sums over finite sets *)

(* f holds the sum of v over every subset of S, as the fold of SumFunction *)
(* computes it, one element picked after the other.                        *)
Pick(s) == CHOOSE x \in s : TRUE
Summing(f, v, S) == f = [s \in SUBSET S |-> IF s = {} THEN 0 ELSE v[Pick(s)] + f[s \ {Pick(s)}]]

IntSumming(f, v, S) ==
    f \in [SUBSET S -> Int] /\ v \in [S -> Int] /\ Summing(f, v, S)

(* Among some subsets of a finite set one is smallest. *)
LEMMA SmallestSet ==
    ASSUME NEW S, IsFiniteSet(S), NEW T, T \subseteq SUBSET S, T # {}
    PROVE  \E s \in T : \A r \in T : r \subseteq s => r = s
<1>1. FiniteSubsetsOf(S) = SUBSET S
  BY FS_FiniteSubsetsOfFinite, Zenon
<1>2. IsWellFoundedOn(StrictSubsetOrdering(S), SUBSET S)
  BY <1>1, FS_StrictSubsetOrderingWellFounded, Zenon
<1>3. PICK s \in T : \A r \in T : ~(<<r, s>> \in StrictSubsetOrdering(S))
  BY <1>2, WFMin, Zenon
<1> QED
  BY <1>3, Zenon DEF StrictSubsetOrdering

(* The fold is well defined on a finite set. *)
LEMMA SummingExists ==
    ASSUME NEW S, IsFiniteSet(S), NEW v \in [S -> Int]
    PROVE  \E f \in [SUBSET S -> Int] : Summing(f, v, S)
<1> DEFINE Upto(n) == {s \in SUBSET S : Cardinality(s) <= n}
           Good(f, n) == f = [s \in Upto(n) |-> IF s = {} THEN 0
                                                ELSE v[Pick(s)] + f[s \ {Pick(s)}]]
           T == {n \in Nat : ~\E f \in [Upto(n) -> Int] : Good(f, n)}
<1>1. \A s \in SUBSET S : IsFiniteSet(s) /\ Cardinality(s) \in Nat
  BY FS_Subset, FS_CardinalityType, Zenon
<1>2. ASSUME NEW s \in SUBSET S, s # {}
      PROVE  /\ Pick(s) \in s /\ Pick(s) \in S /\ s \ {Pick(s)} \in SUBSET S
             /\ Cardinality(s \ {Pick(s)}) = Cardinality(s) - 1
  <2>1. Pick(s) \in s
    BY <1>2, Zenon DEF Pick
  <2> QED
    BY <1>1, <2>1, FS_RemoveElement, Zenon
<1>3. 0 \notin T
  <2>1. Upto(0) = {{}}
    BY <1>1, FS_EmptySet
  <2> DEFINE f == [s \in Upto(0) |-> 0]
  <2>2. f \in [Upto(0) -> Int] /\ Good(f, 0)
    BY <2>1
  <2> QED
    BY <2>2, Zenon
<1>4. ASSUME NEW n \in Nat, n \notin T
      PROVE  n + 1 \notin T
  <2>1. PICK f \in [Upto(n) -> Int] : Good(f, n)
    BY <1>4, Zenon
  <2> DEFINE g == [s \in Upto(n + 1) |-> IF s = {} THEN 0 ELSE v[Pick(s)] + f[s \ {Pick(s)}]]
  <2>2. \A s \in Upto(n + 1) : s # {} => s \ {Pick(s)} \in Upto(n)
    BY <1>1, <1>2
  <2>3. g \in [Upto(n + 1) -> Int]
    BY <1>2, <2>2
  <2>4. \A s \in Upto(n) : s \in Upto(n + 1) /\ g[s] = f[s]
    <3> SUFFICES ASSUME NEW s \in Upto(n) PROVE s \in Upto(n + 1) /\ g[s] = f[s]
      BY Zenon
    <3>1. s \in Upto(n + 1)
      BY <1>1
    <3>2. f[s] = IF s = {} THEN 0 ELSE v[Pick(s)] + f[s \ {Pick(s)}]
      <4> HIDE DEF Upto
      <4> QED
        BY <2>1, Zenon
    <3> HIDE DEF Upto
    <3> QED
      BY <3>1, <3>2, Zenon
  <2>5. Good(g, n + 1)
    BY <2>2, <2>4, Zenon
  <2> QED
    BY <2>3, <2>5, Zenon
<1>5. T = {}
  <2> HIDE DEF T
  <2> SUFFICES ASSUME T # {} PROVE FALSE
    BY Zenon
  <2>0. T \subseteq Nat
    BY Zenon DEF T
  <2>1. PICK m \in T : \A n \in T : ~ (<<n, m>> \in OpToRel(<, Nat))
    BY <2>0, NatLessThanWellFounded, WFMin, Zenon
  <2>2. \A n \in T : ~ (n < m)
    BY <2>0, <2>1, Zenon DEF OpToRel
  <2>3. m # 0 /\ m \in Nat
    BY <1>3, <2>0, Zenon
  <2>4. m - 1 \in Nat /\ m - 1 \notin T /\ (m - 1) + 1 = m
    BY <2>2, <2>3
  <2> QED
    BY <1>4, <2>4, Zenon
<1> DEFINE n == Cardinality(S)
<1>6. n \in Nat /\ Upto(n) = SUBSET S
  BY <1>1, FS_Subset, Zenon
<1>7. PICK f \in [Upto(n) -> Int] : Good(f, n)
  <2> HIDE DEF n
  <2> QED
    BY <1>5, <1>6, Zenon
<1> QED
  BY <1>6, <1>7, Zenon DEF Summing

(* The empty sum. *)
LEMMA SummingEmpty ==
    ASSUME NEW S, NEW v, NEW f, Summing(f, v, S)
    PROVE  f[{}] = 0
<1>1. {} \in SUBSET S
  BY Zenon
<1> QED
  BY <1>1, Zenon DEF Summing

(* What Summing says of one subset. *)
LEMMA SummingStep ==
    ASSUME NEW S, IsFiniteSet(S), NEW v \in [S -> Int], NEW f, Summing(f, v, S),
           NEW s \in SUBSET S
    PROVE  /\ s = {} => f[s] = 0
           /\ s # {} => /\ Pick(s) \in s /\ s \ {Pick(s)} \in SUBSET S
                        /\ s \ {Pick(s)} # s
                        /\ f[s] = v[Pick(s)] + f[s \ {Pick(s)}]
<1>1. f[s] = IF s = {} THEN 0 ELSE v[Pick(s)] + f[s \ {Pick(s)}]
  BY Zenon DEF Summing
<1>2. s # {} => Pick(s) \in s
  BY Zenon DEF Pick
<1> QED
  BY <1>1, <1>2, Zenon

(* Two sums agree on a subset on which the summands agree. *)
LEMMA SummingAgrees ==
    ASSUME NEW S, IsFiniteSet(S), NEW v \in [S -> Int], NEW w \in [S -> Int],
           NEW f, Summing(f, v, S), NEW g, Summing(g, w, S),
           NEW s \in SUBSET S, \A x \in s : v[x] = w[x]
    PROVE  f[s] = g[s]
<1> DEFINE T == {r \in SUBSET S : r \subseteq s /\ f[r] # g[r]}
<1> SUFFICES ASSUME T # {} PROVE FALSE
  BY Zenon
<1>1. PICK r \in T : \A q \in T : q \subseteq r => q = r
  <2>1. T \subseteq SUBSET S
    BY Zenon
  <2> HIDE DEF T
  <2> QED
    BY <2>1, SmallestSet
<1>2. r # {}
  <2>1. f[{}] = 0 /\ g[{}] = 0
    BY SummingEmpty, Zenon
  <2> QED
    BY <2>1, Zenon
<1> DEFINE x == Pick(r)
           q == r \ {x}
<1>3. /\ x \in r /\ q \in SUBSET S /\ q # r
      /\ f[r] = v[x] + f[q] /\ g[r] = w[x] + g[q]
  BY <1>2, SummingStep
<1>4. f[q] = g[q] /\ v[x] = w[x]
  BY <1>1, <1>3, Zenon
<1> QED
  BY <1>3, <1>4, Zenon

(* SumFunction is the sum over the whole domain. *)
LEMMA SumIsSumming ==
    ASSUME NEW S, IsFiniteSet(S), NEW v \in [S -> Int]
    PROVE  \E f \in [SUBSET S -> Int] : Summing(f, v, S) /\ SumFunction(v) = f[S]
<1>1. PICK f \in [SUBSET S -> Int] : Summing(f, v, S)
  BY SummingExists, Zenon
<1> DEFINE g == CHOOSE h : Summing(h, v, S)
<1>2. Summing(g, v, S)
  BY <1>1, Zenon
<1>3. SumFunction(v) = g[S]
  BY Zenon DEF SumFunction, SumFunctionOnSet, FoldFunctionOnSet, MapThenFoldSet, Summing, Pick
<1>4. g[S] = f[S]
  BY <1>1, <1>2, SummingAgrees
<1> QED
  BY <1>1, <1>3, <1>4, Zenon

(* Any element may be taken out first. *)
LEMMA SummingAny ==
    ASSUME NEW S, IsFiniteSet(S), NEW v, NEW f, IntSumming(f, v, S), NEW x \in S
    PROVE  f[S] = v[x] + f[S \ {x}] /\ f[S \ {x}] \in Int
<1>0. S \in SUBSET S /\ S \ {x} \in SUBSET S
  BY Zenon
<1> USE DEF IntSumming
<1> DEFINE T == {r \in SUBSET S : \E y \in r : f[r] # v[y] + f[r \ {y}]}
<1> SUFFICES ASSUME T # {} PROVE FALSE
  <2>1. S \notin T => f[S] = v[x] + f[S \ {x}]
    BY <1>0, Zenon
  <2> QED
    BY <1>0, <2>1, Zenon
<1>1. PICK r \in T : \A q \in T : q \subseteq r => q = r
  <2>1. T \subseteq SUBSET S
    BY Zenon
  <2> HIDE DEF T
  <2> QED
    BY <2>1, SmallestSet
<1>2. PICK y \in r : f[r] # v[y] + f[r \ {y}]
  BY Zenon
<1> DEFINE p == Pick(r)
<1>3. p \in r /\ f[r] = v[p] + f[r \ {p}] /\ r \in SUBSET S
  BY <1>2, SummingStep
<1>4. p # y
  BY <1>2, <1>3, Zenon
<1>5. f[r \ {p}] = v[y] + f[(r \ {p}) \ {y}]
  <2>1. r \ {p} \notin T /\ y \in r \ {p} /\ r \ {p} \in SUBSET S
    BY <1>1, <1>3, <1>4, Zenon
  <2> QED
    BY <2>1, Zenon
<1>6. f[r \ {y}] = v[p] + f[(r \ {y}) \ {p}]
  <2>1. r \ {y} \notin T /\ p \in r \ {y} /\ r \ {y} \in SUBSET S
    BY <1>1, <1>2, <1>3, <1>4, Zenon
  <2> QED
    BY <2>1, Zenon
<1>7. (r \ {p}) \ {y} = (r \ {y}) \ {p} /\ (r \ {p}) \ {y} \in SUBSET S
  BY <1>3, Zenon
<1>8. v[p] \in Int /\ v[y] \in Int /\ f[(r \ {p}) \ {y}] \in Int
  BY <1>2, <1>3, <1>7, Zenon
<1> DEFINE a == f[(r \ {p}) \ {y}]
           c == f[r \ {p}]
           d == f[r \ {y}]
<1>9. f[r] = v[p] + c /\ c = v[y] + a /\ d = v[p] + a /\ f[r] # v[y] + d
  BY <1>2, <1>3, <1>5, <1>6, <1>7, Zenon
<1>10. v[p] \in Int /\ v[y] \in Int /\ a \in Int
  BY <1>8, Zenon
<1> HIDE DEF p, a, c, d
<1> QED
  BY ONLY <1>9, <1>10
-----------------------------------------------------------------------------
(* Facts about SumFunction *)

(* A sum of integers is one. *)
LEMMA SumInt ==
    ASSUME NEW S, IsFiniteSet(S), NEW v \in [S -> Int]
    PROVE  SumFunction(v) \in Int
<1>1. PICK f \in [SUBSET S -> Int] : SumFunction(v) = f[S]
  BY SumIsSumming, Zenon
<1>2. S \in SUBSET S
  BY Zenon
<1> QED
  BY <1>1, <1>2

(* The sum after one summand changed. *)
LEMMA SumUpdate ==
    ASSUME NEW S, IsFiniteSet(S), NEW v, v \in [S -> Int], NEW w, w \in [S -> Int],
           NEW x \in S, \A y \in S \ {x} : w[y] = v[y]
    PROVE  SumFunction(w) = SumFunction(v) - v[x] + w[x]
<1>1. PICK f \in [SUBSET S -> Int] : Summing(f, v, S) /\ SumFunction(v) = f[S]
  BY SumIsSumming, Zenon
<1>2. PICK g \in [SUBSET S -> Int] : Summing(g, w, S) /\ SumFunction(w) = g[S]
  BY SumIsSumming, Zenon
<1>3. S \in SUBSET S /\ S \ {x} \in SUBSET S
  BY Zenon
<1>4. f[S] = v[x] + f[S \ {x}]
  <2>1. IntSumming(f, v, S)
    BY <1>1, Zenon DEF IntSumming
  <2> QED
    BY <2>1, SummingAny
<1>5. g[S] = w[x] + g[S \ {x}]
  <2>1. IntSumming(g, w, S)
    BY <1>2, Zenon DEF IntSumming
  <2> QED
    BY <2>1, SummingAny
<1>6. f[S \ {x}] = g[S \ {x}]
  BY <1>1, <1>2, <1>3, SummingAgrees
<1>7. f[S \ {x}] \in Int /\ v[x] \in Int /\ w[x] \in Int
  BY <1>3, Zenon
<1> QED
  BY <1>1, <1>2, <1>4, <1>5, <1>6, <1>7

(* Sums are linear. *)
LEMMA SumLinear ==
    ASSUME NEW S, IsFiniteSet(S), NEW u \in [S -> Int], NEW v \in [S -> Int],
           NEW w \in [S -> Int], NEW k \in Int, \A x \in S : u[x] = v[x] + k * w[x]
    PROVE  SumFunction(u) = SumFunction(v) + k * SumFunction(w)
<1>1. PICK f \in [SUBSET S -> Int] : Summing(f, u, S) /\ SumFunction(u) = f[S]
  BY SumIsSumming, Zenon
<1>2. PICK g \in [SUBSET S -> Int] : Summing(g, v, S) /\ SumFunction(v) = g[S]
  BY SumIsSumming, Zenon
<1>3. PICK h \in [SUBSET S -> Int] : Summing(h, w, S) /\ SumFunction(w) = h[S]
  BY SumIsSumming, Zenon
<1> DEFINE T == {r \in SUBSET S : f[r] # g[r] + k * h[r]}
<1>4. T = {}
  <2> SUFFICES ASSUME T # {} PROVE FALSE
    BY Zenon
  <2>1. PICK r \in T : \A q \in T : q \subseteq r => q = r
    <3>1. T \subseteq SUBSET S
      BY Zenon
    <3> HIDE DEF T
    <3> QED
      BY <3>1, SmallestSet
  <2>2. r # {}
    <3>1. f[{}] = 0 /\ g[{}] = 0 /\ h[{}] = 0
      BY <1>1, <1>2, <1>3, SummingEmpty, Zenon
    <3>2. f[r] # g[r] + k * h[r] /\ 0 = 0 + k * 0
      OBVIOUS
    <3> QED
      BY ONLY <3>1, <3>2, Zenon
  <2> DEFINE x == Pick(r)
             q == r \ {x}
  <2>3. /\ x \in r /\ q \in SUBSET S /\ q # r
        /\ f[r] = u[x] + f[q] /\ g[r] = v[x] + g[q] /\ h[r] = w[x] + h[q]
    BY <1>1, <1>2, <1>3, <2>2, SummingStep
  <2>4. f[q] = g[q] + k * h[q] /\ u[x] = v[x] + k * w[x]
    BY <2>1, <2>3
  <2>5. /\ f[q] \in Int /\ g[q] \in Int /\ h[q] \in Int
        /\ u[x] \in Int /\ v[x] \in Int /\ w[x] \in Int
    BY <2>3, Zenon
  <2>6. \A a, b \in Int : k * (a + b) = k * a + k * b /\ k * a \in Int /\ k * b \in Int
    OBVIOUS
  <2>7. f[r] = g[r] + k * h[r]
    <3> HIDE DEF x, q
    <3> QED
      BY <2>3, <2>4, <2>5, <2>6
  <2> QED
    BY <2>7, Zenon
<1>5. S \in SUBSET S
  BY Zenon
<1> QED
  BY <1>1, <1>2, <1>3, <1>4, <1>5, Zenon

(* A sum of natural numbers is one, and at least each summand. *)
LEMMA SumNat ==
    ASSUME NEW S, IsFiniteSet(S), NEW v \in [S -> Nat]
    PROVE  SumFunction(v) \in Nat /\ \A x \in S : v[x] <= SumFunction(v)
<1>0. v \in [S -> Int]
  OBVIOUS
<1>1. PICK f \in [SUBSET S -> Int] : Summing(f, v, S) /\ SumFunction(v) = f[S]
  BY <1>0, SumIsSumming, Zenon
<1> DEFINE T == {r \in SUBSET S : ~(f[r] >= 0)}
<1>2. T = {}
  <2> SUFFICES ASSUME T # {} PROVE FALSE
    BY Zenon
  <2>1. PICK r \in T : \A q \in T : q \subseteq r => q = r
    <3>1. T \subseteq SUBSET S
      BY Zenon
    <3> HIDE DEF T
    <3> QED
      BY <3>1, SmallestSet
  <2>2. r # {}
    <3>1. f[{}] = 0
      BY <1>1, SummingEmpty, Zenon
    <3>2. ~(f[r] >= 0) /\ 0 >= 0
      OBVIOUS
    <3> QED
      BY ONLY <3>1, <3>2, Zenon
  <2> DEFINE x == Pick(r)
             q == r \ {x}
  <2>3. x \in r /\ q \in SUBSET S /\ q # r /\ f[r] = v[x] + f[q]
    BY <1>0, <1>1, <2>2, SummingStep
  <2>4. f[q] >= 0 /\ f[q] \in Int /\ v[x] \in Nat
    BY <2>1, <2>3, Zenon
  <2> QED
    BY <2>3, <2>4
<1>3. S \in SUBSET S /\ \A x \in S : S \ {x} \in SUBSET S
  BY Zenon
<1>4. ASSUME NEW x \in S PROVE f[S] = v[x] + f[S \ {x}]
  <2>1. IntSumming(f, v, S)
    BY <1>0, <1>1, Zenon DEF IntSumming
  <2> QED
    BY <2>1, SummingAny
<1>5. f[S] \in Nat /\ \A x \in S : f[S \ {x}] \in Nat
  BY <1>2, <1>3
<1>6. ASSUME NEW x \in S PROVE v[x] <= f[S]
  <2> DEFINE rest == f[S \ {x}]
  <2>1. f[S] = v[x] + rest /\ rest \in Nat /\ v[x] \in Nat
    BY <1>4, <1>5, Zenon
  <2> HIDE DEF rest
  <2> QED
    BY ONLY <2>1
<1> QED
  BY <1>1, <1>5, <1>6, Zenon

(* Nothing adds up to nothing. *)
LEMMA SumZero ==
    ASSUME NEW S, IsFiniteSet(S), NEW v \in [S -> Int], \A x \in S : v[x] = 0
    PROVE  SumFunction(v) = 0
<1>1. \A x \in S : v[x] = v[x] + 1 * v[x]
  OBVIOUS
<1>2. SumFunction(v) = SumFunction(v) + 1 * SumFunction(v)
  BY <1>1, SumLinear
<1> QED
  BY <1>2, SumInt

-----------------------------------------------------------------------------
(* The accounts *)

(* The amounts of a trove, next to the accumulators r: its snapshots are   *)
(* not ahead of them, an active trove owes the minimum, a closed one has   *)
(* nothing.                                                                *)
Sound(t, r) ==
    /\ t.coll \in Nat /\ t.debt \in Nat /\ t.stake \in Nat
    /\ t.ETH \in Nat /\ t.ETH <= r.L_ETH
    /\ t.ZUSDDebt \in Nat /\ t.ZUSDDebt <= r.L_ZUSDDebt
    /\ IF t.status = "active" THEN t.debt >= ZUSD_GAS_COMPENSATION + MIN_NET_DEBT
       ELSE t.coll = 0 /\ t.debt = 0 /\ t.stake = 0

TrovesSound(Tr, r) == \A b \in Borrowers : Sound(Tr[b], r)

RewardsTyped(r) ==
    r.L_ETH \in Nat /\ r.L_ZUSDDebt \in Nat /\ r.ETHError \in Nat /\ r.ZUSDDebtError \in Nat

StakesTyped(st) ==
    /\ st = [total |-> st.total, totalSnapshot |-> st.totalSnapshot,
             collateralSnapshot |-> st.collateralSnapshot]
    /\ st.total \in Nat /\ st.totalSnapshot \in Nat /\ st.collateralSnapshot \in Nat

(* The columns that are summed up. *)
Colls(Tr) == [b \in Borrowers |-> Tr[b].coll]
Debts(Tr) == [b \in Borrowers |-> Tr[b].debt]
Stakes(Tr) == [b \in Borrowers |-> Tr[b].stake]
Shares(Tr, r) == [b \in Borrowers |-> Tr[b].stake * (r.L_ETH - Tr[b].ETH)]

(* The ActivePool, with collateral c and debt d not yet settled. *)
PoolHolds(Tr, ap, c, d) ==
    /\ ap.ETH = SumFunction(Colls(Tr)) + c
    /\ ap.ZUSDDebt = SumFunction(Debts(Tr)) + d

(* The DefaultPool has the collateral of all shares, and of the error that *)
(* the next redistribution shares out.                                     *)
SharesCovered(Tr, r, dp) ==
    /\ dp.ETH \in Nat /\ dp.ZUSDDebt \in Int
    /\ SumFunction(Shares(Tr, r)) + r.ETHError <= DECIMAL_PRECISION * dp.ETH

(* The CollSurplusPool, with s on its way to it. *)
SurplusHeld(su, s) ==
    /\ su = [ETH |-> su.ETH, balances |-> su.balances]
    /\ su.ETH \in Nat /\ su.balances \in [Borrowers -> Nat]
    /\ su.ETH + s = SumFunction(su.balances)

(* The ZUSD that is held is the debt of the pools. *)
Circulates(z, ap, dp) ==
    /\ z.users \in Nat /\ z.stabilityPool \in Nat
    /\ z.users + z.gasPool + z.stabilityPool = ap.ZUSDDebt + dp.ZUSDDebt

Accounts(Tr, st, r, ap, dp, su, z, c, d, s) ==
    /\ TrovesSound(Tr, r) /\ RewardsTyped(r) /\ StakesTyped(st)
    /\ st.total = SumFunction(Stakes(Tr))
    /\ PoolHolds(Tr, ap, c, d)
    /\ SharesCovered(Tr, r, dp)
    /\ SurplusHeld(su, s)
    /\ Circulates(z, ap, dp)

SavedAccounts(s) ==
    Accounts(s.Troves, s.stakes, s.rewards, s.activePool, s.defaultPool, s.surplus, s.zusd, 0, 0, 0)

(* What liquidations yield is split whole, and no collateral goes where no *)
(* debt goes.                                                              *)
Split(v) ==
    /\ v.entireTroveDebt \in Nat /\ v.entireTroveColl \in Nat
    /\ v.collGasCompensation \in Nat /\ v.ZUSDGasCompensation \in Nat
    /\ v.debtToOffset \in Nat /\ v.collToSendToSP \in Nat
    /\ v.debtToRedistribute \in Nat /\ v.collToRedistribute \in Nat
    /\ v.collSurplus \in Nat
    /\ v.entireTroveDebt = v.debtToOffset + v.debtToRedistribute
    /\ v.entireTroveColl = v.collToSendToSP + v.collToRedistribute
                             + v.collSurplus + v.collGasCompensation
    /\ v.debtToOffset = 0 => v.collToSendToSP = 0
    /\ v.debtToRedistribute = 0 => v.collToRedistribute = 0

(* The totals of a liquidation, with `remaining` of the deposits `pool`    *)
(* not yet used.                                                           *)
Tallied(totals, remaining, pool) ==
    Split(totals) /\ remaining \in Nat /\ remaining + totals.debtToOffset = pool

(* The redeemer can pay for what was drawn, and for the rest. *)
Affordable(t, users) ==
    /\ t.totalETHDrawn \in Nat /\ t.totalZUSDToRedeem \in Nat /\ t.remainingZUSD \in Nat
    /\ t.totalZUSDToRedeem + t.remainingZUSD <= users

AInv ==
    /\ price \in Prices
    /\ Accounts(Troves, stakes, rewards, activePool, defaultPool, surplus, zusd,
                UnsettledColl, UnsettledDebt, UnsettledSurplus)
    /\ Liquidating => /\ Tallied(tx.totals, tx.remainingZUSDInStabPool, zusd.stabilityPool)
                      /\ SavedAccounts(tx.saved)
    /\ Redeeming => Affordable(tx, zusd.users) /\ SavedAccounts(tx.saved)
-----------------------------------------------------------------------------
(* Arithmetic *)

(* Division rounds down. *)
LEMMA RoundsDown ==
    ASSUME NEW a \in Nat, NEW n \in Nat \ {0}
    PROVE  /\ a \div n \in Nat
           /\ n * (a \div n) <= a
           /\ a < n * (a \div n) + n
OBVIOUS

(* The product of two amounts is one. *)
LEMMA TimesNat ==
    ASSUME NEW a \in Nat, NEW n \in Nat
    PROVE  a * n \in Nat
OBVIOUS

-----------------------------------------------------------------------------
(* Sums over the troves *)

SameAmounts(t, u) ==
    /\ u.status = t.status /\ u.coll = t.coll /\ u.debt = t.debt /\ u.stake = t.stake
    /\ u.ETH = t.ETH /\ u.ZUSDDebt = t.ZUSDDebt

(* The columns hold amounts. *)
LEMMA ColumnsTyped ==
    ASSUME NEW Tr, NEW r, TrovesSound(Tr, r), RewardsTyped(r)
    PROVE  /\ Colls(Tr) \in [Borrowers -> Nat] /\ Debts(Tr) \in [Borrowers -> Nat]
           /\ Stakes(Tr) \in [Borrowers -> Nat] /\ Shares(Tr, r) \in [Borrowers -> Nat]
<1>1. \A b \in Borrowers : /\ Tr[b].coll \in Nat /\ Tr[b].debt \in Nat /\ Tr[b].stake \in Nat
                           /\ r.L_ETH - Tr[b].ETH \in Nat
  BY DEF TrovesSound, Sound, RewardsTyped
<1>2. \A b \in Borrowers : Tr[b].stake * (r.L_ETH - Tr[b].ETH) \in Nat
  BY <1>1, TimesNat, Zenon
<1> QED
  BY <1>1, <1>2, Zenon DEF Colls, Debts, Stakes, Shares

(* So do their sums. *)
LEMMA SumsTyped ==
    ASSUME NEW Tr, NEW r, TrovesSound(Tr, r), RewardsTyped(r)
    PROVE  /\ SumFunction(Colls(Tr)) \in Nat /\ SumFunction(Debts(Tr)) \in Nat
           /\ SumFunction(Stakes(Tr)) \in Nat /\ SumFunction(Shares(Tr, r)) \in Nat
BY ColumnsTyped, SumNat, BorrowersAssumption, Zenon

(* A column whose entry for b alone changes. *)
LEMMA ColumnAfter ==
    ASSUME NEW v \in [Borrowers -> Nat], NEW w \in [Borrowers -> Nat], NEW b \in Borrowers,
           \A a \in Borrowers \ {b} : w[a] = v[a]
    PROVE  SumFunction(w) = SumFunction(v) - v[b] + w[b]
<1>1. v \in [Borrowers -> Int] /\ w \in [Borrowers -> Int]
  OBVIOUS
<1> QED
  BY <1>1, SumUpdate, BorrowersAssumption

(* The sums when the trove of b alone changes. *)
LEMMA SumsAfter ==
    ASSUME NEW Tr, NEW Us, NEW r, TrovesSound(Tr, r), TrovesSound(Us, r), RewardsTyped(r),
           NEW b \in Borrowers, \A a \in Borrowers \ {b} : SameAmounts(Tr[a], Us[a])
    PROVE  /\ SumFunction(Colls(Us)) = SumFunction(Colls(Tr)) - Tr[b].coll + Us[b].coll
           /\ SumFunction(Debts(Us)) = SumFunction(Debts(Tr)) - Tr[b].debt + Us[b].debt
           /\ SumFunction(Stakes(Us)) = SumFunction(Stakes(Tr)) - Tr[b].stake + Us[b].stake
           /\ SumFunction(Shares(Us, r)) = SumFunction(Shares(Tr, r))
                - Tr[b].stake * (r.L_ETH - Tr[b].ETH) + Us[b].stake * (r.L_ETH - Us[b].ETH)
<1>1. /\ Colls(Tr) \in [Borrowers -> Nat] /\ Debts(Tr) \in [Borrowers -> Nat]
      /\ Stakes(Tr) \in [Borrowers -> Nat] /\ Shares(Tr, r) \in [Borrowers -> Nat]
  BY ColumnsTyped, Zenon
<1>2. /\ Colls(Us) \in [Borrowers -> Nat] /\ Debts(Us) \in [Borrowers -> Nat]
      /\ Stakes(Us) \in [Borrowers -> Nat] /\ Shares(Us, r) \in [Borrowers -> Nat]
  BY ColumnsTyped, Zenon
<1>3. \A a \in Borrowers :
         /\ Colls(Tr)[a] = Tr[a].coll /\ Debts(Tr)[a] = Tr[a].debt /\ Stakes(Tr)[a] = Tr[a].stake
         /\ Shares(Tr, r)[a] = Tr[a].stake * (r.L_ETH - Tr[a].ETH)
         /\ Colls(Us)[a] = Us[a].coll /\ Debts(Us)[a] = Us[a].debt /\ Stakes(Us)[a] = Us[a].stake
         /\ Shares(Us, r)[a] = Us[a].stake * (r.L_ETH - Us[a].ETH)
  BY Zenon DEF Colls, Debts, Stakes, Shares
<1>4. \A a \in Borrowers \ {b} :
         /\ Colls(Us)[a] = Colls(Tr)[a] /\ Debts(Us)[a] = Debts(Tr)[a]
         /\ Stakes(Us)[a] = Stakes(Tr)[a] /\ Shares(Us, r)[a] = Shares(Tr, r)[a]
  BY <1>3 DEF SameAmounts
<1>5. SumFunction(Colls(Us)) = SumFunction(Colls(Tr)) - Colls(Tr)[b] + Colls(Us)[b]
  BY <1>1, <1>2, <1>4, ColumnAfter, Zenon
<1>6. SumFunction(Debts(Us)) = SumFunction(Debts(Tr)) - Debts(Tr)[b] + Debts(Us)[b]
  BY <1>1, <1>2, <1>4, ColumnAfter, Zenon
<1>7. SumFunction(Stakes(Us)) = SumFunction(Stakes(Tr)) - Stakes(Tr)[b] + Stakes(Us)[b]
  BY <1>1, <1>2, <1>4, ColumnAfter, Zenon
<1>8. SumFunction(Shares(Us, r)) = SumFunction(Shares(Tr, r)) - Shares(Tr, r)[b] + Shares(Us, r)[b]
  BY <1>1, <1>2, <1>4, ColumnAfter, Zenon
<1> QED
  BY ONLY <1>3, <1>5, <1>6, <1>7, <1>8, b \in Borrowers, Zenon

(* One trove changes.  Its rewards e and d are applied or taken over, so   *)
(* that it has no share left under its old stake or its new one; the       *)
(* ActivePool follows the trove and what is left to settle.                *)
TroveStep(b, e, f, c, d, c1, d1, s1) ==
    /\ b \in Borrowers
    /\ \A a \in Borrowers \ {b} : SameAmounts(Troves[a], Troves'[a])
    /\ Sound(Troves'[b], rewards)
    /\ Troves'[b].stake = 0 \/ Troves'[b].ETH = rewards.L_ETH
    /\ rewards' = rewards
    /\ stakes' = [stakes EXCEPT !.total = stakes.total - Troves[b].stake + Troves'[b].stake]
    /\ e \in Nat /\ f \in Int
    /\ DECIMAL_PRECISION * e <= Troves[b].stake * (rewards.L_ETH - Troves[b].ETH)
    /\ defaultPool'.ETH = defaultPool.ETH - e
    /\ defaultPool'.ZUSDDebt = defaultPool.ZUSDDebt - f
    /\ c \in Int /\ d \in Int /\ c1 \in Int /\ d1 \in Int
    /\ activePool'.ETH = activePool.ETH + ((Troves'[b].coll - Troves[b].coll) + (c1 - c))
    /\ activePool'.ZUSDDebt
         = activePool.ZUSDDebt + ((Troves'[b].debt - Troves[b].debt) + (d1 - d))
    /\ SurplusHeld(surplus', s1)
    /\ zusd'.users \in Nat /\ zusd'.stabilityPool \in Nat
    /\ zusd'.users + zusd'.gasPool + zusd'.stabilityPool
         = activePool'.ZUSDDebt + defaultPool'.ZUSDDebt

(* Such a step keeps the accounts. *)
LEMMA AccountsAfter ==
    ASSUME NEW b, NEW e, NEW f, NEW c, NEW d, NEW s, NEW c1, NEW d1, NEW s1,
           Accounts(Troves, stakes, rewards, activePool, defaultPool, surplus, zusd, c, d, s),
           TroveStep(b, e, f, c, d, c1, d1, s1)
    PROVE  Accounts(Troves', stakes', rewards', activePool', defaultPool', surplus', zusd',
                    c1, d1, s1)
<1> USE DEF TroveStep
<1>1. /\ TrovesSound(Troves, rewards) /\ RewardsTyped(rewards) /\ StakesTyped(stakes)
      /\ stakes.total = SumFunction(Stakes(Troves))
      /\ PoolHolds(Troves, activePool, c, d)
      /\ SharesCovered(Troves, rewards, defaultPool)
  BY Zenon DEF Accounts
<1>2. TrovesSound(Troves', rewards)
  <2>1. ASSUME NEW a \in Borrowers, a # b
        PROVE  Sound(Troves'[a], rewards)
    <3>1. Sound(Troves[a], rewards) /\ SameAmounts(Troves[a], Troves'[a])
      BY <1>1, <2>1, Zenon DEF TrovesSound
    <3> QED
      BY <3>1, Zenon DEF Sound, SameAmounts
  <2> QED
    BY <2>1, Zenon DEF TrovesSound
<1> DEFINE share == Troves[b].stake * (rewards.L_ETH - Troves[b].ETH)
<1>3. /\ Troves[b].coll \in Nat /\ Troves[b].debt \in Nat /\ Troves[b].stake \in Nat
      /\ Troves'[b].coll \in Nat /\ Troves'[b].debt \in Nat /\ Troves'[b].stake \in Nat
      /\ share \in Nat /\ Troves'[b].ETH \in Nat /\ rewards.L_ETH \in Nat
  <2>1. Sound(Troves[b], rewards) /\ Sound(Troves'[b], rewards)
    BY <1>1, Zenon DEF TrovesSound
  <2>2. Troves[b].stake \in Nat /\ rewards.L_ETH - Troves[b].ETH \in Nat
    BY <1>1, <2>1 DEF Sound, RewardsTyped
  <2> QED
    BY <1>1, <2>1, <2>2, TimesNat, Zenon DEF Sound, RewardsTyped
<1>4. Troves'[b].stake * (rewards.L_ETH - Troves'[b].ETH) = 0
  BY <1>3
<1>5. /\ SumFunction(Colls(Troves)) \in Nat /\ SumFunction(Debts(Troves)) \in Nat
      /\ SumFunction(Stakes(Troves)) \in Nat /\ SumFunction(Shares(Troves, rewards)) \in Nat
  BY <1>1, SumsTyped, Zenon
<1>6. /\ SumFunction(Colls(Troves')) \in Nat /\ SumFunction(Debts(Troves')) \in Nat
      /\ SumFunction(Stakes(Troves')) \in Nat /\ SumFunction(Shares(Troves', rewards)) \in Nat
  BY <1>1, <1>2, SumsTyped, Zenon
<1>7. /\ SumFunction(Colls(Troves'))
           = SumFunction(Colls(Troves)) - Troves[b].coll + Troves'[b].coll
      /\ SumFunction(Debts(Troves'))
           = SumFunction(Debts(Troves)) - Troves[b].debt + Troves'[b].debt
      /\ SumFunction(Stakes(Troves'))
           = SumFunction(Stakes(Troves)) - Troves[b].stake + Troves'[b].stake
      /\ SumFunction(Shares(Troves', rewards)) = SumFunction(Shares(Troves, rewards))
           - share + Troves'[b].stake * (rewards.L_ETH - Troves'[b].ETH)
  BY <1>1, <1>2, SumsAfter
<1> HIDE DEF share
<1>8. PoolHolds(Troves', activePool', c1, d1)
  <2>1. activePool.ETH = SumFunction(Colls(Troves)) + c
        /\ activePool.ZUSDDebt = SumFunction(Debts(Troves)) + d
    BY <1>1, Zenon DEF PoolHolds
  <2>2. activePool'.ETH = SumFunction(Colls(Troves')) + c1
    BY <1>3, <1>5, <1>7, <2>1
  <2>3. activePool'.ZUSDDebt = SumFunction(Debts(Troves')) + d1
    BY <1>3, <1>5, <1>7, <2>1
  <2> QED
    BY <2>2, <2>3, Zenon DEF PoolHolds
<1>9. /\ StakesTyped(stakes') /\ stakes'.total = SumFunction(Stakes(Troves'))
  <2> DEFINE total == stakes.total - Troves[b].stake + Troves'[b].stake
  <2>1. total = SumFunction(Stakes(Troves')) /\ total \in Nat
    BY <1>1, <1>6, <1>7, Zenon
  <2>2. stakes' = [stakes EXCEPT !.total = total]
    BY Zenon
  <2> HIDE DEF total
  <2>3. stakes' = [total |-> total, totalSnapshot |-> stakes.totalSnapshot,
                   collateralSnapshot |-> stakes.collateralSnapshot]
    BY <1>1, <2>2, Zenon DEF StakesTyped
  <2> QED
    BY <1>1, <2>1, <2>3 DEF StakesTyped
<1>10. SharesCovered(Troves', rewards, defaultPool')
  <2>1. /\ defaultPool.ETH \in Nat /\ defaultPool.ZUSDDebt \in Int /\ rewards.ETHError \in Nat
        /\ SumFunction(Shares(Troves, rewards)) + rewards.ETHError
             <= DECIMAL_PRECISION * defaultPool.ETH
    BY <1>1, Zenon DEF SharesCovered, RewardsTyped
  <2>2. /\ defaultPool'.ETH = defaultPool.ETH - e
        /\ defaultPool'.ZUSDDebt = defaultPool.ZUSDDebt - f
    BY Zenon
  <2>3. SumFunction(Shares(Troves', rewards)) = SumFunction(Shares(Troves, rewards)) - share
    BY <1>3, <1>4, <1>5, <1>7
  <2>4. DECIMAL_PRECISION * e <= share
    BY Zenon DEF share
  <2>5. DECIMAL_PRECISION * (defaultPool.ETH - e)
          = DECIMAL_PRECISION * defaultPool.ETH - DECIMAL_PRECISION * e
    BY <2>1, LiquityBaseAssumption
  <2>6. DECIMAL_PRECISION * defaultPool.ETH \in Nat /\ DECIMAL_PRECISION * e \in Nat
    BY <2>1, LiquityBaseAssumption, TimesNat, Zenon
  <2>7. SumFunction(Shares(Troves', rewards)) + rewards.ETHError
          <= DECIMAL_PRECISION * (defaultPool.ETH - e)
    BY <1>3, <1>5, <2>1, <2>3, <2>4, <2>5, <2>6
  <2>8. defaultPool.ETH - e \in Nat
    <3>1. 0 <= DECIMAL_PRECISION * (defaultPool.ETH - e)
      BY <1>6, <2>1, <2>5, <2>6, <2>7
    <3>2. \A x \in Int, y \in Nat \ {0} : 0 <= y * x => x \in Nat
      OBVIOUS
    <3> QED
      BY <2>1, <3>1, <3>2, LiquityBaseAssumption
  <2> QED
    BY <2>1, <2>2, <2>7, <2>8 DEF SharesCovered
<1> QED
  BY <1>1, <1>2, <1>8, <1>9, <1>10, Zenon DEF Accounts, Circulates

-----------------------------------------------------------------------------
(* Pending rewards and stakes *)

(* A pending reward is the share, rounded down. *)
LEMMA PendingReward ==
    ASSUME NEW t, NEW L \in Nat, NEW snapshot \in Nat, snapshot <= L, t.stake \in Nat
    PROVE  /\ pendingOf(t, L, snapshot) \in Nat
           /\ DECIMAL_PRECISION * pendingOf(t, L, snapshot) <= t.stake * (L - snapshot)
<1> DEFINE share == t.stake * (L - snapshot)
<1>1. share \in Nat
  BY TimesNat
<1>2. DECIMAL_PRECISION \in Nat \ {0}
  BY LiquityBaseAssumption, Zenon
<1>3. CASE L - snapshot = 0 \/ t.status # "active"
  <2>1. pendingOf(t, L, snapshot) = 0
    BY <1>3, Zenon DEF pendingOf
  <2> HIDE DEF share
  <2>2. DECIMAL_PRECISION * 0 <= share
    BY <1>1, <1>2
  <2> QED
    BY <2>1, <2>2 DEF share
<1>4. CASE ~(L - snapshot = 0 \/ t.status # "active")
  <2>1. pendingOf(t, L, snapshot) = share \div DECIMAL_PRECISION
    BY <1>4, Zenon DEF pendingOf
  <2> HIDE DEF share
  <2> QED
    BY <1>1, <1>2, <2>1, RoundsDown, Zenon DEF share
<1> QED
  BY <1>3, <1>4, Zenon

(* _applyPendingRewards moves no more than the share, and leaves none.     *)
LEMMA Applied ==
    ASSUME NEW b \in Active, Trove(Troves[b]), Sound(Troves[b], rewards), RewardsTyped(rewards),
           NEW t, t = applyPendingRewards(b)
    PROVE  /\ appliedETH(b) \in Nat /\ appliedZUSDDebt(b) \in Nat
           /\ DECIMAL_PRECISION * appliedETH(b)
                <= Troves[b].stake * (rewards.L_ETH - Troves[b].ETH)
           /\ Trove(t) /\ Sound(t, rewards) /\ t.status = "active" /\ t.stake = Troves[b].stake
           /\ t.ETH = rewards.L_ETH
           /\ t.coll = Troves[b].coll + appliedETH(b)
           /\ t.debt = Troves[b].debt + appliedZUSDDebt(b)
<1>1. /\ rewards.L_ETH \in Nat /\ rewards.L_ZUSDDebt \in Nat
      /\ Troves[b].ETH \in Nat /\ Troves[b].ETH <= rewards.L_ETH
      /\ Troves[b].ZUSDDebt \in Nat /\ Troves[b].ZUSDDebt <= rewards.L_ZUSDDebt
      /\ Troves[b].stake \in Nat /\ Troves[b].coll \in Nat /\ Troves[b].debt \in Nat
      /\ Troves[b].debt >= ZUSD_GAS_COMPENSATION + MIN_NET_DEBT
      /\ isActive(b) /\ Troves[b].status = "active"
  BY Zenon DEF Sound, RewardsTyped, Active, isActive
<1>2. /\ getPendingETHReward(b) \in Nat
      /\ DECIMAL_PRECISION * getPendingETHReward(b)
           <= Troves[b].stake * (rewards.L_ETH - Troves[b].ETH)
  BY <1>1, PendingReward, Zenon DEF getPendingETHReward
<1>3. getPendingZUSDDebtReward(b) \in Nat
  BY <1>1, PendingReward, Zenon DEF getPendingZUSDDebtReward
<1>4. Trove(t)
  BY ApplyKeeps, Zenon
<1>5. CASE hasPendingRewards(b)
  <2> DEFINE c == entireColl(b)
             d == entireDebt(b)
             e == rewards.L_ETH
             z == rewards.L_ZUSDDebt
  <2>1. appliedETH(b) = getPendingETHReward(b) /\ appliedZUSDDebt(b) = getPendingZUSDDebtReward(b)
    BY <1>5, Zenon DEF appliedETH, appliedZUSDDebt
  <2>2. c = Troves[b].coll + appliedETH(b) /\ d = Troves[b].debt + appliedZUSDDebt(b)
    BY <2>1, Zenon DEF entireColl, entireDebt
  <2>3. t = [Troves[b] EXCEPT !.coll = c, !.debt = d, !.ETH = e, !.ZUSDDebt = z]
    BY <1>5, Zenon DEF applyPendingRewards
  <2> HIDE DEF c, d, e, z
  <2>4. /\ t.coll = c /\ t.debt = d /\ t.ETH = e /\ t.ZUSDDebt = z
        /\ t.status = Troves[b].status /\ t.stake = Troves[b].stake
    BY <2>3, Zenon DEF Trove
  <2>5. e = rewards.L_ETH /\ z = rewards.L_ZUSDDebt
    BY Zenon DEF e, z
  <2>6. Sound(t, rewards)
    BY <1>1, <1>2, <1>3, <2>1, <2>2, <2>4, <2>5, LiquityBaseAssumption DEF Sound
  <2> QED
    BY <1>1, <1>2, <1>3, <1>4, <2>1, <2>2, <2>4, <2>5, <2>6, Zenon
<1>6. CASE ~hasPendingRewards(b)
  <2>1. appliedETH(b) = 0 /\ appliedZUSDDebt(b) = 0 /\ t = Troves[b]
    BY <1>6, Zenon DEF appliedETH, appliedZUSDDebt, applyPendingRewards
  <2>2. Troves[b].ETH = rewards.L_ETH
    BY <1>1, <1>6 DEF hasPendingRewards
  <2>3. DECIMAL_PRECISION * 0 <= Troves[b].stake * (rewards.L_ETH - Troves[b].ETH)
    <3>1. \A x, y, z \in Nat : x * 0 <= y * (z - z)
      OBVIOUS
    <3> QED
      BY <1>1, <2>2, <3>1, LiquityBaseAssumption, Zenon
  <2> QED
    BY <1>1, <1>4, <2>1, <2>2, <2>3
<1> QED
  BY <1>5, <1>6, Zenon

(* Nothing is divided by zero for a stake, and it is an amount. *)
LEMMA StakeTyped ==
    ASSUME StakesTyped(stakes), NEW coll \in Nat
    PROVE  computeNewStake(coll) \in Nat
<1>1. coll * stakes.totalSnapshot \in Nat /\ stakes.collateralSnapshot \in Nat
  BY TimesNat, Zenon DEF StakesTyped
<1> QED
  BY <1>1, RoundsDown, Zenon DEF computeNewStake

(* A new stake changes nothing else of a trove. *)
LEMMA StakedSound ==
    ASSUME NEW t, Trove(t), Sound(t, rewards), t.status = "active", StakesTyped(stakes),
           NEW u, u = staked(t)
    PROVE  /\ Sound(u, rewards) /\ u.coll = t.coll /\ u.debt = t.debt /\ u.ETH = t.ETH
           /\ u.status = "active" /\ u.stake \in Nat
<1> DEFINE k == computeNewStake(t.coll)
<1>1. k \in Nat
  BY StakeTyped, Zenon DEF Sound
<1>2. u = [t EXCEPT !.stake = k]
  BY Zenon DEF staked
<1> HIDE DEF k
<1>3. /\ u.stake = k /\ u.coll = t.coll /\ u.debt = t.debt /\ u.ETH = t.ETH
      /\ u.ZUSDDebt = t.ZUSDDebt /\ u.status = t.status
  BY <1>2, Zenon DEF Trove
<1> QED
  BY <1>1, <1>3, Zenon DEF Sound

-----------------------------------------------------------------------------
(* Borrowers and depositors *)

(* The accounts between transactions. *)
Settled == Accounts(Troves, stakes, rewards, activePool, defaultPool, surplus, zusd, 0, 0, 0)

(* Between transactions nothing is left to settle. *)
LEMMA IdleSettled ==
    ASSUME AInv, tx = Idle
    PROVE  Settled /\ price \in Prices
BY Zenon
DEF AInv, Settled, UnsettledColl, UnsettledDebt, UnsettledSurplus, Liquidating, Redeeming, Idle

(* And that is all the invariant asks then. *)
LEMMA SettledIdle ==
    ASSUME Settled', price' \in Prices, tx' = Idle
    PROVE  AInv'
BY Zenon
DEF AInv, Settled, UnsettledColl, UnsettledDebt, UnsettledSurplus, Liquidating, Redeeming, Idle

(* After deployment all accounts are empty. *)
LEMMA InitAInv == Init => AInv
<1> SUFFICES ASSUME Init PROVE AInv
  BY Zenon
<1> USE DEF Init, InitContracts
<1>1. ASSUME NEW b \in Borrowers
      PROVE  /\ Troves[b].coll = 0 /\ Troves[b].debt = 0 /\ Troves[b].stake = 0
             /\ Troves[b].ETH = 0 /\ Troves[b].ZUSDDebt = 0 /\ Troves[b].status # "active"
  BY Zenon DEF NoTrove
<1>2. RewardsTyped(rewards) /\ StakesTyped(stakes) /\ stakes.total = 0
      /\ rewards.L_ETH = 0 /\ rewards.L_ZUSDDebt = 0 /\ rewards.ETHError = 0
  BY Zenon DEF RewardsTyped, StakesTyped
<1>3. TrovesSound(Troves, rewards)
  BY <1>1, <1>2 DEF TrovesSound, Sound
<1>4. /\ Colls(Troves) \in [Borrowers -> Nat] /\ Debts(Troves) \in [Borrowers -> Nat]
      /\ Stakes(Troves) \in [Borrowers -> Nat] /\ Shares(Troves, rewards) \in [Borrowers -> Nat]
  BY <1>2, <1>3, ColumnsTyped, Zenon
<1>5. \A b \in Borrowers : /\ Colls(Troves)[b] = 0 /\ Debts(Troves)[b] = 0
                           /\ Stakes(Troves)[b] = 0 /\ Shares(Troves, rewards)[b] = 0
  BY <1>1, <1>2 DEF Colls, Debts, Stakes, Shares
<1>6. /\ SumFunction(Colls(Troves)) = 0 /\ SumFunction(Debts(Troves)) = 0
      /\ SumFunction(Stakes(Troves)) = 0 /\ SumFunction(Shares(Troves, rewards)) = 0
  <2>1. ASSUME NEW v \in [Borrowers -> Nat], \A b \in Borrowers : v[b] = 0
        PROVE  SumFunction(v) = 0
    BY ONLY <2>1, v \in [Borrowers -> Nat], SumZero, BorrowersAssumption
  <2> QED
    BY ONLY <1>4, <1>5, <2>1, Zenon
<1>7. SurplusHeld(surplus, 0)
  <2>1. /\ surplus.balances \in [Borrowers -> Nat] /\ \A b \in Borrowers : surplus.balances[b] = 0
        /\ surplus.ETH = 0 /\ surplus = [ETH |-> surplus.ETH, balances |-> surplus.balances]
    BY Zenon
  <2>2. SumFunction(surplus.balances) = 0
    BY <2>1, SumZero, BorrowersAssumption
  <2> QED
    BY <2>1, <2>2 DEF SurplusHeld
<1>8. PoolHolds(Troves, activePool, 0, 0)
  BY <1>6 DEF PoolHolds
<1>9. SharesCovered(Troves, rewards, defaultPool)
  <2>1. DECIMAL_PRECISION * 0 = 0
    BY LiquityBaseAssumption
  <2> QED
    BY <1>2, <1>6, <2>1 DEF SharesCovered
<1>10. Circulates(zusd, activePool, defaultPool)
  BY DEF Circulates
<1>11. Settled
  BY <1>2, <1>3, <1>6, <1>7, <1>8, <1>9, <1>10, Zenon DEF Accounts, Settled
<1>12. /\ UnsettledColl = 0 /\ UnsettledDebt = 0 /\ UnsettledSurplus = 0
       /\ ~Liquidating /\ ~Redeeming /\ price \in Prices
  BY Zenon DEF UnsettledColl, UnsettledDebt, UnsettledSurplus, Liquidating, Redeeming, Idle
<1> QED
  BY ONLY <1>11, <1>12, Zenon DEF AInv, Settled

(* openTrove mints the new trove's debt. *)
LEMMA OpenAInv ==
    ASSUME IInv, AInv, NEW b \in Borrowers, NEW coll \in Nat, NEW ZUSDAmount \in Nat,
           NEW rate \in Nat, openTrove(b, coll, ZUSDAmount, rate)
    PROVE  AInv'
<1> DEFINE netDebt == ZUSDAmount + borrowingFee(rate, ZUSDAmount)
           debt == getCompositeDebt(netDebt)
           blank == [NoTrove EXCEPT !.status = "active",
                                    !.coll = coll, !.debt = debt,
                                    !.ETH = rewards.L_ETH,
                                    !.ZUSDDebt = rewards.L_ZUSDDebt,
                                    !.arrayIndex = Len(TroveOwners)]
           opened == staked(blank)
<1>1. /\ tx = Idle /\ tx' = tx /\ price' = price /\ ~isActive(b)
      /\ netDebt >= MIN_NET_DEBT
      /\ Troves' = [Troves EXCEPT ![b] = opened]
      /\ stakes' = totalStakesAfter(Troves[b], opened)
      /\ activePool' = adding(activePool, coll, debt)
      /\ zusd' = [zusd EXCEPT !.users = zusd.users + netDebt,
                              !.gasPool = zusd.gasPool + ZUSD_GAS_COMPENSATION]
      /\ rewards' = rewards /\ defaultPool' = defaultPool /\ surplus' = surplus
  BY Zenon DEF openTrove, requireAtLeastMinNetDebt
<1>2. Settled /\ price \in Prices /\ Purse(zusd)
  BY <1>1, IdleSettled, Zenon DEF IInv
<1>3. /\ TrovesSound(Troves, rewards) /\ RewardsTyped(rewards) /\ StakesTyped(stakes)
      /\ PoolHolds(Troves, activePool, 0, 0) /\ SharesCovered(Troves, rewards, defaultPool)
      /\ SurplusHeld(surplus, 0) /\ Circulates(zusd, activePool, defaultPool)
  BY <1>2, Zenon DEF Settled, Accounts
<1>4. netDebt \in Nat /\ debt = netDebt + ZUSD_GAS_COMPENSATION
  <2>1. (rate * ZUSDAmount) \div DECIMAL_PRECISION \in Nat
    BY TimesNat, RoundsDown, LiquityBaseAssumption, Zenon
  <2> QED
    BY <2>1 DEF borrowingFee, calcBorrowingFee, getCompositeDebt
<1> HIDE DEF netDebt, debt
<1>5. /\ Trove(blank) /\ Sound(blank, rewards) /\ blank.status = "active"
      /\ blank.coll = coll /\ blank.debt = debt /\ blank.ETH = rewards.L_ETH
  <2> DEFINE e == rewards.L_ETH
             z == rewards.L_ZUSDDebt
             i == Len(TroveOwners)
  <2>1. blank = [NoTrove EXCEPT !.status = "active", !.coll = coll, !.debt = debt,
                                !.ETH = e, !.ZUSDDebt = z, !.arrayIndex = i]
    BY Zenon
  <2>2. e \in Nat /\ z \in Nat
    BY <1>3, Zenon DEF RewardsTyped
  <2> HIDE DEF e, z, i, blank
  <2>3. blank = [status |-> "active", debt |-> debt, coll |-> coll, stake |-> 0,
                 arrayIndex |-> i, ETH |-> e, ZUSDDebt |-> z]
    BY <2>1, Zenon DEF NoTrove
  <2>4. /\ debt \in Nat /\ debt >= ZUSD_GAS_COMPENSATION + MIN_NET_DEBT
    BY <1>1, <1>4, LiquityBaseAssumption
  <2> QED
    BY <2>2, <2>3, <2>4 DEF Trove, Sound, e, z
<1> HIDE DEF blank
<1>6. /\ Sound(opened, rewards) /\ opened.coll = coll /\ opened.debt = debt
      /\ opened.ETH = rewards.L_ETH /\ opened.stake \in Nat
  BY <1>3, <1>5, StakedSound, Zenon
<1> HIDE DEF opened
<1>7. /\ Troves'[b] = opened /\ \A a \in Borrowers \ {b} : Troves'[a] = Troves[a]
      /\ Troves = [a \in Borrowers |-> Troves[a]]
  BY <1>1, Zenon DEF IInv, Books
<1>8. Troves[b].coll = 0 /\ Troves[b].debt = 0 /\ Troves[b].stake = 0
      /\ Troves[b].ETH \in Nat /\ rewards.L_ETH \in Nat
  BY <1>1, <1>3, Zenon DEF TrovesSound, Sound, isActive, RewardsTyped
<1>9. DECIMAL_PRECISION * 0 <= Troves[b].stake * (rewards.L_ETH - Troves[b].ETH)
  BY <1>8, LiquityBaseAssumption
<1>10. /\ activePool.ETH \in Int /\ activePool.ZUSDDebt \in Int
       /\ defaultPool.ETH \in Int /\ defaultPool.ZUSDDebt \in Int
  BY <1>3, SumsTyped DEF PoolHolds, SharesCovered
<1>11. /\ activePool'.ETH = activePool.ETH + ((Troves'[b].coll - Troves[b].coll) + (0 - 0))
       /\ activePool'.ZUSDDebt
            = activePool.ZUSDDebt + ((Troves'[b].debt - Troves[b].debt) + (0 - 0))
       /\ defaultPool'.ETH = defaultPool.ETH - 0
       /\ defaultPool'.ZUSDDebt = defaultPool.ZUSDDebt - 0
  BY <1>1, <1>4, <1>6, <1>7, <1>8, <1>10, LiquityBaseAssumption DEF adding
<1>12. /\ zusd'.users \in Nat /\ zusd'.gasPool \in Int /\ zusd'.stabilityPool \in Nat
       /\ zusd'.users + zusd'.gasPool + zusd'.stabilityPool
            = activePool'.ZUSDDebt + defaultPool'.ZUSDDebt
  <2>1. zusd' = [users |-> zusd.users + netDebt, gasPool |-> zusd.gasPool + ZUSD_GAS_COMPENSATION,
                 stabilityPool |-> zusd.stabilityPool]
    BY <1>1, <1>2, Zenon DEF Purse
  <2>2. activePool'.ZUSDDebt = activePool.ZUSDDebt + debt
    BY <1>1, Zenon DEF adding
  <2> QED
    BY <1>1, <1>2, <1>3, <1>4, <1>10, <2>1, <2>2, LiquityBaseAssumption DEF Purse, Circulates
<1>13. \A a \in Borrowers \ {b} : SameAmounts(Troves[a], Troves'[a])
  BY <1>7, Zenon DEF SameAmounts
<1>14. stakes' = [stakes EXCEPT !.total = stakes.total - Troves[b].stake + Troves'[b].stake]
  BY <1>1, <1>7, Zenon DEF totalStakesAfter
<1>15. TroveStep(b, 0, 0, 0, 0, 0, 0, 0)
  BY <1>1, <1>3, <1>6, <1>7, <1>9, <1>11, <1>12, <1>13, <1>14 DEF TroveStep
<1>16. Settled'
  BY <1>2, <1>15, AccountsAfter, Zenon DEF Settled
<1> QED
  BY <1>1, <1>2, <1>16, SettledIdle, Zenon

(* A change of an active trove, its rewards applied: the pools take over   *)
(* the rewards, and the ActivePool the change.                             *)
LEMMA UpdateStep ==
    ASSUME NEW b \in Active, NEW u, Books(Troves, TroveOwners, sortedTroves),
           NEW c, NEW d, NEW s, NEW dc \in Int, NEW dd \in Int,
           NEW c1 \in Int, NEW d1 \in Int, NEW s1, c \in Int, d \in Int,
           Accounts(Troves, stakes, rewards, activePool, defaultPool, surplus, zusd, c, d, s),
           Troves' = [Troves EXCEPT ![b] = u], Sound(u, rewards), u.ETH = rewards.L_ETH,
           u.coll = applyPendingRewards(b).coll + (dc - (c1 - c)),
           u.debt = applyPendingRewards(b).debt + (dd - (d1 - d)),
           rewards' = rewards, stakes' = totalStakesAfter(applyPendingRewards(b), u),
           activePool' = adding(activePool, appliedETH(b) + dc, appliedZUSDDebt(b) + dd),
           defaultPool' = adding(defaultPool, -appliedETH(b), -appliedZUSDDebt(b)),
           SurplusHeld(surplus', s1),
           zusd'.users \in Nat, zusd'.gasPool \in Int, zusd'.stabilityPool \in Nat,
           zusd'.users + zusd'.gasPool + zusd'.stabilityPool
             = zusd.users + zusd.gasPool + zusd.stabilityPool + dd
    PROVE  TroveStep(b, appliedETH(b), appliedZUSDDebt(b), c, d, c1, d1, s1)
<1> DEFINE t == applyPendingRewards(b)
<1>1. /\ TrovesSound(Troves, rewards) /\ RewardsTyped(rewards)
      /\ PoolHolds(Troves, activePool, c, d) /\ SharesCovered(Troves, rewards, defaultPool)
      /\ Circulates(zusd, activePool, defaultPool)
  BY Zenon DEF Accounts
<1>2. b \in Borrowers /\ Trove(Troves[b]) /\ Sound(Troves[b], rewards)
      /\ Troves = [a \in Borrowers |-> Troves[a]]
  BY <1>1, Zenon DEF Active, Books, TrovesSound
<1>3. /\ appliedETH(b) \in Nat /\ appliedZUSDDebt(b) \in Nat
      /\ DECIMAL_PRECISION * appliedETH(b) <= Troves[b].stake * (rewards.L_ETH - Troves[b].ETH)
      /\ t.stake = Troves[b].stake
      /\ t.coll = Troves[b].coll + appliedETH(b) /\ t.debt = Troves[b].debt + appliedZUSDDebt(b)
  BY <1>1, <1>2, Applied, Zenon
<1> HIDE DEF t
<1>4. /\ activePool.ETH \in Int /\ activePool.ZUSDDebt \in Int
      /\ defaultPool.ETH \in Int /\ defaultPool.ZUSDDebt \in Int
      /\ Troves[b].coll \in Nat /\ Troves[b].debt \in Nat
  BY <1>1, <1>2, SumsTyped DEF PoolHolds, SharesCovered, Sound
<1>5. Troves'[b] = u /\ \A a \in Borrowers \ {b} : Troves'[a] = Troves[a]
  BY <1>2, Zenon
<1>6. \A a \in Borrowers \ {b} : SameAmounts(Troves[a], Troves'[a])
  BY <1>5, Zenon DEF SameAmounts
<1>7. stakes' = [stakes EXCEPT !.total = stakes.total - Troves[b].stake + Troves'[b].stake]
  BY <1>3, <1>5, Zenon DEF totalStakesAfter, t
<1>8. /\ activePool'.ETH = activePool.ETH + (appliedETH(b) + dc)
      /\ activePool'.ZUSDDebt = activePool.ZUSDDebt + (appliedZUSDDebt(b) + dd)
      /\ defaultPool'.ETH = defaultPool.ETH + (-appliedETH(b))
      /\ defaultPool'.ZUSDDebt = defaultPool.ZUSDDebt + (-appliedZUSDDebt(b))
  BY Zenon DEF adding
<1>9. /\ defaultPool'.ETH = defaultPool.ETH - appliedETH(b)
      /\ defaultPool'.ZUSDDebt = defaultPool.ZUSDDebt - appliedZUSDDebt(b)
  BY <1>3, <1>4, <1>8, Zenon
<1>10. u.coll = t.coll + (dc - (c1 - c)) /\ u.debt = t.debt + (dd - (d1 - d))
  BY Zenon DEF t
<1>11. /\ activePool'.ETH = activePool.ETH + ((Troves'[b].coll - Troves[b].coll) + (c1 - c))
       /\ activePool'.ZUSDDebt
            = activePool.ZUSDDebt + ((Troves'[b].debt - Troves[b].debt) + (d1 - d))
  BY <1>3, <1>4, <1>5, <1>8, <1>10
<1>12. zusd'.users + zusd'.gasPool + zusd'.stabilityPool
         = activePool'.ZUSDDebt + defaultPool'.ZUSDDebt
  BY <1>1, <1>3, <1>4, <1>8 DEF Circulates
<1> QED
  BY <1>2, <1>3, <1>5, <1>6, <1>7, <1>9, <1>11, <1>12 DEF TroveStep

(* adjustTrove mints or burns what the trove borrows or repays. *)
LEMMA AdjustAInv ==
    ASSUME IInv, AInv, NEW b \in Borrowers, NEW collIn \in Nat, NEW collOut \in Nat,
           NEW ZUSDChange \in Nat, NEW isDebtIncrease \in BOOLEAN, NEW rate \in Nat,
           adjustTrove(b, collIn, collOut, ZUSDChange, isDebtIncrease, rate)
    PROVE  AInv'
<1> DEFINE t == applyPendingRewards(b)
           netDebtChange == IF isDebtIncrease THEN ZUSDChange + borrowingFee(rate, ZUSDChange)
                            ELSE ZUSDChange
           dc == collIn - collOut
           dd == IF isDebtIncrease THEN netDebtChange ELSE -netDebtChange
           newColl == t.coll + dc
           newDebt == t.debt + dd
           changed == [t EXCEPT !.coll = newColl, !.debt = newDebt]
           u == staked(changed)
<1>1. /\ tx = Idle /\ tx' = tx /\ price' = price /\ isActive(b) /\ newColl >= 0
      /\ Troves' = [Troves EXCEPT ![b] = u]
      /\ stakes' = totalStakesAfter(t, u)
      /\ ~isDebtIncrease /\ ZUSDChange > 0 =>
            /\ getNetDebt(t.debt) - netDebtChange >= MIN_NET_DEBT
            /\ zusd.users >= netDebtChange
      /\ activePool' = adding(activePool, appliedETH(b) + dc, appliedZUSDDebt(b) + dd)
      /\ defaultPool' = adding(defaultPool, -appliedETH(b), -appliedZUSDDebt(b))
      /\ zusd' = [zusd EXCEPT !.users = zusd.users + dd]
      /\ rewards' = rewards /\ surplus' = surplus
  BY Zenon DEF adjustTrove, requireAtLeastMinNetDebt
<1>2. Settled /\ price \in Prices /\ Purse(zusd)
  BY <1>1, IdleSettled, Zenon DEF IInv
<1>3. /\ TrovesSound(Troves, rewards) /\ RewardsTyped(rewards) /\ StakesTyped(stakes)
      /\ SurplusHeld(surplus, 0) /\ Circulates(zusd, activePool, defaultPool)
  BY <1>2, Zenon DEF Settled, Accounts
<1>4. b \in Active /\ Books(Troves, TroveOwners, sortedTroves) /\ Trove(Troves[b])
      /\ Sound(Troves[b], rewards)
  BY <1>1, <1>3, Zenon DEF Active, IInv, Books, TrovesSound
<1>5. /\ Trove(t) /\ Sound(t, rewards) /\ t.status = "active" /\ t.ETH = rewards.L_ETH
  BY <1>3, <1>4, Applied, Zenon
<1>6. netDebtChange \in Nat /\ (~isDebtIncrease => netDebtChange = ZUSDChange)
  <2>1. (rate * ZUSDChange) \div DECIMAL_PRECISION \in Nat
    BY TimesNat, RoundsDown, LiquityBaseAssumption, Zenon
  <2> QED
    BY <2>1 DEF borrowingFee, calcBorrowingFee
<1> HIDE DEF t, netDebtChange
<1>7. t.coll \in Nat /\ t.debt \in Nat /\ t.debt >= ZUSD_GAS_COMPENSATION + MIN_NET_DEBT
  BY <1>5, Zenon DEF Sound
<1>8. /\ dc \in Int /\ dd \in Int /\ newColl \in Nat /\ newDebt \in Nat
      /\ newDebt >= ZUSD_GAS_COMPENSATION + MIN_NET_DEBT
      /\ zusd.users + dd \in Nat
  <2>1. zusd.users \in Nat /\ ZUSD_GAS_COMPENSATION \in Nat /\ MIN_NET_DEBT \in Nat
    BY <1>3, LiquityBaseAssumption, Zenon DEF Circulates
  <2>2. ~isDebtIncrease /\ ZUSDChange > 0 =>
          t.debt - ZUSD_GAS_COMPENSATION - netDebtChange >= MIN_NET_DEBT
          /\ zusd.users >= netDebtChange
    BY <1>1, Zenon DEF getNetDebt
  <2>3. dc \in Int /\ newColl \in Nat
    BY <1>1, <1>7
  <2>4. CASE isDebtIncrease
    <3>1. dd = netDebtChange
      BY <2>4, Zenon
    <3> QED
      BY ONLY <1>6, <1>7, <2>1, <2>3, <3>1
  <2>5. CASE ~isDebtIncrease
    <3>1. dd = -netDebtChange /\ netDebtChange = ZUSDChange
      BY <1>6, <2>5, Zenon
    <3>2. CASE ZUSDChange > 0
      BY ONLY <1>6, <1>7, <2>1, <2>2, <2>3, <2>5, <3>1, <3>2
    <3>3. CASE ZUSDChange = 0
      BY ONLY <1>6, <1>7, <2>1, <2>3, <3>1, <3>3
    <3> QED
      BY <3>2, <3>3
  <2> QED
    BY <2>4, <2>5, Zenon
<1> HIDE DEF dc, dd
<1>9. newColl = t.coll + (dc - (0 - 0)) /\ newDebt = t.debt + (dd - (0 - 0))
  BY <1>7, <1>8
<1> HIDE DEF newColl, newDebt
<1>10. /\ Trove(changed) /\ Sound(changed, rewards) /\ changed.status = "active"
       /\ changed.coll = newColl /\ changed.debt = newDebt /\ changed.ETH = rewards.L_ETH
  <2>1. changed = [t EXCEPT !.coll = newColl, !.debt = newDebt]
    BY Zenon
  <2> HIDE DEF changed
  <2>2. /\ Trove(changed) /\ changed.coll = newColl /\ changed.debt = newDebt
        /\ changed.status = t.status /\ changed.stake = t.stake
        /\ changed.ETH = t.ETH /\ changed.ZUSDDebt = t.ZUSDDebt
    BY <1>5, <2>1, Zenon DEF Trove
  <2> QED
    BY <1>5, <1>8, <2>2, Zenon DEF Sound
<1> HIDE DEF changed
<1>11. /\ Sound(u, rewards) /\ u.coll = newColl /\ u.debt = newDebt /\ u.ETH = rewards.L_ETH
  BY <1>3, <1>10, StakedSound, Zenon
<1> HIDE DEF u
<1>12. /\ zusd'.users \in Nat /\ zusd'.gasPool \in Int /\ zusd'.stabilityPool \in Nat
       /\ zusd'.users + zusd'.gasPool + zusd'.stabilityPool
            = zusd.users + zusd.gasPool + zusd.stabilityPool + dd
  <2>1. zusd' = [users |-> zusd.users + dd, gasPool |-> zusd.gasPool,
                 stabilityPool |-> zusd.stabilityPool]
    BY <1>1, <1>2, Zenon DEF Purse
  <2> QED
    BY <1>2, <1>3, <1>8, <2>1 DEF Purse, Circulates
<1>13. TroveStep(b, appliedETH(b), appliedZUSDDebt(b), 0, 0, 0, 0, 0)
  <2>1. u.coll = applyPendingRewards(b).coll + (dc - (0 - 0))
        /\ u.debt = applyPendingRewards(b).debt + (dd - (0 - 0))
        /\ stakes' = totalStakesAfter(applyPendingRewards(b), u)
    BY <1>1, <1>9, <1>11, Zenon DEF t
  <2>2. Accounts(Troves, stakes, rewards, activePool, defaultPool, surplus, zusd, 0, 0, 0)
    BY <1>2, Zenon DEF Settled
  <2>3. SurplusHeld(surplus', 0) /\ 0 \in Int
    BY <1>1, <1>3
  <2> QED
    BY ONLY <1>1, <1>4, <1>8, <1>11, <1>12, <2>1, <2>2, <2>3, UpdateStep, Zenon
<1>14. Settled'
  BY <1>2, <1>13, AccountsAfter, Zenon DEF Settled
<1> QED
  BY <1>1, <1>2, <1>14, SettledIdle, Zenon

(* A closed trove has nothing left, and the others keep what they have,    *)
(* whichever of them takes its place in the owners array.                  *)
LEMMA CloseAmounts ==
    ASSUME Books(Troves, TroveOwners, sortedTroves), NEW b \in Active,
           NEW closedStatus, closedStatus # "active", closeTrove(b, closedStatus),
           RewardsTyped(rewards)
    PROVE  /\ Troves'[b].coll = 0 /\ Troves'[b].debt = 0 /\ Troves'[b].stake = 0
           /\ Troves'[b].status # "active" /\ Sound(Troves'[b], rewards)
           /\ \A a \in Borrowers \ {b} : SameAmounts(Troves[a], Troves'[a])
<1> DEFINE index == Troves[b].arrayIndex
           closed == [NoTrove EXCEPT !.status = closedStatus, !.arrayIndex = index]
<1>1. \A a \in Borrowers :
         Troves'[a] = IF a = b THEN closed
                      ELSE IF a = lastOwner THEN [Troves[a] EXCEPT !.arrayIndex = index]
                      ELSE Troves[a]
  BY Zenon DEF closeTrove
<1>2. b \in Borrowers
  BY Zenon DEF Active
<1> HIDE DEF index
<1>3. closed = [status |-> closedStatus, debt |-> 0, coll |-> 0, stake |-> 0,
                arrayIndex |-> index, ETH |-> 0, ZUSDDebt |-> 0]
  <2>1. closed = [NoTrove EXCEPT !.status = closedStatus, !.arrayIndex = index]
    BY Zenon
  <2> HIDE DEF closed
  <2> QED
    BY <2>1, Zenon DEF NoTrove
<1> HIDE DEF closed
<1>4. Troves'[b] = closed
  BY <1>1, <1>2, Zenon
<1>5. ASSUME NEW a \in Borrowers \ {b}
      PROVE  SameAmounts(Troves[a], Troves'[a])
  <2>1. Trove(Troves[a])
    BY Zenon DEF Books
  <2>2. CASE a = lastOwner
    <3>1. Troves'[a] = [Troves[a] EXCEPT !.arrayIndex = index]
      BY <1>1, <2>2, Zenon
    <3> QED
      BY <2>1, <3>1, Zenon DEF Trove, SameAmounts
  <2>3. CASE a # lastOwner
    BY <1>1, <2>3, Zenon DEF SameAmounts
  <2> QED
    BY <2>2, <2>3, Zenon
<1>6. Sound(Troves'[b], rewards)
  BY <1>3, <1>4 DEF Sound, RewardsTyped
<1> QED
  BY <1>3, <1>4, <1>5, <1>6

(* Closing an active trove: e and f are its rewards, and the pools follow. *)
LEMMA CloseStep ==
    ASSUME NEW b \in Active, Books(Troves, TroveOwners, sortedTroves),
           NEW closedStatus, closedStatus # "active", closeTrove(b, closedStatus),
           NEW c \in Int, NEW d \in Int, NEW s, NEW c1 \in Int, NEW d1 \in Int, NEW s1,
           Accounts(Troves, stakes, rewards, activePool, defaultPool, surplus, zusd, c, d, s),
           NEW e \in Nat, NEW f \in Nat,
           DECIMAL_PRECISION * e <= Troves[b].stake * (rewards.L_ETH - Troves[b].ETH),
           rewards' = rewards,
           NEW x \in Int, NEW y \in Int, x = (c1 - c) - Troves[b].coll, y = (d1 - d) - Troves[b].debt,
           activePool' = adding(activePool, x, y),
           defaultPool' = adding(defaultPool, -e, -f),
           SurplusHeld(surplus', s1),
           zusd'.users \in Nat, zusd'.gasPool \in Int, zusd'.stabilityPool \in Nat,
           zusd'.users + zusd'.gasPool + zusd'.stabilityPool
             = zusd.users + zusd.gasPool + zusd.stabilityPool + (y - f)
    PROVE  TroveStep(b, e, f, c, d, c1, d1, s1)
<1>0. /\ c \in Int /\ d \in Int /\ c1 \in Int /\ d1 \in Int /\ e \in Nat /\ f \in Nat
      /\ x \in Int /\ y \in Int
      /\ x = (c1 - c) - Troves[b].coll /\ y = (d1 - d) - Troves[b].debt
  BY Zenon
<1>1. /\ TrovesSound(Troves, rewards) /\ RewardsTyped(rewards) /\ StakesTyped(stakes)
      /\ PoolHolds(Troves, activePool, c, d) /\ SharesCovered(Troves, rewards, defaultPool)
      /\ Circulates(zusd, activePool, defaultPool)
  BY Zenon DEF Accounts
<1>2. /\ Troves'[b].coll = 0 /\ Troves'[b].debt = 0 /\ Troves'[b].stake = 0
      /\ Sound(Troves'[b], rewards)
      /\ \A a \in Borrowers \ {b} : SameAmounts(Troves[a], Troves'[a])
  BY <1>1, CloseAmounts, Zenon
<1>3. /\ b \in Borrowers /\ Troves[b].coll \in Nat /\ Troves[b].debt \in Nat
      /\ Troves[b].stake \in Nat
  BY <1>1, Zenon DEF Active, TrovesSound, Sound
<1>4. /\ activePool.ETH \in Int /\ activePool.ZUSDDebt \in Int
      /\ defaultPool.ETH \in Int /\ defaultPool.ZUSDDebt \in Int
  <2>1. SumFunction(Colls(Troves)) \in Nat /\ SumFunction(Debts(Troves)) \in Nat
    BY ONLY <1>1, SumsTyped, Zenon
  <2>2. /\ activePool.ETH = SumFunction(Colls(Troves)) + c
        /\ activePool.ZUSDDebt = SumFunction(Debts(Troves)) + d
    BY ONLY <1>1, Zenon DEF PoolHolds
  <2>3. defaultPool.ETH \in Nat /\ defaultPool.ZUSDDebt \in Int
    BY ONLY <1>1, Zenon DEF SharesCovered
  <2> QED
    BY ONLY <1>0, <2>1, <2>2, <2>3
<1>5. /\ activePool'.ETH = activePool.ETH + x /\ activePool'.ZUSDDebt = activePool.ZUSDDebt + y
      /\ defaultPool'.ETH = defaultPool.ETH + (-e)
      /\ defaultPool'.ZUSDDebt = defaultPool.ZUSDDebt + (-f)
  BY Zenon DEF adding
<1>6. /\ activePool'.ETH = activePool.ETH + ((Troves'[b].coll - Troves[b].coll) + (c1 - c))
      /\ activePool'.ZUSDDebt
            = activePool.ZUSDDebt + ((Troves'[b].debt - Troves[b].debt) + (d1 - d))
      /\ defaultPool'.ETH = defaultPool.ETH - e /\ defaultPool'.ZUSDDebt = defaultPool.ZUSDDebt - f
  BY ONLY <1>0, <1>2, <1>3, <1>4, <1>5
<1>7. stakes' = [stakes EXCEPT !.total = stakes.total - Troves[b].stake + Troves'[b].stake]
  <2>1. stakes.total - Troves[b].stake + 0 = stakes.total - Troves[b].stake
    BY <1>1, <1>3 DEF StakesTyped
  <2> QED
    BY <1>2, <2>1, Zenon DEF closeTrove, removeStake
<1>8. zusd'.users + zusd'.gasPool + zusd'.stabilityPool
        = activePool'.ZUSDDebt + defaultPool'.ZUSDDebt
  <2>1. zusd'.users + zusd'.gasPool + zusd'.stabilityPool
          = zusd.users + zusd.gasPool + zusd.stabilityPool + (y - f)
    BY Zenon
  <2>2. zusd.users + zusd.gasPool + zusd.stabilityPool
          = activePool.ZUSDDebt + defaultPool.ZUSDDebt
    BY ONLY <1>1, Zenon DEF Circulates
  <2> QED
    BY ONLY <1>0, <1>4, <1>5, <2>1, <2>2
<1> QED
  BY <1>2, <1>3, <1>6, <1>7, <1>8 DEF TroveStep

(* closeTrove of a borrower burns the trove's whole debt, from the         *)
(* borrower and from the GasPool.                                          *)
LEMMA CloseOwnAInv ==
    ASSUME IInv, AInv, NEW b \in Borrowers, closeOwnTrove(b)
    PROVE  AInv'
<1> DEFINE t == applyPendingRewards(b)
           x == appliedETH(b) - t.coll
           y == appliedZUSDDebt(b) - t.debt
           repaid == zusd.users - getNetDebt(t.debt)
<1>1. /\ tx = Idle /\ tx' = tx /\ price' = price /\ b \in Active
      /\ zusd.users >= getNetDebt(t.debt)
      /\ closeTrove(b, "closedByOwner")
      /\ activePool' = adding(activePool, x, y)
      /\ defaultPool' = adding(defaultPool, -appliedETH(b), -appliedZUSDDebt(b))
      /\ zusd' = burnReserve([zusd EXCEPT !.users = repaid])
      /\ rewards' = rewards /\ surplus' = surplus
  BY Zenon DEF closeOwnTrove, Active
<1>2. Settled /\ price \in Prices /\ Purse(zusd)
  BY <1>1, IdleSettled, Zenon DEF IInv
<1>3. /\ TrovesSound(Troves, rewards) /\ RewardsTyped(rewards)
      /\ SurplusHeld(surplus, 0) /\ Circulates(zusd, activePool, defaultPool)
  BY <1>2, Zenon DEF Settled, Accounts
<1>4. Books(Troves, TroveOwners, sortedTroves) /\ Trove(Troves[b]) /\ Sound(Troves[b], rewards)
  BY <1>3, Zenon DEF IInv, Books, TrovesSound
<1>5. /\ appliedETH(b) \in Nat /\ appliedZUSDDebt(b) \in Nat
      /\ DECIMAL_PRECISION * appliedETH(b) <= Troves[b].stake * (rewards.L_ETH - Troves[b].ETH)
      /\ Sound(t, rewards) /\ t.status = "active"
      /\ t.coll = Troves[b].coll + appliedETH(b) /\ t.debt = Troves[b].debt + appliedZUSDDebt(b)
  BY <1>1, <1>3, <1>4, Applied, Zenon
<1> HIDE DEF t
<1>6. /\ x \in Int /\ y \in Int /\ Troves[b].coll \in Nat /\ Troves[b].debt \in Nat
      /\ x = (0 - 0) - Troves[b].coll /\ y = (0 - 0) - Troves[b].debt
      /\ t.debt \in Nat /\ repaid \in Nat /\ repaid = zusd.users - (t.debt - ZUSD_GAS_COMPENSATION)
  BY <1>1, <1>3, <1>4, <1>5, LiquityBaseAssumption DEF Sound, Circulates, getNetDebt
<1> HIDE DEF x, repaid
<1>7. zusd' = [users |-> repaid, gasPool |-> zusd.gasPool - ZUSD_GAS_COMPENSATION,
               stabilityPool |-> zusd.stabilityPool]
  <2>1. [zusd EXCEPT !.users = repaid]
          = [users |-> repaid, gasPool |-> zusd.gasPool, stabilityPool |-> zusd.stabilityPool]
    BY <1>2 DEF Purse
  <2> QED
    BY <1>1, <2>1, Zenon DEF burnReserve
<1>8. /\ zusd'.users \in Nat /\ zusd'.gasPool \in Int /\ zusd'.stabilityPool \in Nat
      /\ zusd'.users + zusd'.gasPool + zusd'.stabilityPool
           = zusd.users + zusd.gasPool + zusd.stabilityPool + (y - appliedZUSDDebt(b))
  BY <1>2, <1>3, <1>5, <1>6, <1>7, LiquityBaseAssumption DEF Purse, Circulates
<1> HIDE DEF y
<1>9. TroveStep(b, appliedETH(b), appliedZUSDDebt(b), 0, 0, 0, 0, 0)
  <2>1. Accounts(Troves, stakes, rewards, activePool, defaultPool, surplus, zusd, 0, 0, 0)
    BY <1>2, Zenon DEF Settled
  <2>2. SurplusHeld(surplus', 0) /\ 0 \in Int /\ "closedByOwner" # "active"
    BY <1>1, <1>3
  <2> QED
    BY ONLY <1>1, <1>4, <1>5, <1>6, <1>8, <2>1, <2>2, CloseStep, Zenon
<1>10. Settled'
  BY <1>2, <1>9, AccountsAfter, Zenon DEF Settled
<1> QED
  BY <1>1, <1>2, <1>10, SettledIdle, Zenon

(* Claims, price changes and deposits move what is theirs. *)
LEMMA OthersAInv ==
    ASSUME IInv, AInv,
           \/ \E b \in Borrowers : claimCollateral(b)
           \/ \E p \in Prices : setPrice(p)
           \/ \E amount \in Nat : provideToSP(amount) \/ withdrawFromSP(amount)
    PROVE  AInv'
<1>1. /\ tx = Idle /\ tx' = tx /\ price' \in Prices
      /\ Troves' = Troves /\ stakes' = stakes /\ rewards' = rewards
      /\ activePool' = activePool /\ defaultPool' = defaultPool
  BY IdleSettled, Zenon DEF claimCollateral, setPrice, provideToSP, withdrawFromSP, contracts
<1>2. Settled /\ Purse(zusd)
  BY <1>1, IdleSettled, Zenon DEF IInv
<1>3. SurplusHeld(surplus, 0) /\ Circulates(zusd, activePool, defaultPool)
  BY <1>2, Zenon DEF Settled, Accounts
<1>4. SurplusHeld(surplus', 0)
  <2>1. CASE surplus' = surplus
    BY <1>3, <2>1, Zenon
  <2>2. ASSUME NEW b \in Borrowers, claimCollateral(b)
        PROVE  SurplusHeld(surplus', 0)
    <3> DEFINE v == surplus.balances
               w == [v EXCEPT ![b] = 0]
    <3>1. surplus' = [ETH |-> surplus.ETH - v[b], balances |-> w]
      BY <2>2, Zenon DEF claimCollateral
    <3>2. v \in [Borrowers -> Nat] /\ surplus.ETH \in Nat /\ surplus.ETH + 0 = SumFunction(v)
      BY <1>3, Zenon DEF SurplusHeld
    <3> HIDE DEF v
    <3>3. /\ w \in [Borrowers -> Nat] /\ w[b] = 0
          /\ \A a \in Borrowers \ {b} : w[a] = v[a]
      BY <3>2, Zenon
    <3> HIDE DEF w
    <3>4. SumFunction(w) = SumFunction(v) - v[b] + w[b]
      BY <3>2, <3>3, ColumnAfter, Zenon
    <3>5. SumFunction(w) \in Nat
      BY <3>3, SumNat, BorrowersAssumption, Zenon
    <3>6. /\ surplus.ETH - v[b] \in Nat
          /\ surplus.ETH - v[b] + 0 = SumFunction(w)
      BY <3>2, <3>3, <3>4, <3>5
    <3> QED
      BY <3>1, <3>3, <3>6, Zenon DEF SurplusHeld
  <2> QED
    BY <2>1, <2>2, Zenon DEF setPrice, provideToSP, withdrawFromSP, contracts
<1>5. Circulates(zusd', activePool, defaultPool)
  <2>1. CASE zusd' = zusd
    BY <1>3, <2>1, Zenon
  <2>2. ASSUME NEW u \in Nat, NEW p \in Nat, u + p = zusd.users + zusd.stabilityPool,
               zusd' = [zusd EXCEPT !.users = u, !.stabilityPool = p]
        PROVE  Circulates(zusd', activePool, defaultPool)
    <3>1. zusd' = [users |-> u, gasPool |-> zusd.gasPool, stabilityPool |-> p]
      BY <1>2, <2>2, Zenon DEF Purse
    <3>2. zusd.gasPool \in Int
      BY <1>2, Zenon DEF Purse
    <3> QED
      BY <1>3, <2>2, <3>1, <3>2 DEF Circulates
  <2>3. zusd.users \in Nat /\ zusd.stabilityPool \in Nat
    BY <1>3, Zenon DEF Circulates
  <2>4. ASSUME NEW amount \in Nat, provideToSP(amount) \/ withdrawFromSP(amount)
        PROVE  Circulates(zusd', activePool, defaultPool)
    <3>1. CASE provideToSP(amount)
      <4> DEFINE u == zusd.users - amount
                 p == zusd.stabilityPool + amount
      <4>1. zusd' = [zusd EXCEPT !.users = u, !.stabilityPool = p] /\ zusd.users >= amount
        BY <3>1, Zenon DEF provideToSP
      <4>2. u \in Nat /\ p \in Nat /\ u + p = zusd.users + zusd.stabilityPool
        BY <2>3, <4>1
      <4> HIDE DEF u, p
      <4> QED
        BY <2>2, <4>1, <4>2, Zenon
    <3>2. CASE withdrawFromSP(amount)
      <4> DEFINE u == zusd.users + amount
                 p == zusd.stabilityPool - amount
      <4>1. zusd' = [zusd EXCEPT !.users = u, !.stabilityPool = p]
            /\ zusd.stabilityPool >= amount
        BY <3>2, Zenon DEF withdrawFromSP
      <4>2. u \in Nat /\ p \in Nat /\ u + p = zusd.users + zusd.stabilityPool
        BY <2>3, <4>1
      <4> HIDE DEF u, p
      <4> QED
        BY <2>2, <4>1, <4>2, Zenon
    <3> QED
      BY <2>4, <3>1, <3>2, Zenon
  <2> QED
    BY <2>1, <2>4, Zenon DEF setPrice, claimCollateral, contracts
<1>6. Settled'
  BY <1>1, <1>2, <1>4, <1>5, Zenon DEF Settled, Accounts
<1> QED
  BY <1>1, <1>6, SettledIdle, Zenon

-----------------------------------------------------------------------------
(* Reverts *)

(* A transaction starts from settled accounts, to which a revert returns. *)
LEMMA SavedSettled ==
    ASSUME Settled
    PROVE  SavedAccounts(saved)
BY Zenon DEF Settled, SavedAccounts, saved

(* A revert restores them. *)
LEMMA RestoreAInv ==
    ASSUME AInv, restore, tx.op \in {"liquidate", "redeem"}
    PROVE  AInv'
<1>1. SavedAccounts(tx.saved) /\ price \in Prices
  BY Zenon DEF AInv, Liquidating, Redeeming
<1>2. /\ Troves' = tx.saved.Troves /\ stakes' = tx.saved.stakes /\ rewards' = tx.saved.rewards
      /\ activePool' = tx.saved.activePool /\ defaultPool' = tx.saved.defaultPool
      /\ surplus' = tx.saved.surplus /\ zusd' = tx.saved.zusd /\ tx' = Idle /\ price' = price
  BY Zenon DEF restore
<1>3. Settled'
  BY <1>1, <1>2, Zenon DEF Settled, SavedAccounts
<1> QED
  BY <1>1, <1>2, <1>3, SettledIdle, Zenon

-----------------------------------------------------------------------------
(* Redeemers *)

(* A claim of x is added, of which y has come in. *)
LEMMA SurplusAdded ==
    ASSUME NEW su, NEW s \in Int, SurplusHeld(su, s), NEW b \in Borrowers, NEW x \in Nat, NEW y \in Nat,
           NEW new, new = [ETH |-> su.ETH + y,
                           balances |-> [su.balances EXCEPT ![b] = su.balances[b] + x]]
    PROVE  SurplusHeld(new, s + x - y)
<1> DEFINE v == su.balances
           w == [v EXCEPT ![b] = v[b] + x]
<1>1. v \in [Borrowers -> Nat] /\ su.ETH \in Nat /\ su.ETH + s = SumFunction(v)
  BY Zenon DEF SurplusHeld
<1>2. new.ETH = su.ETH + y /\ new.balances = w /\ new = [ETH |-> new.ETH, balances |-> new.balances]
  BY Zenon
<1> HIDE DEF v
<1>3. /\ w \in [Borrowers -> Nat] /\ w[b] = v[b] + x /\ v[b] \in Nat
      /\ \A a \in Borrowers \ {b} : w[a] = v[a]
  BY <1>1
<1> HIDE DEF w
<1>4. SumFunction(w) = SumFunction(v) - v[b] + w[b]
  BY <1>1, <1>3, ColumnAfter, Zenon
<1>5. SumFunction(v) \in Nat
  BY <1>1, SumNat, BorrowersAssumption, Zenon
<1>6. su.ETH + y + (s + x - y) = SumFunction(w) /\ su.ETH + y \in Nat
  BY <1>1, <1>3, <1>4, <1>5
<1> QED
  BY <1>2, <1>3, <1>6, Zenon DEF SurplusHeld

(* During a redemption what was drawn is left to settle. *)
LEMMA RedeemingPart ==
    ASSUME AInv, tx.op = "redeem"
    PROVE  /\ price \in Prices /\ SavedAccounts(tx.saved) /\ Affordable(tx, zusd.users)
           /\ Accounts(Troves, stakes, rewards, activePool, defaultPool, surplus, zusd,
                       tx.totalETHDrawn, tx.totalZUSDToRedeem, 0)
BY Zenon DEF AInv, UnsettledColl, UnsettledDebt, UnsettledSurplus, Liquidating, Redeeming

(* And that is all the invariant asks then. *)
LEMMA RedeemingAInv ==
    ASSUME tx'.op = "redeem", price' \in Prices, SavedAccounts(tx'.saved),
           Affordable(tx', zusd'.users),
           Accounts(Troves', stakes', rewards', activePool', defaultPool', surplus', zusd',
                    tx'.totalETHDrawn, tx'.totalZUSDToRedeem, 0)
    PROVE  AInv'
BY Zenon DEF AInv, UnsettledColl, UnsettledDebt, UnsettledSurplus, Liquidating, Redeeming

(* A redeemer has the ZUSD they want to redeem. *)
LEMMA StartRedemptionAInv ==
    ASSUME AInv, NEW ZUSDamount \in Nat, NEW firstHint, NEW maxIterations, NEW rate,
           redeemCollateral(ZUSDamount, firstHint, maxIterations, rate)
    PROVE  AInv'
<1>1. /\ tx = Idle /\ price' = price /\ zusd.users >= ZUSDamount
      /\ Troves' = Troves /\ stakes' = stakes /\ rewards' = rewards
      /\ activePool' = activePool /\ defaultPool' = defaultPool
      /\ surplus' = surplus /\ zusd' = zusd
      /\ tx'.op = "redeem" /\ tx'.saved = saved /\ tx'.remainingZUSD = ZUSDamount
      /\ tx'.totalZUSDToRedeem = 0 /\ tx'.totalETHDrawn = 0
  BY Zenon DEF redeemCollateral, contracts
<1>2. Settled /\ price \in Prices /\ SavedAccounts(saved)
  BY <1>1, IdleSettled, SavedSettled, Zenon
<1>3. zusd.users \in Nat
  BY <1>2, Zenon DEF Settled, Accounts, Circulates
<1>4. Affordable(tx', zusd'.users)
  BY <1>1, <1>3 DEF Affordable
<1>5. Accounts(Troves', stakes', rewards', activePool', defaultPool', surplus', zusd',
               tx'.totalETHDrawn, tx'.totalZUSDToRedeem, 0)
  BY ONLY <1>1, <1>2, Zenon DEF Settled
<1> QED
  BY <1>1, <1>2, <1>4, <1>5, RedeemingAInv, Zenon

(* A lot is no more than the trove and the redeemer have. *)
LEMMA LotTyped ==
    ASSUME NEW t, Trove(t), Sound(t, rewards), t.status = "active",
           tx.remainingZUSD \in Nat, price \in Prices, collCoversLot(t),
           NEW u, u = redeemed(t)
    PROVE  /\ ZUSDLot(t) \in Nat /\ ZUSDLot(t) <= tx.remainingZUSD
           /\ ZUSDLot(t) <= t.debt - ZUSD_GAS_COMPENSATION
           /\ ETHLot(t) \in Nat /\ ETHLot(t) <= t.coll
           /\ Trove(u) /\ u.coll = t.coll - ETHLot(t) /\ u.debt = t.debt - ZUSDLot(t)
           /\ u.status = t.status /\ u.stake = t.stake
           /\ u.ETH = t.ETH /\ u.ZUSDDebt = t.ZUSDDebt
<1> DEFINE z == ZUSDLot(t)
           e == ETHLot(t)
           c == t.coll - e
           d == t.debt - z
<1>1. t.debt \in Nat /\ t.debt >= ZUSD_GAS_COMPENSATION + MIN_NET_DEBT
  BY Zenon DEF Sound
<1>2. /\ z \in Nat /\ z <= tx.remainingZUSD /\ z <= t.debt - ZUSD_GAS_COMPENSATION
  BY <1>1, LiquityBaseAssumption DEF ZUSDLot, min, getNetDebt
<1>3. e = (z * DECIMAL_PRECISION) \div price
  BY Zenon DEF ETHLot
<1>4. e <= t.coll
  BY Zenon DEF collCoversLot
<1> HIDE DEF z, e
<1>5. e \in Nat
  <2>1. z * DECIMAL_PRECISION \in Nat /\ price \in Nat \ {0}
    BY <1>2, TimesNat, LiquityBaseAssumption, InputsAssumption, Zenon
  <2> QED
    BY <1>3, <2>1, RoundsDown, Zenon
<1>6. u = [t EXCEPT !.debt = d, !.coll = c]
  BY Zenon DEF redeemed, z, e
<1> HIDE DEF c, d
<1>7. /\ Trove(u) /\ u.coll = c /\ u.debt = d /\ u.status = t.status /\ u.stake = t.stake
      /\ u.ETH = t.ETH /\ u.ZUSDDebt = t.ZUSDDebt
  BY <1>6, Zenon DEF Trove
<1> QED
  BY <1>2, <1>4, <1>5, <1>7, Zenon DEF c, d, z, e

(* After a lot the redeemer can still pay. *)
LEMMA DrawnAffordable ==
    ASSUME RedemptionTx(tx), NEW users \in Nat, Affordable(tx, users), NEW b, NEW u,
           ZUSDLot(u) \in Nat, ZUSDLot(u) <= tx.remainingZUSD, ETHLot(u) \in Nat,
           NEW t, t = drawn(b, u)
    PROVE  /\ Affordable(t, users) /\ t.op = "redeem" /\ t.saved = tx.saved
           /\ t.totalZUSDToRedeem = tx.totalZUSDToRedeem + ZUSDLot(u)
           /\ t.totalETHDrawn = tx.totalETHDrawn + ETHLot(u)
<1>1. /\ RedemptionTx(t) /\ t.saved = tx.saved
      /\ t.remainingZUSD = tx.remainingZUSD - ZUSDLot(u)
      /\ t.totalZUSDToRedeem = tx.totalZUSDToRedeem + ZUSDLot(u)
      /\ t.totalETHDrawn = tx.totalETHDrawn + ETHLot(u)
  BY DrawnKeeps, Zenon
<1>2. t.op = "redeem"
  BY <1>1 DEF RedemptionTx
<1> QED
  BY <1>1, <1>2 DEF Affordable

(* A redemption that closes a trove takes the lot, burns the reserve and   *)
(* leaves the rest of the collateral to the owner.                         *)
LEMMA RedeemWholeAInv ==
    ASSUME IInv, AInv, redeemWholeTrove
    PROVE  AInv'
<1> DEFINE b == tx.user
           t == applyPendingRewards(b)
           left == redeemed(t).coll
           e == appliedETH(b)
           f == appliedZUSDDebt(b)
           c == tx.totalETHDrawn
           d == tx.totalZUSDToRedeem
           c1 == tx'.totalETHDrawn
           d1 == tx'.totalZUSDToRedeem
           x == e - left
           y == f - ZUSD_GAS_COMPENSATION
<1>1. /\ tx.op = "redeem" /\ b # NULL /\ price' = price
      /\ collCoversLot(t) /\ closesTrove(t)
      /\ closeTrove(b, "closedByRedemption")
      /\ activePool' = adding(activePool, x, y) /\ defaultPool' = adding(defaultPool, -e, -f)
      /\ surplus' = [ETH |-> surplus.ETH + left,
                     balances |-> [surplus.balances EXCEPT ![b] = surplus.balances[b] + left]]
      /\ zusd' = burnReserve(zusd) /\ tx' = drawn(b, t) /\ rewards' = rewards
  BY Zenon DEF redeemWholeTrove, redeeming
<1>2. /\ RedemptionTx(tx) /\ b \in Active
      /\ Books(Troves, TroveOwners, sortedTroves) /\ Purse(zusd)
  BY <1>1, RedemptionPart, Zenon DEF IInv, RedemptionGood
<1>3. /\ price \in Prices /\ SavedAccounts(tx.saved) /\ Affordable(tx, zusd.users)
      /\ Accounts(Troves, stakes, rewards, activePool, defaultPool, surplus, zusd, c, d, 0)
  BY <1>1, RedeemingPart, Zenon
<1>4. /\ Trove(Troves[b]) /\ Sound(Troves[b], rewards) /\ RewardsTyped(rewards)
      /\ SurplusHeld(surplus, 0) /\ Circulates(zusd, activePool, defaultPool) /\ b \in Borrowers
  BY <1>2, <1>3, Zenon DEF Accounts, TrovesSound, Active, Books
<1>5. /\ e \in Nat /\ f \in Nat
      /\ DECIMAL_PRECISION * e <= Troves[b].stake * (rewards.L_ETH - Troves[b].ETH)
      /\ Trove(t) /\ Sound(t, rewards) /\ t.status = "active"
      /\ t.coll = Troves[b].coll + e /\ t.debt = Troves[b].debt + f
  BY <1>2, <1>4, Applied, Zenon
<1> HIDE DEF t
<1>6. /\ ZUSDLot(t) \in Nat /\ ZUSDLot(t) <= tx.remainingZUSD
      /\ ETHLot(t) \in Nat /\ ETHLot(t) <= t.coll
      /\ left = t.coll - ETHLot(t) /\ redeemed(t).debt = t.debt - ZUSDLot(t)
  BY <1>1, <1>3, <1>5, LotTyped, Zenon DEF Affordable
<1>7. t.debt - ZUSDLot(t) = ZUSD_GAS_COMPENSATION
  BY <1>1, <1>6, Zenon DEF closesTrove
<1> HIDE DEF left, b, e, f
<1>8. /\ Affordable(tx', zusd.users) /\ tx'.op = "redeem" /\ tx'.saved = tx.saved
      /\ d1 = d + ZUSDLot(t) /\ c1 = c + ETHLot(t)
  <2>1. zusd.users \in Nat
    BY ONLY <1>4, Zenon DEF Circulates
  <2>2. RedemptionTx(tx) /\ Affordable(tx, zusd.users) /\ tx' = drawn(b, t)
    BY ONLY <1>1, <1>2, <1>3, Zenon
  <2>3. ZUSDLot(t) \in Nat /\ ZUSDLot(t) <= tx.remainingZUSD /\ ETHLot(t) \in Nat
    BY ONLY <1>6, Zenon
  <2> QED
    BY ONLY <2>1, <2>2, <2>3, DrawnAffordable
<1>9. c \in Nat /\ d \in Nat /\ Troves[b].coll \in Nat /\ Troves[b].debt \in Nat
      /\ t.coll \in Nat /\ t.debt \in Nat /\ left \in Nat /\ ZUSD_GAS_COMPENSATION \in Nat
  <2>1. c \in Nat /\ d \in Nat
    BY ONLY <1>3, Zenon DEF Affordable
  <2>2. Troves[b].coll \in Nat /\ Troves[b].debt \in Nat
    BY ONLY <1>4, Zenon DEF Sound
  <2>3. t.coll \in Nat /\ t.debt \in Nat
    BY ONLY <1>5, Zenon DEF Sound
  <2>4. left \in Nat
    BY ONLY <1>6, <2>3
  <2> QED
    BY ONLY <2>1, <2>2, <2>3, <2>4, LiquityBaseAssumption, Zenon
<1> HIDE DEF c, d, c1, d1
<1>10. /\ c1 \in Int /\ d1 \in Int /\ x \in Int /\ y \in Int
       /\ x = (c1 - c) - Troves[b].coll /\ y = (d1 - d) - Troves[b].debt
  <2>1. /\ e \in Nat /\ ETHLot(t) \in Nat /\ t.coll = Troves[b].coll + e
        /\ left = t.coll - ETHLot(t) /\ c1 = c + ETHLot(t)
    BY <1>5, <1>6, <1>8, Zenon
  <2>2. /\ f \in Nat /\ ZUSDLot(t) \in Nat /\ t.debt = Troves[b].debt + f
        /\ t.debt - ZUSDLot(t) = ZUSD_GAS_COMPENSATION /\ d1 = d + ZUSDLot(t)
    BY <1>5, <1>6, <1>7, <1>8, Zenon
  <2>3. c1 \in Int /\ x \in Int /\ x = (c1 - c) - Troves[b].coll
    BY ONLY <1>9, <2>1
  <2>4. d1 \in Int /\ y \in Int /\ y = (d1 - d) - Troves[b].debt
    <3> DEFINE i == Troves[b].debt
               k == t.debt
               l == ZUSDLot(t)
               g == ZUSD_GAS_COMPENSATION
    <3>1. /\ i \in Nat /\ k \in Nat /\ l \in Nat /\ g \in Nat /\ d \in Nat /\ f \in Nat
          /\ k = i + f /\ k - l = g /\ d1 = d + l /\ y = f - g
      BY <1>9, <2>2, Zenon
    <3> HIDE DEF i, k, l, g, y
    <3>2. d1 \in Int /\ y \in Int /\ y = (d1 - d) - i
      BY ONLY <3>1
    <3> QED
      BY <3>2, Zenon DEF i
  <2> QED
    BY ONLY <2>3, <2>4, Zenon
<1>11. SurplusHeld(surplus', 0)
  <2>1. SurplusHeld(surplus', 0 + left - left)
    BY <1>1, <1>4, <1>9, SurplusAdded
  <2>2. 0 + left - left = 0
    BY <1>9
  <2> QED
    BY <2>1, <2>2, Zenon
<1>12. zusd' = [users |-> zusd.users, gasPool |-> zusd.gasPool - ZUSD_GAS_COMPENSATION,
                stabilityPool |-> zusd.stabilityPool]
  BY <1>1, <1>2, Zenon DEF burnReserve, Purse
<1>13. /\ zusd'.users \in Nat /\ zusd'.gasPool \in Int /\ zusd'.stabilityPool \in Nat
       /\ zusd'.users + zusd'.gasPool + zusd'.stabilityPool
            = zusd.users + zusd.gasPool + zusd.stabilityPool + (y - f)
       /\ zusd'.users = zusd.users
  BY <1>2, <1>4, <1>5, <1>9, <1>12 DEF Circulates, Purse
<1> HIDE DEF x, y
<1>14. TroveStep(b, e, f, c, d, c1, d1, 0)
  <2>1. "closedByRedemption" # "active" /\ c \in Int /\ d \in Int
    BY <1>9
  <2> QED
    BY ONLY <1>1, <1>2, <1>3, <1>5, <1>10, <1>11, <1>13, <2>1, CloseStep, Zenon
<1>15. Accounts(Troves', stakes', rewards', activePool', defaultPool', surplus', zusd', c1, d1, 0)
  BY <1>3, <1>14, AccountsAfter, Zenon
<1> QED
  BY <1>1, <1>3, <1>8, <1>13, <1>15, RedeemingAInv, Zenon DEF c1, d1

(* A partial redemption takes the lot from the trove. *)
LEMMA RedeemPartAInv ==
    ASSUME IInv, AInv, redeemPartOfTrove
    PROVE  AInv'
<1> DEFINE b == tx.user
           t == applyPendingRewards(b)
           r == redeemed(t)
           u == staked(r)
           e == appliedETH(b)
           f == appliedZUSDDebt(b)
           c == tx.totalETHDrawn
           d == tx.totalZUSDToRedeem
           c1 == tx'.totalETHDrawn
           d1 == tx'.totalZUSDToRedeem
<1>1. /\ tx.op = "redeem" /\ b # NULL /\ price' = price
      /\ collCoversLot(t) /\ leavesMinimum(u)
      /\ Troves' = [Troves EXCEPT ![b] = u] /\ stakes' = totalStakesAfter(t, u)
      /\ activePool' = adding(activePool, e, f) /\ defaultPool' = adding(defaultPool, -e, -f)
      /\ surplus' = surplus /\ zusd' = zusd /\ tx' = drawn(b, t) /\ rewards' = rewards
  BY Zenon DEF redeemPartOfTrove, redeeming
<1>2. /\ RedemptionTx(tx) /\ b \in Active
      /\ Books(Troves, TroveOwners, sortedTroves) /\ Purse(zusd)
  BY <1>1, RedemptionPart, Zenon DEF IInv, RedemptionGood
<1>3. /\ price \in Prices /\ SavedAccounts(tx.saved) /\ Affordable(tx, zusd.users)
      /\ Accounts(Troves, stakes, rewards, activePool, defaultPool, surplus, zusd, c, d, 0)
  BY <1>1, RedeemingPart, Zenon
<1>4. /\ Trove(Troves[b]) /\ Sound(Troves[b], rewards) /\ RewardsTyped(rewards)
      /\ StakesTyped(stakes) /\ SurplusHeld(surplus, 0)
      /\ Circulates(zusd, activePool, defaultPool)
  BY <1>2, <1>3, Zenon DEF Accounts, TrovesSound, Active, Books
<1>5. /\ e \in Nat /\ f \in Nat /\ Trove(t) /\ Sound(t, rewards) /\ t.status = "active"
      /\ t.ETH = rewards.L_ETH
  BY <1>2, <1>4, Applied, Zenon
<1> HIDE DEF t
<1>6. /\ ZUSDLot(t) \in Nat /\ ZUSDLot(t) <= tx.remainingZUSD
      /\ ZUSDLot(t) <= t.debt - ZUSD_GAS_COMPENSATION
      /\ ETHLot(t) \in Nat /\ ETHLot(t) <= t.coll
      /\ Trove(r) /\ r.coll = t.coll - ETHLot(t) /\ r.debt = t.debt - ZUSDLot(t)
      /\ r.status = t.status /\ r.stake = t.stake
      /\ r.ETH = t.ETH /\ r.ZUSDDebt = t.ZUSDDebt
  BY <1>1, <1>3, <1>5, LotTyped, Zenon DEF Affordable
<1> HIDE DEF r
<1>7. u.debt = r.debt
  <2> DEFINE k == computeNewStake(r.coll)
  <2>1. u = [r EXCEPT !.stake = k]
    BY Zenon DEF staked
  <2> HIDE DEF k, u
  <2> QED
    BY <1>6, <2>1, Zenon DEF Trove
<1>8. Sound(r, rewards)
  <2>1. u.debt - ZUSD_GAS_COMPENSATION >= MIN_NET_DEBT
    BY <1>1, Zenon DEF leavesMinimum, getNetDebt
  <2> HIDE DEF u
  <2>2. t.debt \in Nat /\ t.coll \in Nat
    BY <1>5, Zenon DEF Sound
  <2>3. r.debt \in Nat /\ r.debt >= ZUSD_GAS_COMPENSATION + MIN_NET_DEBT /\ r.coll \in Nat
    BY <1>6, <1>7, <2>1, <2>2, LiquityBaseAssumption
  <2> QED
    BY <1>5, <1>6, <2>3, Zenon DEF Sound
<1>9. /\ Sound(u, rewards) /\ u.coll = r.coll /\ u.debt = r.debt /\ u.ETH = rewards.L_ETH
  BY <1>4, <1>5, <1>6, <1>8, StakedSound, Zenon
<1> HIDE DEF u, b, e, f
<1>10. /\ Affordable(tx', zusd.users) /\ tx'.op = "redeem" /\ tx'.saved = tx.saved
       /\ d1 = d + ZUSDLot(t) /\ c1 = c + ETHLot(t)
  <2>1. zusd.users \in Nat
    BY ONLY <1>4, Zenon DEF Circulates
  <2>2. RedemptionTx(tx) /\ Affordable(tx, zusd.users) /\ tx' = drawn(b, t)
    BY ONLY <1>1, <1>2, <1>3, Zenon
  <2>3. ZUSDLot(t) \in Nat /\ ZUSDLot(t) <= tx.remainingZUSD /\ ETHLot(t) \in Nat
    BY ONLY <1>6, Zenon
  <2> QED
    BY ONLY <2>1, <2>2, <2>3, DrawnAffordable
<1>11. c \in Nat /\ d \in Nat /\ t.coll \in Nat /\ t.debt \in Nat
  BY <1>3, <1>5, Zenon DEF Affordable, Sound
<1> HIDE DEF c, d, c1, d1
<1>12. /\ c1 \in Int /\ d1 \in Int /\ 0 \in Int /\ c \in Int /\ d \in Int
       /\ u.coll = t.coll + (0 - (c1 - c)) /\ u.debt = t.debt + (0 - (d1 - d))
       /\ e + 0 = e /\ f + 0 = f
  <2>1. /\ u.coll = t.coll - ETHLot(t) /\ u.debt = t.debt - ZUSDLot(t)
        /\ ETHLot(t) \in Nat /\ ZUSDLot(t) \in Nat
    BY <1>6, <1>9, Zenon
  <2>2. d1 = d + ZUSDLot(t) /\ c1 = c + ETHLot(t)
    BY <1>10, Zenon
  <2>3. e + 0 = e /\ f + 0 = f
    BY <1>5
  <2> QED
    BY ONLY <1>11, <2>1, <2>2, <2>3
<1>13. /\ zusd'.users \in Nat /\ zusd'.gasPool \in Int /\ zusd'.stabilityPool \in Nat
       /\ zusd'.users + zusd'.gasPool + zusd'.stabilityPool
            = zusd.users + zusd.gasPool + zusd.stabilityPool + 0
  BY <1>1, <1>2, <1>4 DEF Circulates, Purse
<1>14. TroveStep(b, e, f, c, d, c1, d1, 0)
  <2>1. /\ activePool' = adding(activePool, appliedETH(b) + 0, appliedZUSDDebt(b) + 0)
        /\ defaultPool' = adding(defaultPool, -appliedETH(b), -appliedZUSDDebt(b))
    BY ONLY <1>1, <1>12, Zenon DEF e, f
  <2>2. /\ u.coll = applyPendingRewards(b).coll + (0 - (c1 - c))
        /\ u.debt = applyPendingRewards(b).debt + (0 - (d1 - d))
        /\ stakes' = totalStakesAfter(applyPendingRewards(b), u)
    BY <1>1, <1>12, Zenon DEF t
  <2>3. SurplusHeld(surplus', 0)
    BY <1>1, <1>4, Zenon
  <2>4. TroveStep(b, appliedETH(b), appliedZUSDDebt(b), c, d, c1, d1, 0)
    BY ONLY <1>1, <1>2, <1>3, <1>9, <1>12, <1>13, <2>1, <2>2, <2>3, UpdateStep, Zenon
  <2> QED
    BY <2>4, Zenon DEF e, f
<1>15. Accounts(Troves', stakes', rewards', activePool', defaultPool', surplus', zusd', c1, d1, 0)
  BY <1>3, <1>14, AccountsAfter
<1> QED
  BY <1>1, <1>3, <1>10, <1>15, RedeemingAInv, Zenon DEF c1, d1

(* A cancelled one only applies the trove's rewards. *)
LEMMA CancelPartialAInv ==
    ASSUME IInv, AInv, cancelPartial
    PROVE  AInv'
<1> DEFINE b == tx.user
           t == applyPendingRewards(b)
           e == appliedETH(b)
           f == appliedZUSDDebt(b)
           c == tx.totalETHDrawn
           d == tx.totalZUSDToRedeem
<1>1. /\ tx.op = "redeem" /\ b # NULL /\ price' = price
      /\ Troves' = [Troves EXCEPT ![b] = t] /\ stakes' = stakes
      /\ activePool' = adding(activePool, e, f) /\ defaultPool' = adding(defaultPool, -e, -f)
      /\ surplus' = surplus /\ zusd' = zusd /\ tx' = [tx EXCEPT !.left = 0] /\ rewards' = rewards
  BY Zenon DEF cancelPartial, redeeming
<1>2. /\ RedemptionTx(tx) /\ b \in Active
      /\ Books(Troves, TroveOwners, sortedTroves) /\ Purse(zusd)
  BY <1>1, RedemptionPart, Zenon DEF IInv, RedemptionGood
<1>3. /\ price \in Prices /\ SavedAccounts(tx.saved) /\ Affordable(tx, zusd.users)
      /\ Accounts(Troves, stakes, rewards, activePool, defaultPool, surplus, zusd, c, d, 0)
  BY <1>1, RedeemingPart, Zenon
<1>4. /\ Trove(Troves[b]) /\ Sound(Troves[b], rewards) /\ RewardsTyped(rewards)
      /\ StakesTyped(stakes) /\ SurplusHeld(surplus, 0)
      /\ Circulates(zusd, activePool, defaultPool)
  BY <1>2, <1>3 DEF Accounts, TrovesSound, Active, Books
<1>5. /\ e \in Nat /\ f \in Nat /\ Trove(t) /\ Sound(t, rewards) /\ t.ETH = rewards.L_ETH
  BY <1>2, <1>4, Applied, Zenon
<1>6. /\ tx'.op = "redeem" /\ tx'.saved = tx.saved /\ tx'.totalETHDrawn = c
      /\ tx'.totalZUSDToRedeem = d /\ tx'.remainingZUSD = tx.remainingZUSD
  BY <1>1, <1>2, Zenon DEF RedemptionTx
<1> HIDE DEF t
<1>7. stakes' = totalStakesAfter(t, t)
  <2> DEFINE total == stakes.total - t.stake + t.stake
  <2>1. total = stakes.total
    BY <1>4, <1>5 DEF StakesTyped, Sound
  <2>2. totalStakesAfter(t, t) = [stakes EXCEPT !.total = total]
    BY Zenon DEF totalStakesAfter
  <2> HIDE DEF total
  <2> QED
    BY <1>1, <1>4, <2>1, <2>2, Zenon DEF StakesTyped
<1>8. c \in Nat /\ d \in Nat /\ t.coll \in Nat /\ t.debt \in Nat
  BY <1>3, <1>5, Zenon DEF Affordable, Sound
<1> HIDE DEF b, e, f, c, d
<1>9. /\ 0 \in Int /\ c \in Int /\ d \in Int /\ e + 0 = e /\ f + 0 = f
      /\ t.coll = t.coll + (0 - (c - c)) /\ t.debt = t.debt + (0 - (d - d))
  <2>1. \A x, y \in Nat : x = x + (0 - (y - y)) /\ x + 0 = x /\ x \in Int
    OBVIOUS
  <2>2. e \in Nat /\ f \in Nat /\ 0 \in Nat
    BY <1>5, Zenon
  <2> QED
    BY ONLY <1>8, <2>1, <2>2, Zenon
<1>10. /\ zusd'.users \in Nat /\ zusd'.gasPool \in Int /\ zusd'.stabilityPool \in Nat
       /\ zusd'.users + zusd'.gasPool + zusd'.stabilityPool
            = zusd.users + zusd.gasPool + zusd.stabilityPool + 0
  BY <1>1, <1>2, <1>4 DEF Circulates, Purse
<1>11. TroveStep(b, e, f, c, d, c, d, 0)
  <2>1. /\ activePool' = adding(activePool, appliedETH(b) + 0, appliedZUSDDebt(b) + 0)
        /\ defaultPool' = adding(defaultPool, -appliedETH(b), -appliedZUSDDebt(b))
    BY ONLY <1>1, <1>9, Zenon DEF e, f
  <2>2. /\ t.coll = applyPendingRewards(b).coll + (0 - (c - c))
        /\ t.debt = applyPendingRewards(b).debt + (0 - (d - d))
        /\ stakes' = totalStakesAfter(applyPendingRewards(b), t)
    BY ONLY <1>7, <1>9, Zenon DEF t
  <2>3. SurplusHeld(surplus', 0)
    BY <1>1, <1>4, Zenon
  <2>4. TroveStep(b, appliedETH(b), appliedZUSDDebt(b), c, d, c, d, 0)
    BY ONLY <1>1, <1>2, <1>3, <1>5, <1>9, <1>10, <2>1, <2>2, <2>3, UpdateStep, Zenon
  <2> QED
    BY <2>4, Zenon DEF e, f
<1>12. Accounts(Troves', stakes', rewards', activePool', defaultPool', surplus', zusd', c, d, 0)
  BY <1>3, <1>11, AccountsAfter, Zenon
<1>13. Affordable(tx', zusd'.users)
  BY <1>1, <1>3, <1>6, Zenon DEF Affordable, c, d
<1> QED
  BY <1>1, <1>3, <1>6, <1>12, <1>13, RedeemingAInv, Zenon

(* The last step burns the redeemed ZUSD and pays out the collateral. *)
LEMMA FinishRedemptionAInv ==
    ASSUME IInv, AInv, finishRedemption
    PROVE  AInv'
<1> DEFINE c == tx.totalETHDrawn
           d == tx.totalZUSDToRedeem
           u == zusd.users - d
<1>1. /\ tx.op = "redeem" /\ tx' = Idle /\ price' = price /\ Troves' = Troves
      /\ stakes' = stakes /\ rewards' = rewards /\ defaultPool' = defaultPool
      /\ surplus' = surplus /\ activePool' = adding(activePool, -c, -d)
      /\ zusd' = [zusd EXCEPT !.users = u]
  BY Zenon DEF finishRedemption
<1>2. /\ price \in Prices /\ Affordable(tx, zusd.users)
      /\ Accounts(Troves, stakes, rewards, activePool, defaultPool, surplus, zusd, c, d, 0)
      /\ Purse(zusd)
  BY <1>1, RedeemingPart, Zenon DEF IInv
<1>3. /\ TrovesSound(Troves, rewards) /\ RewardsTyped(rewards)
      /\ PoolHolds(Troves, activePool, c, d) /\ SharesCovered(Troves, rewards, defaultPool)
      /\ Circulates(zusd, activePool, defaultPool)
  BY <1>2, Zenon DEF Accounts
<1>4. c \in Nat /\ d \in Nat /\ u \in Nat
  BY <1>2, <1>3 DEF Affordable, Circulates
<1>5. activePool'.ETH = activePool.ETH + (-c) /\ activePool'.ZUSDDebt = activePool.ZUSDDebt + (-d)
  BY <1>1, Zenon DEF adding
<1>6. SumFunction(Colls(Troves)) \in Nat /\ SumFunction(Debts(Troves)) \in Nat
  BY <1>3, SumsTyped, Zenon
<1> HIDE DEF c, d
<1>7. PoolHolds(Troves, activePool', 0, 0)
  BY <1>3, <1>4, <1>5, <1>6 DEF PoolHolds
<1>8. Circulates(zusd', activePool', defaultPool)
  <2>1. zusd' = [users |-> u, gasPool |-> zusd.gasPool, stabilityPool |-> zusd.stabilityPool]
    <3> HIDE DEF u
    <3> QED
      BY <1>1, <1>2, Zenon DEF Purse
  <2>2. activePool.ZUSDDebt \in Int /\ defaultPool.ZUSDDebt \in Int /\ zusd.gasPool \in Int
    BY <1>2, <1>3, <1>4, <1>6 DEF PoolHolds, SharesCovered, Purse
  <2> QED
    BY <1>3, <1>4, <1>5, <2>1, <2>2 DEF Circulates
<1>9. Settled'
  BY ONLY <1>1, <1>2, <1>7, <1>8, Zenon DEF Settled, Accounts
<1> QED
  BY <1>1, <1>2, <1>9, SettledIdle, Zenon
=============================================================================
