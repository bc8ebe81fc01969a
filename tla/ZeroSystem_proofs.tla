------------------------- MODULE ZeroSystem_proofs -------------------------
(***************************************************************************)
(* The records of which troves exist agree, for every set of borrowers,    *)
(* every price and every amount: the status of a trove, the owners array   *)
(* with the index kept in each trove, the sorted list, and the reserves in *)
(* the GasPool.  Loops over the list never meet a trove that is gone.      *)
(***************************************************************************)
EXTENDS ZeroSystem, FiniteSetTheorems, TLAPS

-----------------------------------------------------------------------------
(* Sequences *)

(* A sequence is a function on its positions. *)
LEMMA Positions ==
    ASSUME NEW S, NEW q \in Seq(S)
    PROVE  Len(q) \in Nat /\ DOMAIN q = 1 .. Len(q) /\ q \in [1 .. Len(q) -> S]
  OBVIOUS

(* Its entries are members of the set it is over. *)
LEMMA Entry ==
    ASSUME NEW S, NEW q \in Seq(S), NEW k \in 1 .. Len(q)
    PROVE  q[k] \in S
  OBVIOUS

(* The empty sequence is the one without positions. *)
LEMMA NoEntry ==
    ASSUME NEW S
    PROVE  << >> \in Seq(S) /\ Len(<< >>) = 0 /\ \A q \in Seq(S) : q = << >> \/ Len(q) \in Nat \ {0}
  OBVIOUS

(* Replacing one entry. *)
LEMMA EntryReplaced ==
    ASSUME NEW S, NEW q \in Seq(S), NEW k \in 1 .. Len(q), NEW x \in S,
           NEW r, r = [q EXCEPT ![k] = x]
    PROVE  r \in Seq(S) /\ Len(r) = Len(q) /\ r[k] = x /\ \A j \in 1 .. Len(q) \ {k} : r[j] = q[j]
  OBVIOUS

(* One sequence behind another. *)
LEMMA Joined ==
    ASSUME NEW S, NEW p \in Seq(S), NEW q \in Seq(S)
    PROVE  /\ p \o q \in Seq(S) /\ Len(p \o q) = Len(p) + Len(q)
           /\ \A k \in 1 .. Len(p) + Len(q) :
                  (p \o q)[k] = IF k <= Len(p) THEN p[k] ELSE q[k - Len(p)]
  OBVIOUS

(* The entries from m to n. *)
LEMMA Piece ==
    ASSUME NEW S, NEW q, NEW m \in Int, NEW n \in Int, \A k \in m .. n : q[k] \in S
    PROVE  /\ SubSeq(q, m, n) \in Seq(S)
           /\ Len(SubSeq(q, m, n)) = IF m <= n THEN n - m + 1 ELSE 0
           /\ \A k \in 1 .. n - m + 1 : SubSeq(q, m, n)[k] = q[m + k - 1]
  OBVIOUS

(* One more entry at the end. *)
LEMMA Appended ==
    ASSUME NEW S, NEW q \in Seq(S), NEW x \in S
    PROVE  /\ Append(q, x) \in Seq(S) /\ Len(Append(q, x)) = Len(q) + 1
           /\ \A k \in 1 .. Len(q) + 1 : Append(q, x)[k] = IF k <= Len(q) THEN q[k] ELSE x
  OBVIOUS

-----------------------------------------------------------------------------
(* The books *)

(* The list L holds each member of A once. *)
Listed(L, A) ==
    /\ L \in Seq(Borrowers)
    /\ \A i, j \in 1 .. Len(L) : L[i] = L[j] => i = j
    /\ A = {L[i] : i \in 1 .. Len(L)}

(* The owners array Ow and the index in each trove of Tr point at each     *)
(* other, for the members of A.                                            *)
Indexed(Tr, Ow, A) ==
    /\ Ow \in Seq(Borrowers)
    /\ \A i \in 1 .. Len(Ow) : Ow[i] \in A /\ Tr[Ow[i]].arrayIndex = i - 1
    /\ \A b \in A : /\ Tr[b].arrayIndex \in Nat
                    /\ Tr[b].arrayIndex + 1 \in 1 .. Len(Ow)
                    /\ Ow[Tr[b].arrayIndex + 1] = b

(* A record with the fields of a trove, whatever they hold. *)
Trove(t) == t = [status |-> t.status, debt |-> t.debt, coll |-> t.coll, stake |-> t.stake,
                 arrayIndex |-> t.arrayIndex, ETH |-> t.ETH, ZUSDDebt |-> t.ZUSDDebt]

ActiveIn(Tr) == {b \in Borrowers : Tr[b].status = "active"}

(* Troves, owners and list agree; a trove that is gone owes nothing. *)
Books(Tr, Ow, L) ==
    /\ Tr = [b \in Borrowers |-> Tr[b]]
    /\ \A b \in Borrowers : Trove(Tr[b])
    /\ \A b \in Borrowers \ ActiveIn(Tr) : Tr[b].debt = 0
    /\ Indexed(Tr, Ow, ActiveIn(Tr))
    /\ Listed(L, ActiveIn(Tr))

-----------------------------------------------------------------------------
(* The sorted list *)

(* Taking a member out of the list closes the gap behind it. *)
LEMMA WithoutMember ==
    ASSUME NEW L \in Seq(Borrowers), NEW k \in 1 .. Len(L),
           \A i, j \in 1 .. Len(L) : L[i] = L[j] => i = j
    PROVE  /\ without(L, L[k]) \in Seq(Borrowers)
           /\ Len(without(L, L[k])) = Len(L) - 1
           /\ \A i \in 1 .. Len(L) - 1 :
                 without(L, L[k])[i] = IF i < k THEN L[i] ELSE L[i + 1]
<1> DEFINE front == SubSeq(L, 1, k - 1)
           back == SubSeq(L, k + 1, Len(L))
<1>1. Len(L) \in Nat /\ \A i \in 1 .. Len(L) : L[i] \in Borrowers
  BY Positions, Entry, Zenon
<1>2. positions(L, L[k]) = {k}
  BY Zenon DEF positions
<1>3. without(L, L[k]) = front \o back
  BY <1>2, Zenon DEF without
<1>4. /\ front \in Seq(Borrowers) /\ Len(front) = k - 1
      /\ \A i \in 1 .. k - 1 : front[i] = L[i]
  BY <1>1, Piece
<1>5. /\ back \in Seq(Borrowers) /\ Len(back) = Len(L) - k
      /\ \A i \in 1 .. Len(L) - k : back[i] = L[k + i]
  <2>1. \A i \in k + 1 .. Len(L) : L[i] \in Borrowers
    BY <1>1
  <2>2. /\ back \in Seq(Borrowers)
        /\ Len(back) = IF k + 1 <= Len(L) THEN Len(L) - (k + 1) + 1 ELSE 0
        /\ \A i \in 1 .. Len(L) - (k + 1) + 1 : back[i] = L[(k + 1) + i - 1]
    BY <1>1, <2>1, Piece
  <2> HIDE DEF back
  <2> QED
    BY <1>1, <2>2
<1> HIDE DEF front, back
<1>6. /\ front \o back \in Seq(Borrowers)
      /\ Len(front \o back) = Len(front) + Len(back)
      /\ \A i \in 1 .. Len(front) + Len(back) :
            (front \o back)[i] = IF i <= Len(front) THEN front[i] ELSE back[i - Len(front)]
  <2>1. front \in Seq(Borrowers) /\ back \in Seq(Borrowers)
    BY <1>4, <1>5, Zenon
  <2> QED
    BY ONLY <2>1, Joined, Zenon
<1> DEFINE joined == front \o back
<1>7. /\ joined \in Seq(Borrowers) /\ Len(joined) = Len(L) - 1
      /\ \A i \in 1 .. Len(L) - 1 :
            joined[i] = IF i <= k - 1 THEN front[i] ELSE back[i - (k - 1)]
  <2> HIDE DEF joined
  <2>1. /\ joined \in Seq(Borrowers) /\ Len(joined) = Len(front) + Len(back)
        /\ \A i \in 1 .. Len(front) + Len(back) :
              joined[i] = IF i <= Len(front) THEN front[i] ELSE back[i - Len(front)]
    BY <1>6, Zenon DEF joined
  <2>2. Len(front) + Len(back) = Len(L) - 1
    BY <1>1, <1>4, <1>5
  <2> QED
    BY <1>4, <2>1, <2>2, Zenon
<1> HIDE DEF joined
<1>8. ASSUME NEW i \in 1 .. Len(L) - 1
      PROVE  joined[i] = IF i < k THEN L[i] ELSE L[i + 1]
  <2>1. CASE i < k
    BY <1>1, <1>4, <1>7, <2>1
  <2>2. CASE ~(i < k)
    <3>1. ~(i <= k - 1) /\ i - (k - 1) \in 1 .. Len(L) - k /\ k + (i - (k - 1)) = i + 1
      BY <1>1, <2>2
    <3>2. joined[i] = back[i - (k - 1)]
      BY <1>7, <3>1, Zenon
    <3>3. back[i - (k - 1)] = L[i + 1]
      BY <1>5, <3>1, Zenon
    <3> QED
      BY ONLY <2>2, <3>2, <3>3, Zenon
  <2> QED
    BY <2>1, <2>2, Zenon
<1> QED
  BY <1>3, <1>7, <1>8, Zenon DEF joined

(* The list without b holds the others; its head is the old one unless     *)
(* that was b.                                                             *)
LEMMA ListWithout ==
    ASSUME NEW L, NEW A, Listed(L, A), NEW b
    PROVE  /\ Listed(without(L, b), A \ {b})
           /\ Len(L) > 0 /\ L[1] # b => Len(without(L, b)) > 0 /\ without(L, b)[1] = L[1]
<1>1. Len(L) \in Nat /\ \A i \in 1 .. Len(L) : L[i] \in Borrowers
  BY Positions, Entry, Zenon DEF Listed
<1>2. CASE b \in A
  <2>1. PICK k \in 1 .. Len(L) : L[k] = b
    BY <1>2, Zenon DEF Listed
  <2> DEFINE w == without(L, b)
  <2>2. /\ w \in Seq(Borrowers) /\ Len(w) = Len(L) - 1
        /\ \A i \in 1 .. Len(L) - 1 : w[i] = IF i < k THEN L[i] ELSE L[i + 1]
    <3>1. L \in Seq(Borrowers) /\ \A i, j \in 1 .. Len(L) : L[i] = L[j] => i = j
      BY Zenon DEF Listed
    <3>2. /\ without(L, L[k]) \in Seq(Borrowers)
          /\ Len(without(L, L[k])) = Len(L) - 1
          /\ \A i \in 1 .. Len(L) - 1 :
                without(L, L[k])[i] = IF i < k THEN L[i] ELSE L[i + 1]
      BY ONLY <3>1, WithoutMember, Zenon, k \in 1 .. Len(L)
    <3> QED
      BY ONLY <2>1, <3>2, Zenon DEF w
  <2> HIDE DEF w
  <2>3. ASSUME NEW i \in 1 .. Len(w), NEW j \in 1 .. Len(w), w[i] = w[j]
        PROVE  i = j
    <3>1. /\ i \in 1 .. Len(L) /\ i + 1 \in 1 .. Len(L)
          /\ j \in 1 .. Len(L) /\ j + 1 \in 1 .. Len(L)
      BY <1>1, <2>2
    <3>2. \A m, n \in 1 .. Len(L) : L[m] = L[n] => m = n
      BY Zenon DEF Listed
    <3>3. w[i] = IF i < k THEN L[i] ELSE L[i + 1]
      BY <1>1, <2>2, Zenon
    <3>4. w[j] = IF j < k THEN L[j] ELSE L[j + 1]
      BY <1>1, <2>2, Zenon
    <3>5. CASE i < k /\ j < k
      BY <2>3, <3>1, <3>2, <3>3, <3>4, <3>5, Zenon
    <3>6. CASE i < k /\ ~(j < k)
      <4>1. i = j + 1
        BY <2>3, <3>1, <3>2, <3>3, <3>4, <3>6, Zenon
      <4> QED
        BY <1>1, <3>1, <3>6, <4>1
    <3>7. CASE ~(i < k) /\ j < k
      <4>1. i + 1 = j
        BY <2>3, <3>1, <3>2, <3>3, <3>4, <3>7, Zenon
      <4> QED
        BY <1>1, <3>1, <3>7, <4>1
    <3>8. CASE ~(i < k) /\ ~(j < k)
      <4>1. i + 1 = j + 1
        BY <2>3, <3>1, <3>2, <3>3, <3>4, <3>8, Zenon
      <4> QED
        BY <1>1, <3>1, <4>1
    <3> QED
      BY <3>5, <3>6, <3>7, <3>8, Zenon
  <2>4. A \ {b} = {w[i] : i \in 1 .. Len(w)}
    <3>1. ASSUME NEW i \in 1 .. Len(w)
          PROVE  w[i] \in A \ {b}
      <4>1. i \in 1 .. Len(L) - 1 /\ i \in 1 .. Len(L) /\ i + 1 \in 1 .. Len(L) /\ i + 1 # i
        BY <1>1, <2>2
      <4>2. PICK m \in 1 .. Len(L) : w[i] = L[m] /\ m # k
        <5>1. CASE i < k
          BY <2>2, <4>1, <5>1
        <5>2. CASE ~(i < k)
          <6>1. i + 1 # k
            BY <1>1, <4>1, <5>2
          <6> QED
            BY <2>2, <4>1, <5>2, <6>1, Zenon
        <5> QED
          BY <5>1, <5>2, Zenon
      <4>3. L[m] \in A
        BY Zenon DEF Listed
      <4>4. L[m] # L[k]
        BY <4>2, Zenon DEF Listed
      <4> QED
        BY ONLY <2>1, <4>2, <4>3, <4>4, Zenon
    <3>2. ASSUME NEW a \in A \ {b}
          PROVE  \E i \in 1 .. Len(w) : w[i] = a
      <4>1. PICK j \in 1 .. Len(L) : L[j] = a
        BY Zenon DEF Listed
      <4>2. CASE j < k
        BY <1>1, <2>2, <4>1, <4>2
      <4>3. CASE j > k
        <5>1. j - 1 \in 1 .. Len(w) /\ ~(j - 1 < k) /\ (j - 1) + 1 = j
          BY <1>1, <2>2, <4>3
        <5> QED
          BY <1>1, <2>2, <4>1, <5>1, Zenon
      <4> QED
        BY <1>1, <2>1, <4>1, <4>2, <4>3
    <3> QED
      BY <3>1, <3>2, Zenon
  <2>5. Len(L) > 0 /\ L[1] # b => Len(w) > 0 /\ w[1] = L[1]
    BY <1>1, <2>1, <2>2
  <2> QED
    BY <2>2, <2>3, <2>4, <2>5, Zenon DEF Listed, w
<1>3. CASE b \notin A
  <2>1. without(L, b) = L
    BY <1>3, Zenon DEF Listed, without, positions
  <2> QED
    BY <1>3, <2>1, Zenon DEF Listed
<1> QED
  BY <1>2, <1>3, Zenon

(* Putting b behind the first k entries moves the others back. *)
LEMMA InsertedAfter ==
    ASSUME NEW L \in Seq(Borrowers), NEW k \in 0 .. Len(L), NEW b \in Borrowers
    PROVE  /\ insertAfter(L, k, b) \in Seq(Borrowers)
           /\ Len(insertAfter(L, k, b)) = Len(L) + 1
           /\ \A i \in 1 .. Len(L) + 1 :
                 insertAfter(L, k, b)[i] =
                   IF i <= k THEN L[i] ELSE IF i = k + 1 THEN b ELSE L[i - 1]
<1> DEFINE front == SubSeq(L, 1, k)
           back == SubSeq(L, k + 1, Len(L))
           one == <<b>>
           half == front \o one
           whole == half \o back
<1>1. Len(L) \in Nat /\ \A i \in 1 .. Len(L) : L[i] \in Borrowers
  BY Positions, Entry, Zenon
<1>2. /\ front \in Seq(Borrowers) /\ Len(front) = k
      /\ \A i \in 1 .. k : front[i] = L[i]
  <2>1. \A i \in 1 .. k : L[i] \in Borrowers
    BY <1>1
  <2>2. /\ front \in Seq(Borrowers)
        /\ Len(front) = IF 1 <= k THEN k - 1 + 1 ELSE 0
        /\ \A i \in 1 .. k - 1 + 1 : front[i] = L[1 + i - 1]
    BY <2>1, Piece
  <2> HIDE DEF front
  <2> QED
    BY <1>1, <2>2
<1>3. /\ back \in Seq(Borrowers) /\ Len(back) = Len(L) - k
      /\ \A i \in 1 .. Len(L) - k : back[i] = L[k + i]
  <2>1. \A i \in k + 1 .. Len(L) : L[i] \in Borrowers
    BY <1>1
  <2>2. /\ back \in Seq(Borrowers)
        /\ Len(back) = IF k + 1 <= Len(L) THEN Len(L) - (k + 1) + 1 ELSE 0
        /\ \A i \in 1 .. Len(L) - (k + 1) + 1 : back[i] = L[(k + 1) + i - 1]
    BY <1>1, <2>1, Piece
  <2> HIDE DEF back
  <2> QED
    BY <1>1, <2>2
<1>4. one \in Seq(Borrowers) /\ Len(one) = 1 /\ one[1] = b
  OBVIOUS
<1>5. insertAfter(L, k, b) = whole
  BY Zenon DEF insertAfter
<1> HIDE DEF front, back, one, half, whole
<1>6. /\ half \in Seq(Borrowers) /\ Len(half) = k + 1
      /\ \A i \in 1 .. k + 1 : half[i] = IF i <= k THEN L[i] ELSE b
  <2>1. /\ half \in Seq(Borrowers) /\ Len(half) = Len(front) + Len(one)
        /\ \A i \in 1 .. Len(front) + Len(one) :
              half[i] = IF i <= Len(front) THEN front[i] ELSE one[i - Len(front)]
    <3>1. front \in Seq(Borrowers) /\ one \in Seq(Borrowers)
      BY <1>2, <1>4, Zenon
    <3> QED
      BY ONLY <3>1, Joined, Zenon DEF half
  <2> QED
    BY <1>1, <1>2, <1>4, <2>1
<1>7. /\ whole \in Seq(Borrowers) /\ Len(whole) = Len(L) + 1
      /\ \A i \in 1 .. Len(L) + 1 :
            whole[i] = IF i <= k + 1 THEN half[i] ELSE back[i - (k + 1)]
  <2>1. /\ whole \in Seq(Borrowers) /\ Len(whole) = Len(half) + Len(back)
        /\ \A i \in 1 .. Len(half) + Len(back) :
              whole[i] = IF i <= Len(half) THEN half[i] ELSE back[i - Len(half)]
    <3>1. half \in Seq(Borrowers) /\ back \in Seq(Borrowers)
      BY <1>3, <1>6, Zenon
    <3> QED
      BY ONLY <3>1, Joined, Zenon DEF whole
  <2>2. Len(half) + Len(back) = Len(L) + 1
    BY <1>1, <1>3, <1>6
  <2> QED
    BY <1>6, <2>1, <2>2, Zenon
<1>8. ASSUME NEW i \in 1 .. Len(L) + 1
      PROVE  whole[i] = IF i <= k THEN L[i] ELSE IF i = k + 1 THEN b ELSE L[i - 1]
  <2>1. CASE i <= k + 1
    BY <1>1, <1>6, <1>7, <2>1
  <2>2. CASE ~(i <= k + 1)
    <3>1. i - (k + 1) \in 1 .. Len(L) - k /\ k + (i - (k + 1)) = i - 1
      BY <1>1, <2>2
    <3>2. whole[i] = back[i - (k + 1)]
      BY <1>7, <2>2, Zenon
    <3>3. back[i - (k + 1)] = L[i - 1]
      BY <1>3, <3>1, Zenon
    <3>4. ~(i <= k) /\ i # k + 1
      BY <1>1, <2>2
    <3> QED
      BY ONLY <3>2, <3>3, <3>4, Zenon
  <2> QED
    BY <2>1, <2>2, Zenon
<1> QED
  BY <1>5, <1>7, <1>8, Zenon

(* Inserting a borrower who is not in the list adds exactly them. *)
LEMMA ListInsert ==
    ASSUME NEW L, NEW A, Listed(L, A), NEW b \in Borrowers, b \notin A, NEW k \in 0 .. Len(L)
    PROVE  Listed(insertAfter(L, k, b), A \cup {b})
<1> DEFINE w == insertAfter(L, k, b)
<1>1. Len(L) \in Nat /\ \A i \in 1 .. Len(L) : L[i] \in A
  BY Positions, Zenon DEF Listed
<1>2. /\ w \in Seq(Borrowers) /\ Len(w) = Len(L) + 1
      /\ \A i \in 1 .. Len(L) + 1 :
            w[i] = IF i <= k THEN L[i] ELSE IF i = k + 1 THEN b ELSE L[i - 1]
  <2>1. L \in Seq(Borrowers)
    BY Zenon DEF Listed
  <2> QED
    BY ONLY <2>1, InsertedAfter, k \in 0 .. Len(L), b \in Borrowers, ZenonT(60) DEF w
<1> HIDE DEF w
<1>3. ASSUME NEW i \in 1 .. Len(w), NEW j \in 1 .. Len(w), w[i] = w[j]
      PROVE  i = j
  <2> DEFINE from(n) == IF n <= k THEN n ELSE n - 1
  <2>1. \A m, n \in 1 .. Len(L) : L[m] = L[n] => m = n
    BY Zenon DEF Listed
  <2>2. ASSUME NEW n \in 1 .. Len(w)
        PROVE  /\ n = k + 1 => w[n] = b
               /\ n # k + 1 => from(n) \in 1 .. Len(L) /\ w[n] = L[from(n)] /\ w[n] # b
    BY <1>1, <1>2
  <2>3. CASE i = k + 1
    BY <1>3, <2>2, <2>3, Zenon
  <2>4. CASE j = k + 1
    BY <1>3, <2>2, <2>4, Zenon
  <2>5. CASE i # k + 1 /\ j # k + 1
    <3>1. from(i) = from(j)
      BY <1>3, <2>1, <2>2, <2>5, Zenon
    <3> QED
      BY <1>1, <1>2, <2>5, <3>1
  <2> QED
    BY <2>3, <2>4, <2>5, Zenon
<1>4. A \cup {b} = {w[i] : i \in 1 .. Len(w)}
  <2>1. ASSUME NEW i \in 1 .. Len(w)
        PROVE  w[i] \in A \cup {b}
    <3>1. i <= k => i \in 1 .. Len(L)
      BY <1>1, <1>2
    <3>2. ~(i <= k) /\ i # k + 1 => i - 1 \in 1 .. Len(L)
      BY <1>1, <1>2
    <3> QED
      BY <1>1, <1>2, <3>1, <3>2, Zenon
  <2>2. ASSUME NEW a \in A \cup {b}
        PROVE  \E i \in 1 .. Len(w) : w[i] = a
    <3>1. CASE a = b
      <4>1. k + 1 \in 1 .. Len(w) /\ ~(k + 1 <= k)
        BY <1>1, <1>2
      <4> QED
        BY <1>2, <3>1, <4>1, Zenon
    <3>2. CASE a \in A
      <4>1. PICK j \in 1 .. Len(L) : L[j] = a
        BY <3>2, Zenon DEF Listed
      <4>2. CASE j <= k
        BY <1>1, <1>2, <4>1, <4>2
      <4>3. CASE ~(j <= k)
        <5>1. j + 1 \in 1 .. Len(w) /\ ~(j + 1 <= k) /\ j + 1 # k + 1 /\ (j + 1) - 1 = j
          BY <1>1, <1>2, <4>3
        <5> QED
          BY <1>2, <4>1, <5>1, Zenon
      <4> QED
        BY <4>2, <4>3, Zenon
    <3> QED
      BY <3>1, <3>2, Zenon
  <2> QED
    BY <2>1, <2>2, Zenon
<1> QED
  BY <1>2, <1>3, <1>4, Zenon DEF Listed, w

(* insert and reInsert of SortedTroves leave b in the list, and everyone   *)
(* else who was there.                                                     *)
LEMMA ListReInsert ==
    ASSUME NEW A, Listed(sortedTroves, A), NEW b \in Borrowers, NEW NICR, reInsert(b, NICR)
    PROVE  Listed(sortedTroves', A \cup {b})
<1> DEFINE rest == without(sortedTroves, b)
<1>1. Listed(rest, A \ {b})
  BY ListWithout, Zenon
<1>2. PICK i \in 0 .. Len(rest) : sortedTroves' = insertAfter(rest, i, b)
  BY Zenon DEF reInsert
<1> HIDE DEF rest
<1>3. Listed(insertAfter(rest, i, b), (A \ {b}) \cup {b})
  BY <1>1, ListInsert, Zenon
<1>4. (A \ {b}) \cup {b} = A \cup {b}
  BY Zenon
<1> QED
  BY <1>2, <1>3, <1>4, Zenon

(* The neighbour towards the head is someone else in the list; only the    *)
(* head has none.                                                          *)
LEMMA PrevListed ==
    ASSUME NEW A, Listed(sortedTroves, A), NEW b \in A
    PROVE  /\ getPrev(b) \in (A \ {b}) \cup {NULL}
           /\ b # sortedTroves[1] => getPrev(b) \in A \ {b}
<1> DEFINE before == {i \in 1 .. Len(sortedTroves) - 1 : sortedTroves[i + 1] = b}
<1>1. Len(sortedTroves) \in Nat
  BY Positions, Zenon DEF Listed
<1>2. PICK k \in 1 .. Len(sortedTroves) : sortedTroves[k] = b
  BY Zenon DEF Listed
<1>3. \A m, n \in 1 .. Len(sortedTroves) : sortedTroves[m] = sortedTroves[n] => m = n
  BY Zenon DEF Listed
<1>4. ASSUME NEW i \in before
      PROVE  sortedTroves[i] \in A \ {b}
  <2>1. /\ i \in 1 .. Len(sortedTroves) /\ i + 1 \in 1 .. Len(sortedTroves)
        /\ sortedTroves[i + 1] = b /\ i # i + 1
    BY <1>1
  <2>2. sortedTroves[i] \in A
    BY <2>1, Zenon DEF Listed
  <2> QED
    BY <1>3, <2>1, <2>2, Zenon
<1>5. b # sortedTroves[1] => k - 1 \in before
  BY <1>1, <1>2
<1>6. getPrev(b) = IF before = {} THEN NULL ELSE sortedTroves[CHOOSE i \in before : TRUE]
  BY Zenon DEF getPrev
<1> HIDE DEF before
<1>7. before # {} => (CHOOSE i \in before : TRUE) \in before
  BY Zenon
<1> QED
  BY <1>4, <1>5, <1>6, <1>7, Zenon

-----------------------------------------------------------------------------
(* Changes to the books *)

(* A change of one trove that leaves its status and index alone, with any  *)
(* reordering of the list, keeps the books.                                *)
LEMMA BooksAfterUpdate ==
    ASSUME NEW Tr, NEW Ow, NEW L, Books(Tr, Ow, L),
           NEW b \in ActiveIn(Tr), NEW u, Trove(u),
           u.status = "active", u.arrayIndex = Tr[b].arrayIndex,
           NEW M, Listed(M, ActiveIn(Tr) \cup {b}), NEW Us, Us = [Tr EXCEPT ![b] = u]
    PROVE  Books(Us, Ow, M) /\ ActiveIn(Us) = ActiveIn(Tr)
<1>1. /\ Us = [a \in Borrowers |-> Us[a]]
      /\ \A a \in Borrowers : Us[a] = IF a = b THEN u ELSE Tr[a]
      /\ b \in Borrowers /\ Tr[b].status = "active"
  BY Zenon DEF Books, ActiveIn
<1>2. ActiveIn(Us) = ActiveIn(Tr)
  BY <1>1, Zenon DEF ActiveIn
<1>3. \A a \in Borrowers : Trove(Us[a])
  BY <1>1, Zenon DEF Books
<1>4. \A a \in Borrowers : Us[a].arrayIndex = Tr[a].arrayIndex
  BY <1>1, Zenon
<1>5. \A a \in Borrowers \ ActiveIn(Us) : Us[a].debt = 0
  BY <1>1, <1>2, Zenon DEF Books
<1>6. ActiveIn(Tr) \subseteq Borrowers
  BY Zenon DEF ActiveIn
<1>7. Indexed(Us, Ow, ActiveIn(Us))
  BY <1>2, <1>4, <1>6, Zenon DEF Books, Indexed
<1>8. ActiveIn(Tr) \cup {b} = ActiveIn(Tr)
  BY Zenon
<1> QED
  BY <1>1, <1>2, <1>3, <1>5, <1>7, <1>8, Zenon DEF Books

(* A new trove is recorded in all three places. *)
LEMMA BooksAfterOpen ==
    ASSUME NEW Tr, NEW Ow, NEW L, Books(Tr, Ow, L),
           NEW b \in Borrowers \ ActiveIn(Tr), NEW u, Trove(u),
           u.status = "active", u.arrayIndex = Len(Ow),
           NEW M, Listed(M, ActiveIn(Tr) \cup {b}), NEW Us, Us = [Tr EXCEPT ![b] = u]
    PROVE  Books(Us, Append(Ow, b), M) /\ Len(Append(Ow, b)) = Len(Ow) + 1
<1> DEFINE N == Append(Ow, b)
<1>1. /\ Us = [a \in Borrowers |-> Us[a]]
      /\ \A a \in Borrowers : Us[a] = IF a = b THEN u ELSE Tr[a]
  BY Zenon DEF Books
<1>2. ActiveIn(Us) = ActiveIn(Tr) \cup {b}
  BY <1>1, Zenon DEF ActiveIn
<1>3. \A a \in Borrowers : Trove(Us[a])
  BY <1>1, Zenon DEF Books
<1>4. \A a \in Borrowers \ ActiveIn(Us) : Us[a].debt = 0
  BY <1>1, <1>2, Zenon DEF Books
<1>5. Ow \in Seq(Borrowers) /\ Len(Ow) \in Nat
  BY Positions, Zenon DEF Books, Indexed
<1>6. /\ N \in Seq(Borrowers) /\ Len(N) = Len(Ow) + 1
      /\ \A i \in 1 .. Len(Ow) : N[i] = Ow[i]
      /\ N[Len(Ow) + 1] = b
  BY <1>5, Appended
<1> HIDE DEF N
<1>7. Indexed(Us, N, ActiveIn(Us))
  <2>1. ASSUME NEW i \in 1 .. Len(N)
        PROVE  N[i] \in ActiveIn(Us) /\ Us[N[i]].arrayIndex = i - 1
    <3>1. CASE i = Len(Ow) + 1
      <4>1. N[i] = b /\ Us[b].arrayIndex = Len(Ow)
        BY <1>1, <1>6, <3>1, Zenon
      <4>2. i - 1 = Len(Ow)
        BY <1>5, <3>1
      <4> QED
        BY <1>2, <4>1, <4>2, Zenon
    <3>2. CASE i # Len(Ow) + 1
      <4>1. i \in 1 .. Len(Ow) /\ N[i] = Ow[i]
        BY <1>5, <1>6, <3>2
      <4>2. Ow[i] \in ActiveIn(Tr) /\ Tr[Ow[i]].arrayIndex = i - 1
        BY <4>1, Zenon DEF Books, Indexed
      <4>3. Ow[i] \in Borrowers /\ Ow[i] # b
        BY <4>2, Zenon DEF ActiveIn
      <4> QED
        BY <1>1, <1>2, <4>1, <4>2, <4>3, Zenon
    <3> QED
      BY <3>1, <3>2, Zenon
  <2>2. ASSUME NEW a \in ActiveIn(Us)
        PROVE  /\ Us[a].arrayIndex \in Nat
               /\ Us[a].arrayIndex + 1 \in 1 .. Len(N)
               /\ N[Us[a].arrayIndex + 1] = a
    <3>1. CASE a = b
      BY <1>1, <1>5, <1>6, <3>1
    <3>2. CASE a # b
      <4>1. a \in ActiveIn(Tr) /\ Us[a] = Tr[a]
        BY <1>1, <1>2, <3>2, Zenon DEF ActiveIn
      <4>2. /\ Tr[a].arrayIndex \in Nat /\ Tr[a].arrayIndex + 1 \in 1 .. Len(Ow)
            /\ Ow[Tr[a].arrayIndex + 1] = a
        BY <4>1, Zenon DEF Books, Indexed
      <4> QED
        BY <1>5, <1>6, <4>1, <4>2
    <3> QED
      BY <3>1, <3>2, Zenon
  <2> QED
    BY <1>6, <2>1, <2>2, Zenon DEF Indexed
<1> QED
  BY <1>1, <1>2, <1>3, <1>4, <1>6, <1>7, Zenon DEF Books, N

(* The swap-and-pop removal of _removeTroveOwner and the removal from the  *)
(* list take exactly the closed trove out of the books.                    *)
LEMMA BooksAfterClose ==
    ASSUME Books(Troves, TroveOwners, sortedTroves), NEW b \in Active,
           NEW closedStatus, closedStatus # "active", closeTrove(b, closedStatus)
    PROVE  /\ Books(Troves', TroveOwners', sortedTroves')
           /\ ActiveIn(Troves') = Active \ {b}
           /\ Len(TroveOwners') = Len(TroveOwners) - 1
           /\ sortedTroves' = without(sortedTroves, b)
<1> DEFINE n == Len(TroveOwners)
           k == indexOf(b)
           moved == [TroveOwners EXCEPT ![k] = lastOwner]
           closed == [NoTrove EXCEPT !.status = closedStatus,
                                     !.arrayIndex = Troves[b].arrayIndex]
<1>1. ActiveIn(Troves) = Active /\ b \in Borrowers /\ Active \subseteq Borrowers
  BY Zenon DEF Active, ActiveIn, isActive
<1>2. /\ TroveOwners \in Seq(Borrowers) /\ n \in Nat
      /\ \A i \in 1 .. n : TroveOwners[i] \in Active /\ Troves[TroveOwners[i]].arrayIndex = i - 1
      /\ \A a \in Active : /\ Troves[a].arrayIndex \in Nat
                           /\ Troves[a].arrayIndex + 1 \in 1 .. n
                           /\ TroveOwners[Troves[a].arrayIndex + 1] = a
  BY <1>1, Positions, Zenon DEF Books, Indexed
<1>3. k \in 1 .. n /\ TroveOwners[k] = b /\ Troves[b].arrayIndex = k - 1
  BY <1>2, Zenon DEF indexOf
<1>4. lastOwner \in Active /\ lastOwner \in Borrowers /\ Troves[lastOwner].arrayIndex = n - 1
  BY <1>1, <1>2, <1>3 DEF lastOwner
<1>5. /\ moved \in Seq(Borrowers) /\ Len(moved) = n
      /\ \A j \in 1 .. n : moved[j] = IF j = k THEN lastOwner ELSE TroveOwners[j]
  BY <1>2, <1>3, <1>4, EntryReplaced
<1> HIDE DEF moved, n
<1>6. /\ TroveOwners' \in Seq(Borrowers) /\ Len(TroveOwners') = n - 1
      /\ \A i \in 1 .. n - 1 : TroveOwners'[i] = moved[i]
  <2>1. \A i \in 1 .. n - 1 : moved[i] \in Borrowers
    BY <1>2, <1>5, Entry
  <2>2. TroveOwners' = SubSeq(moved, 1, n - 1)
    BY Zenon DEF closeTrove, removeTroveOwner, moved, n
  <2>3. /\ SubSeq(moved, 1, n - 1) \in Seq(Borrowers)
        /\ Len(SubSeq(moved, 1, n - 1)) = IF 1 <= n - 1 THEN (n - 1) - 1 + 1 ELSE 0
        /\ \A i \in 1 .. (n - 1) - 1 + 1 : SubSeq(moved, 1, n - 1)[i] = moved[1 + i - 1]
    <3>1. n - 1 \in Int /\ 1 \in Int
      BY <1>2
    <3> QED
      BY ONLY <2>1, <3>1, Piece
  <2> DEFINE popped == SubSeq(moved, 1, n - 1)
  <2> HIDE DEF popped
  <2>4. /\ popped \in Seq(Borrowers) /\ Len(popped) = n - 1
        /\ \A i \in 1 .. n - 1 : popped[i] = moved[i]
    <3>1. /\ popped \in Seq(Borrowers)
          /\ Len(popped) = IF 1 <= n - 1 THEN (n - 1) - 1 + 1 ELSE 0
          /\ \A i \in 1 .. (n - 1) - 1 + 1 : popped[i] = moved[1 + i - 1]
      BY <2>3, Zenon DEF popped
    <3> QED
      BY <1>2, <1>3, <3>1
  <2> QED
    BY <2>2, <2>4, Zenon DEF popped
<1>7. /\ Troves' = [a \in Borrowers |-> Troves'[a]]
      /\ \A a \in Borrowers :
            Troves'[a] = IF a = b THEN closed
                         ELSE IF a = lastOwner
                         THEN [Troves[a] EXCEPT !.arrayIndex = Troves[b].arrayIndex]
                         ELSE Troves[a]
  BY Zenon DEF closeTrove
<1>8. /\ Trove(closed) /\ closed.status = closedStatus /\ closed.debt = 0
  <2> DEFINE index == Troves[b].arrayIndex
  <2>1. closed = [NoTrove EXCEPT !.status = closedStatus, !.arrayIndex = index]
    BY Zenon
  <2> HIDE DEF index, closed
  <2>2. closed = [status |-> closedStatus, debt |-> 0, coll |-> 0, stake |-> 0,
                  arrayIndex |-> index, ETH |-> 0, ZUSDDebt |-> 0]
    BY <2>1, Zenon DEF NoTrove
  <2> QED
    BY <2>2, Zenon DEF Trove
<1>9. ASSUME NEW a \in Borrowers, a # b
      PROVE  /\ Trove(Troves'[a]) /\ Troves'[a].status = Troves[a].status
             /\ Troves'[a].debt = Troves[a].debt
             /\ Troves'[a].arrayIndex = IF a = lastOwner THEN k - 1 ELSE Troves[a].arrayIndex
  <2>1. Trove(Troves[a])
    BY Zenon DEF Books
  <2>2. CASE a = lastOwner
    <3>1. Troves'[a] = [Troves[a] EXCEPT !.arrayIndex = k - 1]
      BY <1>3, <1>7, <1>9, <2>2, Zenon
    <3> HIDE DEF k
    <3> QED
      BY <2>1, <2>2, <3>1, Zenon DEF Trove
  <2>3. CASE a # lastOwner
    BY <1>7, <1>9, <2>1, <2>3, Zenon
  <2> QED
    BY <2>2, <2>3, Zenon
<1> HIDE DEF closed
<1>10. ActiveIn(Troves') = Active \ {b}
  BY <1>1, <1>7, <1>8, <1>9, Zenon DEF ActiveIn
<1>11. \A a \in Borrowers : Trove(Troves'[a])
  BY <1>7, <1>8, <1>9, Zenon
<1>12. \A a \in Borrowers \ ActiveIn(Troves') : Troves'[a].debt = 0
  BY <1>1, <1>7, <1>8, <1>9, <1>10, Zenon DEF Books
<1>13. Listed(sortedTroves', ActiveIn(Troves')) /\ sortedTroves' = without(sortedTroves, b)
  BY <1>1, <1>10, ListWithout DEF Books, closeTrove
<1>14. Indexed(Troves', TroveOwners', ActiveIn(Troves'))
  <2>1. ASSUME NEW i \in 1 .. n - 1
        PROVE  TroveOwners'[i] \in Active \ {b} /\ Troves'[TroveOwners'[i]].arrayIndex = i - 1
    <3>1. i \in 1 .. n /\ i # n
      BY <1>2
    <3>2. CASE i = k
      <4>1. TroveOwners'[i] = lastOwner
        BY <1>5, <1>6, <3>1, <3>2, Zenon
      <4>2. lastOwner # b
        BY <1>2, <1>3, <1>4, <3>1, <3>2
      <4> QED
        BY <1>4, <1>9, <3>2, <4>1, <4>2, Zenon
    <3>3. CASE i # k
      <4>1. TroveOwners'[i] = TroveOwners[i]
        BY <1>5, <1>6, <3>1, <3>3, Zenon
      <4>2. TroveOwners[i] \in Active /\ Troves[TroveOwners[i]].arrayIndex = i - 1
        BY <1>2, <3>1, Zenon
      <4>3. TroveOwners[i] # b /\ TroveOwners[i] # lastOwner
        <5>1. i - 1 # k - 1 /\ i - 1 # n - 1
          BY <1>2, <1>3, <3>1, <3>3
        <5> QED
          BY ONLY <1>3, <1>4, <4>2, <5>1, Zenon
      <4> QED
        BY <1>1, <1>9, <4>1, <4>2, <4>3, Zenon
    <3> QED
      BY <3>2, <3>3, Zenon
  <2>2. ASSUME NEW a \in Active \ {b}
        PROVE  /\ Troves'[a].arrayIndex \in Nat
               /\ Troves'[a].arrayIndex + 1 \in 1 .. n - 1
               /\ TroveOwners'[Troves'[a].arrayIndex + 1] = a
    <3>1. a \in Borrowers /\ a # b
      BY <1>1, Zenon
    <3>2. CASE a = lastOwner
      <4>1. Troves'[a].arrayIndex = k - 1
        BY <1>9, <3>1, <3>2, Zenon
      <4>2. k # n
        BY <1>3, <3>1, <3>2, Zenon DEF lastOwner, n
      <4>3. k \in 1 .. n - 1 /\ k - 1 \in Nat /\ (k - 1) + 1 = k
        BY <1>2, <1>3, <4>2
      <4> HIDE DEF k
      <4> QED
        BY <1>3, <1>5, <1>6, <3>2, <4>1, <4>3, Zenon
    <3>3. CASE a # lastOwner
      <4> DEFINE j == Troves[a].arrayIndex + 1
      <4>1. Troves'[a].arrayIndex = Troves[a].arrayIndex
        BY <1>9, <3>1, <3>3, Zenon
      <4>2. Troves[a].arrayIndex \in Nat /\ j \in 1 .. n /\ TroveOwners[j] = a
        BY <1>2, Zenon
      <4>3. j # n /\ j # k
        BY <1>3, <3>1, <3>3, <4>2, Zenon DEF lastOwner, n
      <4>4. j \in 1 .. n - 1
        BY <1>2, <4>2, <4>3
      <4>5. TroveOwners'[j] = a
        BY <1>5, <1>6, <4>2, <4>3, <4>4, Zenon
      <4> QED
        BY <4>1, <4>2, <4>4, <4>5, Zenon
    <3> QED
      BY <3>2, <3>3, Zenon
  <2> QED
    BY <1>6, <1>10, <2>1, <2>2, Zenon DEF Indexed
<1> QED
  BY <1>6, <1>7, <1>10, <1>11, <1>12, <1>13, <1>14, Zenon DEF Books, n

-----------------------------------------------------------------------------
(* The trove a redemption starts from *)

(* A set of positions has a largest one. *)
LEMMA LargestPosition ==
    ASSUME NEW n \in Nat, NEW S, S \subseteq 1 .. n, S # {}
    PROVE  Max(S) \in S
<1> DEFINE T == {n - i : i \in S}
           R == OpToRel(<, Nat)
<1>1. T \subseteq Nat /\ T # {}
  <2>1. \A i \in S : n - i \in Nat
    OBVIOUS
  <2>2. PICK i \in S : TRUE
    BY Zenon
  <2>3. n - i \in T
    BY <2>2, Zenon
  <2> QED
    BY <2>1, <2>3, Zenon
<1>2. \E x \in T : \A y \in T : ~ (<<y, x>> \in R)
  <2> HIDE DEF T
  <2> QED
    BY <1>1, NatLessThanWellFounded, WFMin, Zenon
<1>3. PICK x \in T : \A y \in T : ~ (<<y, x>> \in R)
  BY <1>2, Zenon
<1>4. \A y \in T : ~(y < x)
  <2> HIDE DEF T
  <2> QED
    BY <1>1, <1>3, Zenon DEF OpToRel
<1>5. PICK m \in S : x = n - m
  BY Zenon
<1>6. \A j \in S : m >= j
  <2>1. \A j \in S : n - j \in T
    BY Zenon
  <2> HIDE DEF T
  <2> QED
    BY <1>4, <1>5, <2>1
<1> QED
  BY <1>6, Zenon DEF Max

(* The redemption loop starts at an active trove, or nowhere. *)
LEMMA FirstRedeemableListed ==
    ASSUME NEW A, Listed(sortedTroves, A)
    PROVE  firstRedeemable \in A \cup {NULL}
<1> DEFINE good == {i \in 1 .. Len(sortedTroves) : getCurrentICR(sortedTroves[i]) >= MCR}
<1>1. Len(sortedTroves) \in Nat /\ good \subseteq 1 .. Len(sortedTroves)
  BY Positions, Zenon DEF Listed
<1>2. firstRedeemable = IF good = {} THEN NULL ELSE sortedTroves[Max(good)]
  BY Zenon DEF firstRedeemable
<1> HIDE DEF good
<1>3. good # {} => Max(good) \in 1 .. Len(sortedTroves)
  BY <1>1, LargestPosition, Zenon
<1> QED
  BY <1>2, <1>3, Zenon DEF Listed

-----------------------------------------------------------------------------
(* The inductive invariant *)

(* The holders of ZUSD; of the amounts only the reserves matter here. *)
Purse(z) ==
    /\ z = [users |-> z.users, gasPool |-> z.gasPool, stabilityPool |-> z.stabilityPool]
    /\ z.gasPool \in Int

Reserves(Ow) == ZUSD_GAS_COMPENSATION * Len(Ow)

(* What a revert goes back to. *)
SavedGood(s) ==
    /\ Books(s.Troves, s.TroveOwners, s.sortedTroves)
    /\ Purse(s.zusd) /\ s.zusd.gasPool = Reserves(s.TroveOwners)

LiquidationTx(t) ==
    /\ t = [op |-> "liquidate", batch |-> t.batch, array |-> t.array,
            user |-> t.user, firstUser |-> t.firstUser, left |-> t.left,
            recoveryModeAtStart |-> t.recoveryModeAtStart,
            backToNormalMode |-> t.backToNormalMode,
            remainingZUSDInStabPool |-> t.remainingZUSDInStabPool,
            entireSystemDebt |-> t.entireSystemDebt,
            entireSystemColl |-> t.entireSystemColl,
            totals |-> t.totals, saved |-> t.saved]
    /\ t.batch \in BOOLEAN
    /\ t.array \in Seq(Borrowers)
    /\ t.totals.ZUSDGasCompensation \in Int

(* A liquidation in progress: a sequence in Recovery Mode stands at an     *)
(* active trove and ends at the head of the list, which stays.             *)
LiquidationGood ==
    /\ LiquidationTx(tx) /\ SavedGood(tx.saved)
    /\ TroveOwners # << >> /\ tx.saved.TroveOwners # << >>
    /\ zusd.gasPool = Reserves(TroveOwners) + tx.totals.ZUSDGasCompensation
    /\ ~tx.batch /\ tx.recoveryModeAtStart =>
          tx.firstUser = sortedTroves[1] /\ tx.user \in Active

RedemptionTx(t) ==
    t = [op |-> "redeem", user |-> t.user, left |-> t.left,
         remainingZUSD |-> t.remainingZUSD, totalZUSDToRedeem |-> t.totalZUSDToRedeem,
         totalETHDrawn |-> t.totalETHDrawn, rate |-> t.rate, saved |-> t.saved]

(* A redemption in progress stands at an active trove, or at its end. *)
RedemptionGood ==
    /\ RedemptionTx(tx) /\ SavedGood(tx.saved)
    /\ tx.saved.TroveOwners = << >> => TroveOwners = << >>
    /\ zusd.gasPool = Reserves(TroveOwners)
    /\ tx.user \in Active \cup {NULL}

IInv ==
    /\ Books(Troves, TroveOwners, sortedTroves)
    /\ Purse(zusd)
    /\ \/ tx = Idle /\ zusd.gasPool = Reserves(TroveOwners)
       \/ LiquidationGood
       \/ RedemptionGood

(* After deployment there is no trove. *)
LEMMA InitIInv == Init => IInv
<1> SUFFICES ASSUME Init PROVE IInv
  BY Zenon
<1> USE DEF Init, InitContracts
<1>1. ActiveIn(Troves) = {}
  BY Zenon DEF ActiveIn, NoTrove
<1>2. TroveOwners \in Seq(Borrowers) /\ Len(TroveOwners) = 0 /\ sortedTroves = TroveOwners
  BY NoEntry, Zenon
<1>3. \A b \in Borrowers : Trove(Troves[b]) /\ Troves[b].debt = 0
  BY Zenon DEF Trove, NoTrove
<1>4. Listed(sortedTroves, {}) /\ Indexed(Troves, TroveOwners, {})
  BY <1>2 DEF Listed, Indexed
<1>5. Books(Troves, TroveOwners, sortedTroves)
  BY <1>1, <1>3, <1>4, Zenon DEF Books
<1>6. Purse(zusd) /\ zusd.gasPool = Reserves(TroveOwners)
  BY <1>2, LiquityBaseAssumption DEF Purse, Reserves
<1> QED
  BY <1>5, <1>6, Zenon DEF IInv

(* Which part of the invariant holds is decided by the operation: between  *)
(* transactions the GasPool holds the reserves.                            *)
LEMMA IdlePart ==
    ASSUME IInv, tx = Idle
    PROVE  zusd.gasPool = Reserves(TroveOwners)
BY Zenon DEF IInv, Idle, LiquidationGood, RedemptionGood, LiquidationTx, RedemptionTx

(* During a liquidation it is the part about liquidations. *)
LEMMA LiquidationPart ==
    ASSUME IInv, tx.op = "liquidate"
    PROVE  LiquidationGood
BY DEF IInv, Idle, RedemptionGood, RedemptionTx

(* During a redemption it is the part about redemptions. *)
LEMMA RedemptionPart ==
    ASSUME IInv, tx.op = "redeem"
    PROVE  RedemptionGood
BY DEF IInv, Idle, LiquidationGood, LiquidationTx

(* Applying pending rewards keeps a trove's status and index. *)
LEMMA ApplyKeeps ==
    ASSUME NEW b, Trove(Troves[b])
    PROVE  /\ Trove(applyPendingRewards(b))
           /\ applyPendingRewards(b).status = Troves[b].status
           /\ applyPendingRewards(b).arrayIndex = Troves[b].arrayIndex
<1> DEFINE c == entireColl(b)
           d == entireDebt(b)
           e == rewards.L_ETH
           z == rewards.L_ZUSDDebt
<1>1. applyPendingRewards(b)
        = IF hasPendingRewards(b)
          THEN [Troves[b] EXCEPT !.coll = c, !.debt = d, !.ETH = e, !.ZUSDDebt = z]
          ELSE Troves[b]
  BY Zenon DEF applyPendingRewards
<1> HIDE DEF c, d, e, z
<1> QED
  BY <1>1, Zenon DEF Trove

(* So does a new stake. *)
LEMMA StakedKeeps ==
    ASSUME NEW t, Trove(t)
    PROVE  Trove(staked(t)) /\ staked(t).status = t.status /\ staked(t).arrayIndex = t.arrayIndex
<1> DEFINE k == computeNewStake(t.coll)
<1>1. staked(t) = [t EXCEPT !.stake = k]
  BY Zenon DEF staked
<1> HIDE DEF k
<1> QED
  BY <1>1, Zenon DEF Trove

(* One trove more or less is one reserve more or less. *)
LEMMA ReservesOneMore ==
    ASSUME NEW Ow \in Seq(Borrowers), NEW Ox
    PROVE  /\ Reserves(Ow) \in Int
           /\ Len(Ox) = Len(Ow) + 1 => Reserves(Ox) = Reserves(Ow) + ZUSD_GAS_COMPENSATION
           /\ Len(Ox) = Len(Ow) - 1 => Reserves(Ox) = Reserves(Ow) - ZUSD_GAS_COMPENSATION
<1>1. Len(Ow) \in Nat /\ ZUSD_GAS_COMPENSATION \in Nat
  BY Positions, LiquityBaseAssumption, Zenon
<1>2. \A g \in Nat, n \in Nat :
         /\ g * n \in Int /\ g * (n + 1) = g * n + g /\ g * (n - 1) = g * n - g
  OBVIOUS
<1> QED
  BY <1>1, <1>2, Zenon DEF Reserves

-----------------------------------------------------------------------------
(* Borrowers *)

(* openTrove records the new trove and sets its reserve aside. *)
LEMMA OpenIInv ==
    ASSUME IInv, NEW b \in Borrowers, NEW coll, NEW ZUSDAmount, NEW rate,
           openTrove(b, coll, ZUSDAmount, rate)
    PROVE  IInv' /\ Len(TroveOwners') > 0
<1> DEFINE netDebt == ZUSDAmount + borrowingFee(rate, ZUSDAmount)
           blank == [NoTrove EXCEPT !.status = "active",
                                    !.coll = coll, !.debt = getCompositeDebt(netDebt),
                                    !.ETH = rewards.L_ETH,
                                    !.ZUSDDebt = rewards.L_ZUSDDebt,
                                    !.arrayIndex = Len(TroveOwners)]
           opened == staked(blank)
           NICR == computeNominalCR(coll, getCompositeDebt(netDebt))
<1>1. /\ tx = Idle /\ tx' = tx /\ ~isActive(b)
      /\ Troves' = [Troves EXCEPT ![b] = opened]
      /\ reInsert(b, NICR)
      /\ TroveOwners' = Append(TroveOwners, b)
      /\ zusd' = [zusd EXCEPT !.users = zusd.users + netDebt,
                              !.gasPool = zusd.gasPool + ZUSD_GAS_COMPENSATION]
  BY Zenon DEF openTrove
<1>2. Trove(blank) /\ blank.status = "active" /\ blank.arrayIndex = Len(TroveOwners)
  <2> DEFINE d == getCompositeDebt(netDebt)
             e == rewards.L_ETH
             z == rewards.L_ZUSDDebt
             i == Len(TroveOwners)
  <2>1. blank = [NoTrove EXCEPT !.status = "active", !.coll = coll, !.debt = d,
                                !.ETH = e, !.ZUSDDebt = z, !.arrayIndex = i]
    BY Zenon
  <2> HIDE DEF d, e, z, i, blank
  <2>2. blank = [status |-> "active", debt |-> d, coll |-> coll, stake |-> 0,
                 arrayIndex |-> i, ETH |-> e, ZUSDDebt |-> z]
    BY <2>1, Zenon DEF NoTrove
  <2> QED
    BY <2>2, Zenon DEF Trove, i
<1> HIDE DEF blank, netDebt, NICR
<1>3. Trove(opened) /\ opened.status = "active" /\ opened.arrayIndex = Len(TroveOwners)
  BY <1>2, StakedKeeps, Zenon
<1> HIDE DEF opened
<1>4. Books(Troves, TroveOwners, sortedTroves) /\ TroveOwners \in Seq(Borrowers)
  BY Zenon DEF IInv, Books, Indexed
<1>5. Listed(sortedTroves', ActiveIn(Troves) \cup {b})
  BY <1>1, <1>4, ListReInsert, Zenon DEF Books
<1>6. b \in Borrowers \ ActiveIn(Troves)
  BY <1>1, Zenon DEF ActiveIn, isActive
<1>7. /\ Books(Troves', TroveOwners', sortedTroves')
      /\ Len(TroveOwners') = Len(TroveOwners) + 1
  BY <1>1, <1>3, <1>4, <1>5, <1>6, BooksAfterOpen, Zenon
<1>8. Purse(zusd) /\ zusd.gasPool = Reserves(TroveOwners)
  BY <1>1, IdlePart, Zenon DEF IInv
<1>9. Purse(zusd') /\ zusd'.gasPool = zusd.gasPool + ZUSD_GAS_COMPENSATION
  <2> DEFINE u == zusd.users + netDebt
             g == zusd.gasPool + ZUSD_GAS_COMPENSATION
  <2>1. zusd' = [zusd EXCEPT !.users = u, !.gasPool = g]
    BY <1>1, Zenon
  <2>2. g \in Int
    BY <1>8, LiquityBaseAssumption DEF Purse
  <2> HIDE DEF u, g
  <2>3. zusd' = [users |-> u, gasPool |-> g, stabilityPool |-> zusd.stabilityPool]
    BY <1>8, <2>1, Zenon DEF Purse
  <2> QED
    BY <2>2, <2>3, Zenon DEF Purse, g
<1>10. zusd'.gasPool = Reserves(TroveOwners')
  BY <1>4, <1>7, <1>8, <1>9, ReservesOneMore, Zenon
<1>11. Len(TroveOwners') > 0
  BY <1>4, <1>7, Positions
<1> QED
  BY <1>1, <1>7, <1>9, <1>10, <1>11, Zenon DEF IInv

(* A change of one active trove, with or without a new place in the list,  *)
(* keeps the books and the set of active troves.                           *)
LEMMA UpdateActive ==
    ASSUME Books(Troves, TroveOwners, sortedTroves), NEW b \in Active,
           NEW u, Trove(u), u.status = Troves[b].status, u.arrayIndex = Troves[b].arrayIndex,
           Troves' = [Troves EXCEPT ![b] = u], TroveOwners' = TroveOwners,
           sortedTroves' = sortedTroves \/ \E NICR : reInsert(b, NICR)
    PROVE  Books(Troves', TroveOwners', sortedTroves') /\ ActiveIn(Troves') = Active
<1>1. /\ ActiveIn(Troves) = Active /\ b \in Borrowers /\ Troves[b].status = "active"
      /\ Active \cup {b} = Active
  BY Zenon DEF Active, ActiveIn, isActive
<1>2. Listed(sortedTroves, Active)
  BY <1>1, Zenon DEF Books
<1>3. Listed(sortedTroves', Active \cup {b})
  <2>1. CASE sortedTroves' = sortedTroves
    BY <1>1, <1>2, <2>1, Zenon
  <2>2. CASE \E NICR : reInsert(b, NICR)
    BY <1>1, <1>2, <2>2, ListReInsert, Zenon
  <2> QED
    BY <2>1, <2>2, Zenon
<1>4. b \in ActiveIn(Troves) /\ Listed(sortedTroves', ActiveIn(Troves) \cup {b})
  BY <1>1, <1>3, Zenon
<1>5. u.status = "active" /\ u.arrayIndex = Troves[b].arrayIndex
  BY <1>1, Zenon
<1>6. Books(Troves', TroveOwners, sortedTroves') /\ ActiveIn(Troves') = ActiveIn(Troves)
  BY <1>4, <1>5, BooksAfterUpdate, Zenon
<1> QED
  BY <1>1, <1>6, Zenon

(* adjustTrove moves the trove in the list and touches no reserve. *)
LEMMA AdjustIInv ==
    ASSUME IInv, NEW b \in Borrowers, NEW collIn, NEW collOut, NEW ZUSDChange,
           NEW isDebtIncrease, NEW rate,
           adjustTrove(b, collIn, collOut, ZUSDChange, isDebtIncrease, rate)
    PROVE  IInv' /\ TroveOwners' = TroveOwners /\ ActiveIn(Troves') = Active
<1> DEFINE t == applyPendingRewards(b)
           netDebtChange == IF isDebtIncrease THEN ZUSDChange + borrowingFee(rate, ZUSDChange)
                            ELSE ZUSDChange
           collChange == collIn - collOut
           debtChange == IF isDebtIncrease THEN netDebtChange ELSE -netDebtChange
           newColl == t.coll + collChange
           newDebt == t.debt + debtChange
           changed == [t EXCEPT !.coll = newColl, !.debt = newDebt]
           NICR == computeNominalCR(newColl, newDebt)
<1>1. /\ tx = Idle /\ tx' = tx /\ isActive(b)
      /\ Troves' = [Troves EXCEPT ![b] = staked(changed)]
      /\ reInsert(b, NICR)
      /\ TroveOwners' = TroveOwners
      /\ zusd' = [zusd EXCEPT !.users = zusd.users + debtChange]
  BY Zenon DEF adjustTrove
<1>2. Books(Troves, TroveOwners, sortedTroves) /\ Trove(Troves[b]) /\ b \in Active
  BY <1>1, Zenon DEF IInv, Books, Active
<1>3. Trove(t) /\ t.status = Troves[b].status /\ t.arrayIndex = Troves[b].arrayIndex
  BY <1>2, ApplyKeeps, Zenon
<1> HIDE DEF t, debtChange, newColl, newDebt, NICR
<1>4. Trove(changed) /\ changed.status = t.status /\ changed.arrayIndex = t.arrayIndex
  <2>1. changed = [t EXCEPT !.coll = newColl, !.debt = newDebt]
    BY Zenon
  <2> HIDE DEF changed
  <2> QED
    BY <1>3, <2>1, Zenon DEF Trove
<1> HIDE DEF changed
<1>5. /\ Trove(staked(changed)) /\ staked(changed).status = Troves[b].status
      /\ staked(changed).arrayIndex = Troves[b].arrayIndex
  BY <1>3, <1>4, StakedKeeps, Zenon
<1>6. Books(Troves', TroveOwners', sortedTroves') /\ ActiveIn(Troves') = Active
  BY <1>1, <1>2, <1>5, UpdateActive, Zenon
<1>7. Purse(zusd) /\ zusd.gasPool = Reserves(TroveOwners)
  BY <1>1, IdlePart, Zenon DEF IInv
<1>8. Purse(zusd') /\ zusd'.gasPool = zusd.gasPool
  <2> DEFINE u == zusd.users + debtChange
  <2>1. zusd' = [zusd EXCEPT !.users = u]
    BY <1>1, Zenon
  <2> HIDE DEF u
  <2> QED
    BY <1>7, <2>1, Zenon DEF Purse
<1> QED
  BY <1>1, <1>6, <1>7, <1>8, Zenon DEF IInv

(* closeTrove of a borrower burns the reserve of the trove it removes. *)
LEMMA CloseOwnIInv ==
    ASSUME IInv, NEW b \in Borrowers, closeOwnTrove(b)
    PROVE  IInv' /\ Len(TroveOwners') > 0
<1> DEFINE repaid == zusd.users - getNetDebt(applyPendingRewards(b).debt)
<1>1. /\ tx = Idle /\ tx' = tx /\ b \in Active
      /\ requireMoreThanOneTroveInSystem
      /\ closeTrove(b, "closedByOwner")
      /\ zusd' = burnReserve([zusd EXCEPT !.users = repaid])
  BY Zenon DEF closeOwnTrove, Active
<1> HIDE DEF repaid
<1>2. Books(Troves, TroveOwners, sortedTroves) /\ TroveOwners \in Seq(Borrowers)
  BY Zenon DEF IInv, Books, Indexed
<1>3. /\ Books(Troves', TroveOwners', sortedTroves')
      /\ Len(TroveOwners') = Len(TroveOwners) - 1
  BY <1>1, <1>2, BooksAfterClose, Zenon
<1>4. Purse(zusd) /\ zusd.gasPool = Reserves(TroveOwners)
  BY <1>1, IdlePart, Zenon DEF IInv
<1>5. Purse(zusd') /\ zusd'.gasPool = zusd.gasPool - ZUSD_GAS_COMPENSATION
  <2>1. [zusd EXCEPT !.users = repaid]
          = [users |-> repaid, gasPool |-> zusd.gasPool, stabilityPool |-> zusd.stabilityPool]
    BY <1>4 DEF Purse
  <2>2. zusd' = [users |-> repaid, gasPool |-> zusd.gasPool - ZUSD_GAS_COMPENSATION,
                 stabilityPool |-> zusd.stabilityPool]
    BY <1>1, <2>1, Zenon DEF burnReserve
  <2> QED
    BY <1>4, <2>2, LiquityBaseAssumption DEF Purse
<1>6. zusd'.gasPool = Reserves(TroveOwners')
  BY <1>2, <1>3, <1>4, <1>5, ReservesOneMore, Zenon
<1>7. Len(TroveOwners') > 0
  BY <1>1, <1>2, <1>3, Positions DEF requireMoreThanOneTroveInSystem
<1> QED
  BY <1>1, <1>3, <1>5, <1>6, <1>7, Zenon DEF IInv

(* Claims, price changes and deposits do not touch the books. *)
LEMMA OthersIInv ==
    ASSUME IInv,
           \/ \E b \in Borrowers : claimCollateral(b)
           \/ \E p \in Prices : setPrice(p)
           \/ \E amount : provideToSP(amount) \/ withdrawFromSP(amount)
    PROVE  IInv' /\ TroveOwners' = TroveOwners
<1>1. /\ tx = Idle /\ tx' = tx /\ Troves' = Troves
      /\ TroveOwners' = TroveOwners /\ sortedTroves' = sortedTroves
      /\ zusd' = zusd \/ \E u, s : zusd' = [zusd EXCEPT !.users = u, !.stabilityPool = s]
  BY Zenon DEF claimCollateral, setPrice, provideToSP, withdrawFromSP, contracts
<1>2. Purse(zusd) /\ zusd.gasPool = Reserves(TroveOwners)
  BY <1>1, IdlePart, Zenon DEF IInv
<1>3. Purse(zusd') /\ zusd'.gasPool = zusd.gasPool
  <2>1. CASE zusd' = zusd
    BY <1>2, <2>1, Zenon
  <2>2. CASE \E u, s : zusd' = [zusd EXCEPT !.users = u, !.stabilityPool = s]
    BY <1>2, <2>2, Zenon DEF Purse
  <2> QED
    BY <1>1, <2>1, <2>2, Zenon
<1> QED
  BY <1>1, <1>2, <1>3, Zenon DEF IInv

-----------------------------------------------------------------------------
(* Liquidators *)

(* The list is as long as there are owners to visit. *)
LEMMA ListNotEmpty ==
    ASSUME Books(Troves, TroveOwners, sortedTroves), TroveOwners # << >>
    PROVE  /\ Len(sortedTroves) \in Nat \ {0}
           /\ sortedTroves[1] \in Active /\ last(sortedTroves) \in Active
<1>1. ActiveIn(Troves) = Active
  BY Zenon DEF Active, ActiveIn, isActive
<1>2. TroveOwners \in Seq(Borrowers) /\ Listed(sortedTroves, Active)
  BY <1>1, Zenon DEF Books, Indexed
<1>3. Len(TroveOwners) \in Nat \ {0}
  BY <1>2, NoEntry, Zenon
<1>4. TroveOwners[1] \in Active
  BY <1>1, <1>3 DEF Books, Indexed
<1>5. Len(sortedTroves) \in Nat
  BY <1>2, Positions, Zenon DEF Listed
<1>6. PICK i \in 1 .. Len(sortedTroves) : sortedTroves[i] = TroveOwners[1]
  BY <1>2, <1>4, Zenon DEF Listed
<1>7. 1 \in 1 .. Len(sortedTroves) /\ Len(sortedTroves) \in 1 .. Len(sortedTroves)
  BY <1>5, <1>6
<1> QED
  BY <1>2, <1>5, <1>7 DEF Listed, last

(* liquidateTroves, batchLiquidateTroves and liquidate start with nothing  *)
(* tallied.                                                                *)
LEMMA StartLiquidationIInv ==
    ASSUME IInv, NEW batch \in BOOLEAN, NEW array \in Seq(Borrowers), NEW n,
           startLiquidation(batch, array, n)
    PROVE  IInv' /\ TroveOwners' = TroveOwners
<1>1. /\ tx = Idle /\ TroveOwners # << >>
      /\ Troves' = Troves /\ TroveOwners' = TroveOwners /\ sortedTroves' = sortedTroves
      /\ zusd' = zusd
      /\ tx' = [op |-> "liquidate", batch |-> batch, array |-> array,
              user |-> last(sortedTroves), firstUser |-> sortedTroves[1], left |-> n,
              recoveryModeAtStart |-> checkRecoveryMode, backToNormalMode |-> FALSE,
              remainingZUSDInStabPool |-> zusd.stabilityPool,
              entireSystemDebt |-> getEntireSystemDebt,
              entireSystemColl |-> getEntireSystemColl,
              totals |-> zeroVals, saved |-> saved]
  BY Zenon DEF startLiquidation, contracts
<1>2. Purse(zusd) /\ zusd.gasPool = Reserves(TroveOwners)
  BY <1>1, IdlePart, Zenon DEF IInv
<1>3. zeroVals.ZUSDGasCompensation = 0
  BY Zenon DEF zeroVals, LiquidationFields
<1>4. LiquidationTx(tx)'
  BY <1>1, <1>3 DEF LiquidationTx
<1>5. tx'.saved = saved /\ tx'.totals = zeroVals /\ tx'.batch = batch
      /\ tx'.firstUser = sortedTroves[1] /\ tx'.user = last(sortedTroves)
  BY <1>1, Zenon
<1>6. SavedGood(saved)
  BY <1>2, Zenon DEF SavedGood, saved, IInv
<1>7. saved.TroveOwners = TroveOwners
  BY Zenon DEF saved
<1>8. last(sortedTroves) \in Active /\ Active' = Active
  BY <1>1, ListNotEmpty, Zenon DEF IInv, Active, isActive
<1>9. LiquidationGood'
  <2>1. zusd'.gasPool = Reserves(TroveOwners') + tx'.totals.ZUSDGasCompensation
    BY <1>1, <1>2, <1>3, <1>5 DEF Purse
  <2> QED
    BY <1>1, <1>4, <1>5, <1>6, <1>7, <1>8, <2>1, Zenon DEF LiquidationGood
<1> QED
  BY <1>1, <1>2, <1>9, Zenon DEF IInv

(* A trove that is gone has an infinite ratio: no loop liquidates it.  A   *)
(* sequence stands at an active trove, so what is liquidated is active.    *)
LEMMA LiquidatesActive ==
    ASSUME IInv, looping, singleLiquidation(visited) # zeroVals
    PROVE  visited \in Active
<1>1. LiquidationGood
  BY LiquidationPart, Zenon DEF looping
<1>2. CASE tx.batch
  <2>1. tx.array # << >> /\ visited = tx.array[1]
    BY <1>2, Zenon DEF looping, visited
  <2>2. visited \in Borrowers
    <3>1. tx.array \in Seq(Borrowers)
      BY <1>1, Zenon DEF LiquidationGood, LiquidationTx
    <3>2. Len(tx.array) \in Nat \ {0}
      BY <2>1, <3>1, NoEntry, Zenon
    <3> QED
      BY <2>1, <3>1, <3>2, Entry
  <2>3. ~passesOver(visited)
    BY Zenon DEF singleLiquidation
  <2>4. ASSUME ~isActive(visited) PROVE FALSE
    <3>1. Troves[visited].debt = 0
      BY <2>2, <2>4, Zenon DEF IInv, Books, ActiveIn, isActive
    <3>2. getPendingZUSDDebtReward(visited) = 0
      BY <2>4, Zenon DEF getPendingZUSDDebtReward, pendingOf, isActive
    <3>3. entireDebt(visited) = 0
      BY <3>1, <3>2 DEF entireDebt
    <3>4. getCurrentICR(visited) = MaxRatio
      BY <3>3 DEF getCurrentICR, computeCR
    <3>5. MaxRatio >= MCR
      BY LiquityBaseAssumption
    <3>6. inRecoveryMode => tx.recoveryModeAtStart
      BY Zenon DEF inRecoveryMode
    <3> QED
      BY <1>2, <2>3, <2>4, <3>4, <3>5, <3>6, Zenon DEF passesOver
  <2> QED
    BY <2>2, <2>4, Zenon DEF Active
<1>3. CASE ~tx.batch /\ tx.recoveryModeAtStart
  BY <1>1, <1>3, Zenon DEF LiquidationGood, visited
<1>4. CASE ~tx.batch /\ ~tx.recoveryModeAtStart
  BY <1>1, <1>4, ListNotEmpty, Zenon DEF LiquidationGood, visited, IInv
<1> QED
  BY <1>2, <1>3, <1>4, Zenon

(* Whatever is liquidated yields exactly one reserve. *)
LEMMA YieldsReserve ==
    ASSUME NEW b, singleLiquidation(b) # zeroVals
    PROVE  singleLiquidation(b).ZUSDGasCompensation = ZUSD_GAS_COMPENSATION
<1>1. \A d : getOffsetAndRedistributionVals(b, d).ZUSDGasCompensation = ZUSD_GAS_COMPENSATION
  BY Zenon DEF getOffsetAndRedistributionVals
<1>2. getCappedOffsetVals(b).ZUSDGasCompensation = ZUSD_GAS_COMPENSATION
  BY Zenon DEF getCappedOffsetVals
<1> QED
  BY <1>1, <1>2, Zenon DEF singleLiquidation, liquidateRecoveryMode, liquidateNormalMode

(* An iteration adds the reserve it yielded to the tally, and a sequence   *)
(* moves to the neighbour towards the head.                                *)
LEMMA AdvanceKeeps ==
    ASSUME LiquidationTx(tx), NEW b, NEW v, v.ZUSDGasCompensation \in Int,
           NEW t, t = advance(b, v)
    PROVE  /\ LiquidationTx(t)
           /\ t.totals.ZUSDGasCompensation
                = tx.totals.ZUSDGasCompensation + v.ZUSDGasCompensation
           /\ t.batch = tx.batch /\ t.recoveryModeAtStart = tx.recoveryModeAtStart
           /\ t.firstUser = tx.firstUser /\ t.saved = tx.saved
           /\ t.user = getPrev(b)
           /\ t.totals = addLiquidationValuesToTotals(tx.totals, v)
           /\ t.remainingZUSDInStabPool = tx.remainingZUSDInStabPool - v.debtToOffset
<1> DEFINE a == IF tx.batch THEN SubSeq(tx.array, 2, Len(tx.array)) ELSE << >>
           p == getPrev(b)
           l == IF tx.batch THEN 0 ELSE tx.left - 1
           r == tx.remainingZUSDInStabPool - v.debtToOffset
           debt == tx.entireSystemDebt - v.debtToOffset
           tracks == inRecoveryMode /\ ~passesOver(b)
           d == IF tracks THEN debt ELSE tx.entireSystemDebt
           c == IF tracks THEN collAfter(v) ELSE tx.entireSystemColl
           n == IF tracks THEN ~checkPotentialRecoveryMode(collAfter(v), debt)
                ELSE tx.backToNormalMode
           s == addLiquidationValuesToTotals(tx.totals, v)
<1>1. t = [tx EXCEPT !.array = a, !.user = p, !.left = l, !.remainingZUSDInStabPool = r,
                     !.entireSystemDebt = d, !.entireSystemColl = c,
                     !.backToNormalMode = n, !.totals = s]
  BY Zenon DEF advance
<1>2. a \in Seq(Borrowers)
  <2>1. tx.array \in Seq(Borrowers)
    BY Zenon DEF LiquidationTx
  <2>2. Len(tx.array) \in Nat /\ \A i \in 2 .. Len(tx.array) : tx.array[i] \in Borrowers
    BY <2>1, Positions, Entry
  <2>3. SubSeq(tx.array, 2, Len(tx.array)) \in Seq(Borrowers)
    BY <2>2, Piece
  <2> QED
    BY <2>3, NoEntry, Zenon
<1>3. s.ZUSDGasCompensation = tx.totals.ZUSDGasCompensation + v.ZUSDGasCompensation
  BY Zenon DEF addLiquidationValuesToTotals, LiquidationFields
<1>4. s.ZUSDGasCompensation \in Int
  BY <1>3 DEF LiquidationTx
<1> HIDE DEF a, p, l, r, debt, tracks, d, c, n, s
<1>5. t = [op |-> "liquidate", batch |-> tx.batch, array |-> a,
           user |-> p, firstUser |-> tx.firstUser, left |-> l,
           recoveryModeAtStart |-> tx.recoveryModeAtStart,
           backToNormalMode |-> n, remainingZUSDInStabPool |-> r,
           entireSystemDebt |-> d, entireSystemColl |-> c, totals |-> s, saved |-> tx.saved]
  <2> DEFINE old == [op |-> "liquidate", batch |-> tx.batch, array |-> tx.array,
                     user |-> tx.user, firstUser |-> tx.firstUser, left |-> tx.left,
                     recoveryModeAtStart |-> tx.recoveryModeAtStart,
                     backToNormalMode |-> tx.backToNormalMode,
                     remainingZUSDInStabPool |-> tx.remainingZUSDInStabPool,
                     entireSystemDebt |-> tx.entireSystemDebt,
                     entireSystemColl |-> tx.entireSystemColl,
                     totals |-> tx.totals, saved |-> tx.saved]
  <2>1. tx = old
    BY Zenon DEF LiquidationTx
  <2>2. t = [old EXCEPT !.array = a, !.user = p, !.left = l, !.remainingZUSDInStabPool = r,
                        !.entireSystemDebt = d, !.entireSystemColl = c,
                        !.backToNormalMode = n, !.totals = s]
    BY ONLY <1>1, <2>1, Zenon
  <2> QED
    BY ONLY <2>2, Zenon
<1>6. LiquidationTx(t)
  BY <1>2, <1>4, <1>5 DEF LiquidationTx
<1>7. /\ t.batch = tx.batch /\ t.recoveryModeAtStart = tx.recoveryModeAtStart
      /\ t.firstUser = tx.firstUser /\ t.saved = tx.saved
      /\ t.user = p /\ t.totals = s /\ t.remainingZUSDInStabPool = r
  BY ONLY <1>5, Zenon
<1>8. t.totals.ZUSDGasCompensation = tx.totals.ZUSDGasCompensation + v.ZUSDGasCompensation
  BY ONLY <1>3, <1>7, Zenon
<1> QED
  BY ONLY <1>6, <1>7, <1>8, Zenon DEF p, r, s

(* The iteration that liquidates a trove takes it out of the books and     *)
(* puts its reserve on the tally; the head of the list is never the trove  *)
(* a Recovery Mode sequence liquidates.                                    *)
LEMMA LiquidateTroveIInv ==
    ASSUME IInv, liquidateTrove
    PROVE  IInv' /\ TroveOwners' # << >>
<1> DEFINE b == visited
           v == singleLiquidation(b)
<1>1. /\ looping /\ v # zeroVals /\ requireMoreThanOneTroveInSystem
      /\ closeTrove(b, "closedByLiquidation")
      /\ tx' = advance(b, v) /\ zusd' = zusd
  BY Zenon DEF liquidateTrove
<1>2. LiquidationGood /\ Books(Troves, TroveOwners, sortedTroves) /\ Purse(zusd)
  BY <1>1, LiquidationPart, Zenon DEF looping, IInv
<1>3. b \in Active
  BY <1>1, LiquidatesActive, Zenon
<1>4. v.ZUSDGasCompensation = ZUSD_GAS_COMPENSATION
  BY <1>1, YieldsReserve, Zenon
<1>5. ZUSD_GAS_COMPENSATION \in Int
  BY LiquityBaseAssumption
<1> DEFINE onto == ~tx.batch /\ tx.recoveryModeAtStart
<1>6. onto => b = tx.user /\ b # sortedTroves[1]
  BY <1>1, <1>2, Zenon DEF looping, visited, LiquidationGood
<1> HIDE DEF b, v
<1>7. /\ Books(Troves', TroveOwners', sortedTroves')
      /\ ActiveIn(Troves') = Active \ {b}
      /\ Len(TroveOwners') = Len(TroveOwners) - 1
      /\ sortedTroves' = without(sortedTroves, b)
  BY <1>1, <1>2, <1>3, BooksAfterClose, Zenon
<1>8. Active' = Active \ {b}
  BY <1>7, Zenon DEF Active, ActiveIn, isActive
<1>9. /\ LiquidationTx(tx')
      /\ tx'.totals.ZUSDGasCompensation
           = tx.totals.ZUSDGasCompensation + v.ZUSDGasCompensation
      /\ tx'.batch = tx.batch /\ tx'.recoveryModeAtStart = tx.recoveryModeAtStart
      /\ tx'.firstUser = tx.firstUser /\ tx'.saved = tx.saved
      /\ tx'.user = getPrev(b)
  <2>1. LiquidationTx(tx) /\ v.ZUSDGasCompensation \in Int /\ tx' = advance(b, v)
    BY <1>1, <1>2, <1>4, <1>5, Zenon DEF LiquidationGood
  <2> QED
    BY ONLY <2>1, AdvanceKeeps
<1>10. Listed(sortedTroves, Active)
  BY <1>2, Zenon DEF Books, Active, ActiveIn, isActive
<1>11. TroveOwners \in Seq(Borrowers) /\ TroveOwners' \in Seq(Borrowers)
  BY <1>2, <1>7, Zenon DEF Books, Indexed
<1>12. TroveOwners' # << >>
  <2>1. Len(TroveOwners') > 0
    BY <1>1, <1>7, <1>11, Positions DEF requireMoreThanOneTroveInSystem
  <2> QED
    BY <2>1, NoEntry
<1>13. ASSUME onto
       PROVE  tx'.firstUser = sortedTroves'[1] /\ tx'.user \in Active'
  <2>1. Len(sortedTroves) > 0
    BY <1>2, ListNotEmpty DEF LiquidationGood
  <2>2. sortedTroves'[1] = sortedTroves[1]
    BY <1>6, <1>7, <1>10, <1>13, <2>1, ListWithout, Zenon
  <2>3. getPrev(b) \in Active \ {b}
    BY <1>3, <1>6, <1>10, <1>13, PrevListed, Zenon
  <2> QED
    BY <1>2, <1>8, <1>9, <1>13, <2>2, <2>3, Zenon DEF LiquidationGood
<1>14. zusd'.gasPool = Reserves(TroveOwners') + tx'.totals.ZUSDGasCompensation
  <2>1. /\ Reserves(TroveOwners) \in Int
        /\ Reserves(TroveOwners') = Reserves(TroveOwners) - ZUSD_GAS_COMPENSATION
    BY <1>7, <1>11, ReservesOneMore, Zenon
  <2>2. /\ zusd.gasPool = Reserves(TroveOwners) + tx.totals.ZUSDGasCompensation
        /\ tx.totals.ZUSDGasCompensation \in Int
    BY <1>2, Zenon DEF LiquidationGood, LiquidationTx
  <2> QED
    BY <1>1, <1>4, <1>5, <1>9, <2>1, <2>2
<1>15. LiquidationGood'
  BY <1>2, <1>9, <1>12, <1>13, <1>14, Zenon DEF LiquidationGood
<1> QED
  BY <1>1, <1>2, <1>7, <1>12, <1>15, Zenon DEF IInv

(* The iteration that passes over a trove. *)
LEMMA SkipTroveIInv ==
    ASSUME IInv, skipTrove
    PROVE  IInv' /\ TroveOwners' = TroveOwners
<1> DEFINE b == visited
<1>1. /\ looping /\ tx' = advance(b, zeroVals) /\ zusd' = zusd
      /\ Troves' = Troves /\ TroveOwners' = TroveOwners /\ sortedTroves' = sortedTroves
  BY Zenon DEF skipTrove, contracts
<1>2. LiquidationGood /\ Books(Troves, TroveOwners, sortedTroves) /\ Purse(zusd)
  BY <1>1, LiquidationPart, Zenon DEF looping, IInv
<1>3. zeroVals.ZUSDGasCompensation = 0
  BY Zenon DEF zeroVals, LiquidationFields
<1> DEFINE onto == ~tx.batch /\ tx.recoveryModeAtStart
<1>4. onto => b = tx.user /\ b # sortedTroves[1] /\ b \in Active
  BY <1>1, <1>2, Zenon DEF looping, visited, LiquidationGood
<1> HIDE DEF b
<1>5. /\ LiquidationTx(tx')
      /\ tx'.totals.ZUSDGasCompensation = tx.totals.ZUSDGasCompensation + 0
      /\ tx'.batch = tx.batch /\ tx'.recoveryModeAtStart = tx.recoveryModeAtStart
      /\ tx'.firstUser = tx.firstUser /\ tx'.saved = tx.saved
      /\ tx'.user = getPrev(b)
  <2>1. LiquidationTx(tx) /\ zeroVals.ZUSDGasCompensation \in Int /\ tx' = advance(b, zeroVals)
    BY <1>1, <1>2, <1>3 DEF LiquidationGood
  <2> QED
    BY ONLY <1>3, <2>1, AdvanceKeeps
<1>6. Listed(sortedTroves, Active) /\ Active' = Active
  BY <1>1, <1>2, Zenon DEF Books, Active, ActiveIn, isActive
<1>7. onto => getPrev(b) \in Active
  BY <1>4, <1>6, PrevListed, Zenon
<1>8. tx'.totals.ZUSDGasCompensation = tx.totals.ZUSDGasCompensation
  BY <1>2, <1>5 DEF LiquidationGood, LiquidationTx
<1>9. LiquidationGood'
  BY <1>1, <1>2, <1>5, <1>6, <1>7, <1>8, Zenon DEF LiquidationGood
<1> QED
  BY <1>1, <1>2, <1>9, Zenon DEF IInv

(* The settlement pays the tallied reserves out of the GasPool. *)
LEMMA FinishLiquidationIInv ==
    ASSUME IInv, finishLiquidation
    PROVE  IInv' /\ TroveOwners' = TroveOwners
<1> DEFINE g == tx.totals.ZUSDGasCompensation
           s == zusd.stabilityPool - (IF offsetsDebt THEN tx.totals.debtToOffset ELSE 0)
<1>1. /\ tx.op = "liquidate" /\ tx' = Idle
      /\ Troves' = Troves /\ TroveOwners' = TroveOwners /\ sortedTroves' = sortedTroves
      /\ zusd' = sendGasCompensation([zusd EXCEPT !.stabilityPool = s], g)
  BY Zenon DEF finishLiquidation
<1>2. LiquidationGood /\ Books(Troves, TroveOwners, sortedTroves) /\ Purse(zusd)
  BY <1>1, LiquidationPart, Zenon DEF IInv
<1>3. g \in Int /\ zusd.gasPool = Reserves(TroveOwners) + g
  BY <1>2, Zenon DEF LiquidationGood, LiquidationTx
<1>4. Reserves(TroveOwners) \in Int
  BY <1>2, ReservesOneMore, Zenon DEF Books, Indexed
<1> HIDE DEF g, s
<1>5. [zusd EXCEPT !.stabilityPool = s]
        = [users |-> zusd.users, gasPool |-> zusd.gasPool, stabilityPool |-> s]
  BY <1>2 DEF Purse
<1>6. zusd' = [users |-> zusd.users + g, gasPool |-> zusd.gasPool - g, stabilityPool |-> s]
  BY <1>1, <1>5, Zenon DEF sendGasCompensation
<1>7. zusd.gasPool - g = Reserves(TroveOwners)
  BY <1>3, <1>4
<1>8. Purse(zusd') /\ zusd'.gasPool = Reserves(TroveOwners)
  BY <1>4, <1>6, <1>7, Zenon DEF Purse
<1> QED
  BY <1>1, <1>2, <1>8, Zenon DEF IInv

(* A revert goes back to the books before the transaction. *)
LEMMA RestoreIInv ==
    ASSUME IInv, restore, tx.op \in {"liquidate", "redeem"}
    PROVE  IInv' /\ (TroveOwners # << >> => TroveOwners' # << >>)
<1>1. SavedGood(tx.saved) /\ (TroveOwners # << >> => tx.saved.TroveOwners # << >>)
  BY LiquidationPart, RedemptionPart, Zenon DEF LiquidationGood, RedemptionGood
<1>2. /\ Troves' = tx.saved.Troves /\ TroveOwners' = tx.saved.TroveOwners
      /\ sortedTroves' = tx.saved.sortedTroves /\ zusd' = tx.saved.zusd /\ tx' = Idle
  BY Zenon DEF restore
<1> QED
  BY <1>1, <1>2, Zenon DEF SavedGood, IInv

-----------------------------------------------------------------------------
(* Redeemers *)

(* A redemption starts at a valid hint or at the trove it finds. *)
LEMMA StartRedemptionIInv ==
    ASSUME IInv, NEW ZUSDamount, NEW firstHint, NEW maxIterations, NEW rate,
           redeemCollateral(ZUSDamount, firstHint, maxIterations, rate)
    PROVE  IInv' /\ TroveOwners' = TroveOwners
<1> DEFINE first == IF isValidFirstRedemptionHint(firstHint) THEN firstHint ELSE firstRedeemable
           n == IF maxIterations = 0 THEN Cardinality(Borrowers) ELSE maxIterations
<1>1. /\ tx = Idle
      /\ Troves' = Troves /\ TroveOwners' = TroveOwners /\ sortedTroves' = sortedTroves
      /\ zusd' = zusd
      /\ tx' = [op |-> "redeem", user |-> first, left |-> n,
              remainingZUSD |-> ZUSDamount, totalZUSDToRedeem |-> 0, totalETHDrawn |-> 0,
              rate |-> rate, saved |-> saved]
  BY Zenon DEF redeemCollateral, contracts
<1>2. Purse(zusd) /\ zusd.gasPool = Reserves(TroveOwners)
  BY <1>1, IdlePart, Zenon DEF IInv
<1>3. Listed(sortedTroves, Active) /\ Active' = Active
  BY <1>1, Zenon DEF IInv, Books, Active, ActiveIn, isActive
<1>4. first \in Active \cup {NULL}
  <2>1. isValidFirstRedemptionHint(firstHint) => firstHint \in Active
    BY <1>3, Zenon DEF isValidFirstRedemptionHint, Listed
  <2> QED
    BY <1>3, <2>1, FirstRedeemableListed, Zenon
<1> HIDE DEF first, n
<1>5. RedemptionTx(tx') /\ tx'.saved = saved /\ tx'.user = first
  BY <1>1, Zenon DEF RedemptionTx
<1>6. SavedGood(saved) /\ saved.TroveOwners = TroveOwners
  BY <1>2, Zenon DEF SavedGood, saved, IInv
<1>7. RedemptionGood'
  BY <1>1, <1>2, <1>3, <1>4, <1>5, <1>6, Zenon DEF RedemptionGood
<1> QED
  BY <1>1, <1>2, <1>7, Zenon DEF IInv

(* After a lot the loop stands at the neighbour towards the head. *)
LEMMA DrawnKeeps ==
    ASSUME RedemptionTx(tx), NEW b, NEW u, NEW t, t = drawn(b, u)
    PROVE  /\ RedemptionTx(t) /\ t.saved = tx.saved /\ t.user = getPrev(b)
           /\ t.remainingZUSD = tx.remainingZUSD - ZUSDLot(u)
           /\ t.totalZUSDToRedeem = tx.totalZUSDToRedeem + ZUSDLot(u)
           /\ t.totalETHDrawn = tx.totalETHDrawn + ETHLot(u)
<1> DEFINE p == getPrev(b)
           l == tx.left - 1
           r == tx.remainingZUSD - ZUSDLot(u)
           z == tx.totalZUSDToRedeem + ZUSDLot(u)
           e == tx.totalETHDrawn + ETHLot(u)
<1>1. t = [tx EXCEPT !.user = p, !.left = l, !.remainingZUSD = r,
                     !.totalZUSDToRedeem = z, !.totalETHDrawn = e]
  BY Zenon DEF drawn
<1> HIDE DEF p, l, r, z, e
<1> DEFINE old == [op |-> "redeem", user |-> tx.user, left |-> tx.left,
                   remainingZUSD |-> tx.remainingZUSD,
                   totalZUSDToRedeem |-> tx.totalZUSDToRedeem,
                   totalETHDrawn |-> tx.totalETHDrawn, rate |-> tx.rate, saved |-> tx.saved]
<1>2. tx = old
  BY Zenon DEF RedemptionTx
<1>3. t = [old EXCEPT !.user = p, !.left = l, !.remainingZUSD = r,
                      !.totalZUSDToRedeem = z, !.totalETHDrawn = e]
  BY ONLY <1>1, <1>2, Zenon
<1>4. t = [op |-> "redeem", user |-> p, left |-> l, remainingZUSD |-> r,
           totalZUSDToRedeem |-> z, totalETHDrawn |-> e, rate |-> tx.rate, saved |-> tx.saved]
  BY ONLY <1>3, Zenon
<1> QED
  BY ONLY <1>4, Zenon DEF RedemptionTx, p, r, z, e

(* A trove whose net debt is redeemed leaves the books, and its reserve is *)
(* burned.                                                                 *)
LEMMA RedeemWholeIInv ==
    ASSUME IInv, redeemWholeTrove
    PROVE  IInv' /\ TroveOwners' # << >>
<1> DEFINE b == tx.user
           t == applyPendingRewards(b)
<1>1. /\ tx.op = "redeem" /\ b # NULL /\ requireMoreThanOneTroveInSystem
      /\ closeTrove(b, "closedByRedemption")
      /\ zusd' = burnReserve(zusd) /\ tx' = drawn(b, t)
  BY Zenon DEF redeemWholeTrove, redeeming
<1>2. RedemptionGood /\ Books(Troves, TroveOwners, sortedTroves) /\ Purse(zusd)
  BY <1>1, RedemptionPart, Zenon DEF IInv
<1>3. b \in Active
  BY <1>1, <1>2, Zenon DEF RedemptionGood
<1> HIDE DEF b, t
<1>4. /\ Books(Troves', TroveOwners', sortedTroves')
      /\ ActiveIn(Troves') = Active \ {b}
      /\ Len(TroveOwners') = Len(TroveOwners) - 1
  BY <1>1, <1>2, <1>3, BooksAfterClose, Zenon
<1>5. Active' = Active \ {b} /\ Listed(sortedTroves, Active)
  BY <1>2, <1>4, Zenon DEF Books, Active, ActiveIn, isActive
<1>6. RedemptionTx(tx') /\ tx'.saved = tx.saved /\ tx'.user = getPrev(b)
  BY <1>1, <1>2, DrawnKeeps, Zenon DEF RedemptionGood
<1>7. tx'.user \in Active' \cup {NULL}
  BY <1>3, <1>5, <1>6, PrevListed, Zenon
<1>8. TroveOwners \in Seq(Borrowers) /\ TroveOwners' \in Seq(Borrowers)
  BY <1>2, <1>4, Zenon DEF Books, Indexed
<1>9. Len(TroveOwners') > 0 /\ Len(TroveOwners) > 0
  BY <1>1, <1>4, <1>8, Positions DEF requireMoreThanOneTroveInSystem
<1>10. TroveOwners' # << >> /\ TroveOwners # << >>
  BY <1>9, NoEntry
<1>11. Purse(zusd') /\ zusd'.gasPool = zusd.gasPool - ZUSD_GAS_COMPENSATION
  <2>1. zusd' = [users |-> zusd.users, gasPool |-> zusd.gasPool - ZUSD_GAS_COMPENSATION,
                 stabilityPool |-> zusd.stabilityPool]
    BY <1>1, <1>2, Zenon DEF burnReserve, Purse
  <2> QED
    BY <1>2, <2>1, LiquityBaseAssumption DEF Purse
<1>12. zusd'.gasPool = Reserves(TroveOwners')
  BY <1>2, <1>4, <1>8, <1>11, ReservesOneMore, Zenon DEF RedemptionGood
<1>13. RedemptionGood'
  BY <1>2, <1>6, <1>7, <1>10, <1>12, Zenon DEF RedemptionGood
<1> QED
  BY <1>4, <1>10, <1>11, <1>13, Zenon DEF IInv

(* A trove that is redeemed from in part moves in the list and stays in    *)
(* the books; the neighbour was looked up before it moved.                 *)
LEMMA RedeemPartIInv ==
    ASSUME IInv, redeemPartOfTrove
    PROVE  IInv' /\ TroveOwners' = TroveOwners /\ ActiveIn(Troves') = Active
<1> DEFINE b == tx.user
           t == applyPendingRewards(b)
           u == staked(redeemed(t))
           NICR == computeNominalCR(u.coll, u.debt)
<1>1. /\ tx.op = "redeem" /\ b # NULL /\ reInsert(b, NICR)
      /\ Troves' = [Troves EXCEPT ![b] = u]
      /\ TroveOwners' = TroveOwners /\ zusd' = zusd /\ tx' = drawn(b, t)
  BY Zenon DEF redeemPartOfTrove, redeeming
<1>2. RedemptionGood /\ Books(Troves, TroveOwners, sortedTroves) /\ Purse(zusd)
  BY <1>1, RedemptionPart, Zenon DEF IInv
<1>3. b \in Active /\ Trove(Troves[b])
  BY <1>1, <1>2, Zenon DEF RedemptionGood, Books, Active
<1> HIDE DEF b, NICR
<1>4. Trove(t) /\ t.status = Troves[b].status /\ t.arrayIndex = Troves[b].arrayIndex
  BY <1>3, ApplyKeeps, Zenon
<1> HIDE DEF t
<1>5. /\ Trove(redeemed(t)) /\ redeemed(t).status = t.status
      /\ redeemed(t).arrayIndex = t.arrayIndex
  <2> DEFINE d == t.debt - ZUSDLot(t)
             c == t.coll - ETHLot(t)
  <2>1. redeemed(t) = [t EXCEPT !.debt = d, !.coll = c]
    BY Zenon DEF redeemed
  <2> HIDE DEF d, c
  <2> QED
    BY <1>4, <2>1, Zenon DEF Trove
<1>6. Trove(u) /\ u.status = Troves[b].status /\ u.arrayIndex = Troves[b].arrayIndex
  BY <1>4, <1>5, StakedKeeps, Zenon
<1> HIDE DEF u
<1>7. Books(Troves', TroveOwners', sortedTroves') /\ ActiveIn(Troves') = Active
  BY <1>1, <1>2, <1>3, <1>6, UpdateActive, Zenon
<1>8. Active' = Active /\ Listed(sortedTroves, Active)
  BY <1>2, <1>7, Zenon DEF Books, Active, ActiveIn, isActive
<1>9. RedemptionTx(tx') /\ tx'.saved = tx.saved /\ tx'.user = getPrev(b)
  BY <1>1, <1>2, DrawnKeeps, Zenon DEF RedemptionGood
<1>10. tx'.user \in Active' \cup {NULL}
  BY <1>3, <1>8, <1>9, PrevListed, Zenon
<1>11. RedemptionGood'
  BY <1>1, <1>2, <1>9, <1>10, Zenon DEF RedemptionGood
<1> QED
  BY <1>1, <1>2, <1>7, <1>11, Zenon DEF IInv

(* A cancelled partial redemption has applied the pending rewards. *)
LEMMA CancelPartialIInv ==
    ASSUME IInv, cancelPartial
    PROVE  IInv' /\ TroveOwners' = TroveOwners /\ ActiveIn(Troves') = Active
<1> DEFINE b == tx.user
           t == applyPendingRewards(b)
<1>1. /\ tx.op = "redeem" /\ b # NULL
      /\ Troves' = [Troves EXCEPT ![b] = t] /\ sortedTroves' = sortedTroves
      /\ TroveOwners' = TroveOwners /\ zusd' = zusd /\ tx' = [tx EXCEPT !.left = 0]
  BY Zenon DEF cancelPartial, redeeming
<1>2. RedemptionGood /\ Books(Troves, TroveOwners, sortedTroves) /\ Purse(zusd)
  BY <1>1, RedemptionPart, Zenon DEF IInv
<1>3. b \in Active /\ Trove(Troves[b])
  BY <1>1, <1>2, Zenon DEF RedemptionGood, Books, Active
<1>4. Trove(t) /\ t.status = Troves[b].status /\ t.arrayIndex = Troves[b].arrayIndex
  BY <1>3, ApplyKeeps, Zenon
<1> HIDE DEF t
<1>5. Books(Troves', TroveOwners', sortedTroves') /\ ActiveIn(Troves') = Active
  <2> HIDE DEF b
  <2> QED
    BY <1>1, <1>2, <1>3, <1>4, UpdateActive, Zenon
<1>6. Active' = Active
  BY <1>5, Zenon DEF Active, ActiveIn, isActive
<1>7. RedemptionTx(tx') /\ tx'.saved = tx.saved /\ tx'.user = tx.user
  BY <1>1, <1>2, Zenon DEF RedemptionGood, RedemptionTx
<1>8. RedemptionGood'
  BY <1>1, <1>2, <1>6, <1>7, Zenon DEF RedemptionGood
<1> QED
  BY <1>1, <1>2, <1>5, <1>8, Zenon DEF IInv

(* The last step of a redemption burns ZUSD of the redeemer only. *)
LEMMA FinishRedemptionIInv ==
    ASSUME IInv, finishRedemption
    PROVE  IInv' /\ TroveOwners' = TroveOwners
<1> DEFINE u == zusd.users - tx.totalZUSDToRedeem
<1>1. /\ tx.op = "redeem" /\ tx' = Idle /\ Troves' = Troves
      /\ sortedTroves' = sortedTroves /\ TroveOwners' = TroveOwners
      /\ zusd' = [zusd EXCEPT !.users = u]
  BY Zenon DEF finishRedemption
<1> HIDE DEF u
<1>2. RedemptionGood /\ Books(Troves, TroveOwners, sortedTroves) /\ Purse(zusd)
  BY <1>1, RedemptionPart, Zenon DEF IInv
<1>3. Purse(zusd') /\ zusd'.gasPool = zusd.gasPool
  BY <1>1, <1>2, Zenon DEF Purse
<1> QED
  BY <1>1, <1>2, <1>3, Zenon DEF IInv, RedemptionGood

-----------------------------------------------------------------------------
(* Every step *)

(* Every transaction and every iteration keeps the invariant, and does not *)
(* remove the last trove.                                                  *)
LEMMA NextIInv ==
    IInv /\ [Next]_vars => IInv' /\ (TroveOwners # << >> => TroveOwners' # << >>)
<1> SUFFICES ASSUME IInv, [Next]_vars
             PROVE  IInv' /\ (TroveOwners # << >> => TroveOwners' # << >>)
  BY Zenon
<1>1. ASSUME Len(TroveOwners') > 0, IInv'
      PROVE  TroveOwners' # << >>
  BY <1>1, NoEntry
<1>2. CASE BorrowerTransaction
  BY <1>1, <1>2, OpenIInv, AdjustIInv, CloseOwnIInv, OthersIInv, Zenon DEF BorrowerTransaction
<1>3. CASE LiquidatorTransaction
  <2>1. ASSUME NEW array \in Batches PROVE array \in Seq(Borrowers)
    <3>1. PICK n \in 1 .. MaxBatch : array \in [1 .. n -> Borrowers]
      BY Zenon DEF Batches
    <3>2. n \in Nat
      BY InputsAssumption
    <3> QED
      BY <3>1, <3>2
  <2>2. << >> \in Seq(Borrowers) /\ \A b \in Borrowers : <<b>> \in Seq(Borrowers)
    OBVIOUS
  <2> QED
    BY <1>3, <2>1, <2>2, StartLiquidationIInv, Zenon
    DEF LiquidatorTransaction, liquidateTroves, batchLiquidateTroves, liquidate
<1>4. CASE RedeemerTransaction
  BY <1>4, StartRedemptionIInv, Zenon DEF RedeemerTransaction
<1>5. CASE DepositorTransaction \/ \E p \in Prices : setPrice(p)
  BY <1>5, OthersIInv, Zenon DEF DepositorTransaction
<1>6. CASE Continue
  <2>1. CASE liquidateTrove \/ redeemWholeTrove
    BY <2>1, LiquidateTroveIInv, RedeemWholeIInv, Zenon
  <2>2. CASE skipTrove \/ finishLiquidation
    BY <2>2, SkipTroveIInv, FinishLiquidationIInv, Zenon
  <2>3. CASE redeemPartOfTrove \/ cancelPartial \/ finishRedemption
    BY <2>3, RedeemPartIInv, CancelPartialIInv, FinishRedemptionIInv, Zenon
  <2>4. CASE revertLiquidation \/ revertRedemption
    BY <2>4, RestoreIInv, Zenon DEF revertLiquidation, revertRedemption
  <2> QED
    BY <1>6, <2>1, <2>2, <2>3, <2>4, Zenon DEF Continue
<1>7. CASE UNCHANGED vars
  <2>1. /\ Troves' = Troves /\ TroveOwners' = TroveOwners /\ sortedTroves' = sortedTroves
        /\ zusd' = zusd /\ tx' = tx
    BY <1>7, Zenon DEF vars
  <2> QED
    BY <2>1, Zenon DEF IInv, LiquidationGood, RedemptionGood, Active, isActive
<1> QED
  BY <1>2, <1>3, <1>4, <1>5, <1>6, <1>7, Zenon DEF Next

(* As many owners and list entries as active troves: a list that holds     *)
(* each member of A once is as long as A is large.                         *)
LEMMA ListedLength ==
    ASSUME NEW L, NEW A, Listed(L, A)
    PROVE  Len(L) = Cardinality(A)
<1> DEFINE I == 1 .. Len(L)
           f == [i \in I |-> L[i]]
<1>1. Len(L) \in Nat
  BY Positions, Zenon DEF Listed
<1>2. f \in Bijection(I, A)
  BY Zenon DEF Listed, Bijection, Injection, Surjection, IsInjective
<1>3. IsFiniteSet(I) /\ Cardinality(I) = Len(L)
  <2> DEFINE n == Len(L)
  <2>1. n \in Nat
    BY <1>1, Zenon
  <2> HIDE DEF n
  <2>2. IsFiniteSet(1 .. n) /\ Cardinality(1 .. n) = IF 1 > n THEN 0 ELSE n - 1 + 1
    BY <2>1, FS_Interval
  <2>3. (IF 1 > n THEN 0 ELSE n - 1 + 1) = n
    BY <2>1
  <2> QED
    BY ONLY <2>2, <2>3 DEF n
<1> HIDE DEF I, f
<1> QED
  BY <1>2, <1>3, FS_Bijection, Zenon DEF ExistsBijection

(* The owners array is a list of the active troves, each of them once. *)
LEMMA OwnersListed ==
    ASSUME NEW Tr, NEW Ow, NEW A \in SUBSET Borrowers, Indexed(Tr, Ow, A)
    PROVE  Listed(Ow, A)
<1>1. Len(Ow) \in Nat
  BY Positions, Zenon DEF Indexed
<1>2. ASSUME NEW i \in 1 .. Len(Ow), NEW j \in 1 .. Len(Ow), Ow[i] = Ow[j]
      PROVE  i = j
  BY <1>1, <1>2 DEF Indexed
<1>3. \A b \in A : \E i \in 1 .. Len(Ow) : Ow[i] = b
  BY Zenon DEF Indexed
<1>4. A = {Ow[i] : i \in 1 .. Len(Ow)}
  BY <1>3, Zenon DEF Indexed
<1> QED
  BY <1>2, <1>4, Zenon DEF Listed, Indexed

-----------------------------------------------------------------------------
(* Theorems *)

(* The invariant holds in every reachable state. *)
LEMMA SpecIInv == Spec => []IInv
<1>1. IInv /\ [Next]_vars => IInv'
  BY NextIInv, Zenon
<1> QED
  BY <1>1, InitIInv, PTL DEF Spec

(* For any number of borrowers, any inputs, any prices and any values of   *)
(* the protocol's parameters: the owners array with its swap-and-pop       *)
(* removal (_removeTroveOwner), the index in every trove, the sorted list  *)
(* and the status agree on which troves exist.                             *)
THEOREM OwnersStayIndexed == Spec => []OwnersIndexed
<1>1. IInv => OwnersIndexed
  <2> SUFFICES ASSUME IInv PROVE OwnersIndexed
    BY Zenon
  <2>1. /\ Indexed(Troves, TroveOwners, Active) /\ Listed(sortedTroves, Active)
        /\ Active \in SUBSET Borrowers
    BY Zenon DEF IInv, Books, Active, ActiveIn, isActive
  <2>2. Len(TroveOwners) = Cardinality(Active)
    BY ONLY <2>1, OwnersListed, ListedLength, Zenon
  <2>3. Len(sortedTroves) = Cardinality(Active)
    BY ONLY <2>1, ListedLength, Zenon
  <2>4. \A b \in Active : indexOf(b) \in 1 .. Len(TroveOwners) /\ TroveOwners[indexOf(b)] = b
    BY <2>1, Zenon DEF Indexed, indexOf
  <2>5. \A b \in Active : \E i \in 1 .. Len(sortedTroves) : sortedTroves[i] = b
    BY <2>1, Zenon DEF Listed
  <2> QED
    BY <2>2, <2>3, <2>4, <2>5, Zenon DEF OwnersIndexed
<1> QED
  BY <1>1, SpecIInv, PTL

(* The GasPool holds one liquidation reserve for each trove that exists,   *)
(* between transactions and, counting what a liquidation has yet to pay to *)
(* the liquidator (_sendGasCompensation), at every iteration of one.       *)
THEOREM ReserveStaysPerTrove == Spec => []ReservePerTrove
<1>1. IInv => ReservePerTrove
  <2> SUFFICES ASSUME IInv PROVE ReservePerTrove
    OBVIOUS
  <2>0. Len(TroveOwners) \in Nat /\ ZUSD_GAS_COMPENSATION * Len(TroveOwners) \in Nat
    BY Positions, LiquityBaseAssumption DEF IInv, Books, Indexed
  <2>1. CASE tx = Idle
    BY <2>0, <2>1, IdlePart DEF ReservePerTrove, UnsettledReserve, Liquidating, Idle, Reserves
  <2>2. CASE LiquidationGood
    BY <2>2 DEF LiquidationGood, LiquidationTx, ReservePerTrove, UnsettledReserve,
                Liquidating, Reserves
  <2>3. CASE RedemptionGood
    BY <2>0, <2>3 DEF RedemptionGood, RedemptionTx, ReservePerTrove, UnsettledReserve,
                      Liquidating, Reserves
  <2> QED
    BY <2>1, <2>2, <2>3, Zenon DEF IInv
<1> QED
  BY <1>1, SpecIInv, PTL

(* No transaction removes the last trove: closing by its owner, by         *)
(* liquidation in either mode and by redemption all leave one, reverts     *)
(* included, so that a redistribution always has stakes to divide by.      *)
THEOREM LastTroveAlwaysStays == Spec => LastTroveStays
<1>1. IInv /\ [Next]_vars => [TroveOwners # << >> => TroveOwners' # << >>]_vars
  BY NextIInv, Zenon
<1> QED
  BY <1>1, SpecIInv, PTL DEF Spec, LastTroveStays

(* Only the revert of a liquidation undoes work. *)
LEMMA UndoneByRevert ==
    ASSUME IInv, Next, WorkUndone
    PROVE  revertLiquidation
<1>1. tx.op = "liquidate" /\ tx' = Idle /\ Troves' # Troves
  BY Zenon DEF WorkUndone, Liquidating
<1>2. tx # Idle /\ tx.op # "redeem" /\ Idle.op # "liquidate"
  BY <1>1 DEF Idle
<1>3. LiquidationTx(tx)
  BY <1>1, LiquidationPart, Zenon DEF LiquidationGood
<1>4. ASSUME NEW b, NEW v, v.ZUSDGasCompensation \in Int, tx' = advance(b, v)
      PROVE  FALSE
  <2>1. LiquidationTx(tx')
    BY <1>3, <1>4, AdvanceKeeps, Zenon
  <2>2. tx'.op = "liquidate"
    BY <2>1 DEF LiquidationTx
  <2> QED
    BY <1>1, <1>2, <2>2, Zenon
<1>5. ~liquidateTrove
  <2>1. ASSUME liquidateTrove
        PROVE  /\ singleLiquidation(visited) # zeroVals
               /\ tx' = advance(visited, singleLiquidation(visited))
    BY <2>1, Zenon DEF liquidateTrove
  <2>2. ZUSD_GAS_COMPENSATION \in Int
    BY LiquityBaseAssumption
  <2> QED
    BY <1>4, <2>1, <2>2, YieldsReserve, Zenon
<1>6. ~skipTrove
  <2>1. zeroVals.ZUSDGasCompensation \in Int
    BY DEF zeroVals, LiquidationFields
  <2> QED
    BY <1>4, <2>1, Zenon DEF skipTrove
<1>7. ~finishLiquidation
  BY <1>1, Zenon DEF finishLiquidation
<1>8. ~BorrowerTransaction
  <2>1. ASSUME NEW b, NEW coll, NEW amount, NEW rate, openTrove(b, coll, amount, rate)
        PROVE  tx = Idle
    BY <2>1, Zenon DEF openTrove
  <2>2. ASSUME NEW b, NEW collIn, NEW collOut, NEW amount, NEW up, NEW rate,
               adjustTrove(b, collIn, collOut, amount, up, rate)
        PROVE  tx = Idle
    BY <2>2, Zenon DEF adjustTrove
  <2>3. \A b : ~closeOwnTrove(b) /\ ~claimCollateral(b)
    BY <1>2, Zenon DEF closeOwnTrove, claimCollateral
  <2> QED
    BY <1>2, <2>1, <2>2, <2>3, Zenon DEF BorrowerTransaction
<1>9. ~LiquidatorTransaction /\ ~RedeemerTransaction
  BY <1>2, Zenon
  DEF LiquidatorTransaction, liquidateTroves, batchLiquidateTroves, liquidate,
      startLiquidation, RedeemerTransaction, redeemCollateral
<1>10. ~DepositorTransaction /\ ~\E p \in Prices : setPrice(p)
  BY <1>2, Zenon DEF DepositorTransaction, provideToSP, withdrawFromSP, setPrice
<1>11. ~redeemWholeTrove /\ ~redeemPartOfTrove /\ ~cancelPartial
      /\ ~finishRedemption /\ ~revertRedemption
  BY <1>2, Zenon
  DEF redeemWholeTrove, redeemPartOfTrove, cancelPartial, finishRedemption, revertRedemption,
      redeeming
<1> QED
  BY <1>5, <1>6, <1>7, <1>8, <1>9, <1>10, <1>11, Zenon DEF Next, Continue

(* With one trove left, a sequence that began in Recovery Mode has reached *)
(* the head of the list, where it ends.                                    *)
LEMMA SequenceEndsAtHead ==
    ASSUME IInv, looping, ~tx.batch, tx.recoveryModeAtStart
    PROVE  Len(sortedTroves) # 1
<1>1. LiquidationGood
  BY LiquidationPart, Zenon DEF looping
<1>2. tx.firstUser = sortedTroves[1] /\ tx.user \in Active /\ tx.user # tx.firstUser
  BY <1>1, Zenon DEF LiquidationGood, looping
<1>3. Active = {sortedTroves[i] : i \in 1 .. Len(sortedTroves)}
  BY Zenon DEF IInv, Books, Listed, Active, ActiveIn, isActive
<1>4. PICK i \in 1 .. Len(sortedTroves) : tx.user = sortedTroves[i]
  BY <1>2, <1>3, Zenon
<1>5. Len(sortedTroves) = 1 => i = 1
  BY <1>4
<1> QED
  BY <1>2, <1>4, <1>5, Zenon

(* For every number of borrowers, all inputs and all prices: a liquidation *)
(* that began in Recovery Mode and has closed a trove goes through to the  *)
(* settlement, but for the two excused cases.  In the loop of a sequence   *)
(* the guard of the last trove never fails, and in that of a batch only    *)
(* once backToNormalMode is set.                                           *)
THEOREM RecoveryModeKeepsWork ==
    Spec => [][WorkUndone /\ tx.recoveryModeAtStart =>
                  BatchReachesLastTrove \/ NoStakesLeft]_vars
<1>1. ASSUME IInv, Next, WorkUndone, tx.recoveryModeAtStart
      PROVE  BatchReachesLastTrove \/ NoStakesLeft
  <2>1. revertLiquidation
    BY <1>1, UndoneByRevert, Zenon
  <2>2. CASE ~looping
    BY <1>1, <2>1, <2>2, Zenon
    DEF revertLiquidation, requireLiquidation, WorkUndone, NoStakesLeft
  <2>3. CASE looping
    <3>1. singleLiquidation(visited) # zeroVals /\ ~requireMoreThanOneTroveInSystem
      BY <2>1, <2>3, Zenon DEF revertLiquidation
    <3>2. LiquidationGood
      BY <1>1, <2>3, LiquidationPart, Zenon DEF looping
    <3>3. Len(TroveOwners) = Cardinality(Active) /\ Len(sortedTroves) = Cardinality(Active)
      <4>1. /\ Indexed(Troves, TroveOwners, Active) /\ Listed(sortedTroves, Active)
            /\ Active \in SUBSET Borrowers
        BY <1>1, Zenon DEF IInv, Books, Active, ActiveIn, isActive
      <4> QED
        BY <4>1, OwnersListed, ListedLength, Zenon
    <3>4. TroveOwners \in Seq(Borrowers) /\ TroveOwners # << >>
      BY <1>1, <3>2, Zenon DEF IInv, Books, Indexed, LiquidationGood
    <3>5. Len(TroveOwners) \in Nat /\ Len(TroveOwners) # 0
      BY <3>4, NoEntry
    <3>6. Len(TroveOwners) = 1 /\ Len(sortedTroves) = 1
      BY <3>1, <3>3, <3>5 DEF requireMoreThanOneTroveInSystem
    <3>7. tx.batch
      BY <1>1, <2>3, <3>6, SequenceEndsAtHead, Zenon
    <3>8. Len(TroveOwners) <= 1
      BY <3>6
    <3>9. ~inRecoveryMode
      BY <3>1, <3>8, Zenon DEF singleLiquidation, liquidateRecoveryMode
    <3> QED
      BY <1>1, <3>6, <3>7, <3>9, Zenon DEF inRecoveryMode, BatchReachesLastTrove
  <2> QED
    BY <2>2, <2>3, Zenon
<1>2. IInv /\ [Next]_vars => [WorkUndone /\ tx.recoveryModeAtStart =>
                                BatchReachesLastTrove \/ NoStakesLeft]_vars
  BY <1>1, Zenon
<1> QED
  BY <1>2, SpecIInv, PTL DEF Spec
=============================================================================
