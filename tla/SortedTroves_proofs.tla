------------------------ MODULE SortedTroves_proofs ------------------------
(***************************************************************************)
(* The list of troves stays well linked, counted and in order for every    *)
(* set of borrowers, every hint and every NICR, and implements SortedList. *)
(*                                                                         *)
(* Lists are values here: the lemmas say what link and unlink do to any    *)
(* list d, and the step theorem applies them to data and to the list       *)
(* reInsert has already removed a node from.                               *)
(***************************************************************************)
EXTENDS SortedTroves, FiniteSetTheorems, SequenceTheorems, TLAPS

(* A list whose links and size are right. *)
GoodList(d) ==
    /\ d \in Data
    /\ LinksOf(d)
    /\ InOneChain(d)
    /\ d.size = Cardinality(d.nodes)

(* A place link may be given: the neighbours are adjacent or at an end. *)
Gap(d, prevId, nextId) ==
    \/ prevId = NULL /\ nextId = NULL /\ d.nodes = {}
    \/ prevId = NULL /\ nextId # NULL /\ d.head = nextId
    \/ prevId # NULL /\ nextId = NULL /\ d.tail = prevId
    \/ prevId # NULL /\ nextId # NULL /\ d.nextId[prevId] = nextId

(* A list's nodes are finitely many, and its size is 0 only if there is    *)
(* none: what isEmpty answers.                                             *)
LEMMA NodesFinite ==
    ASSUME NEW d, GoodList(d)
    PROVE  /\ IsFiniteSet(d.nodes)
           /\ isEmpty(d) <=> d.nodes = {}
<1>1. IsFiniteSet(d.nodes)
  BY FS_Subset, IdsAssumption, Zenon DEF GoodList, Data
<1> QED
  BY <1>1, FS_EmptySet, Zenon DEF GoodList, isEmpty

(* A hint or a walk's end that _validInsertPosition accepts is a gap. *)
LEMMA ValidIsGap ==
    ASSUME NEW d, GoodList(d), NEW nr, NEW NICR, NEW p \in Address, NEW n \in Address,
           validInsertPosition(d, nr, NICR, p, n)
    PROVE  Gap(d, p, n)
BY NodesFinite, Zenon DEF Gap, validInsertPosition

(* What Gap says of the neighbours themselves. *)
LEMMA GapNeighbours ==
    ASSUME NEW d, GoodList(d), NEW p \in Address, NEW n \in Address, Gap(d, p, n)
    PROVE  /\ p # NULL => p \in d.nodes /\ d.nextId[p] = n
           /\ n # NULL => n \in d.nodes /\ d.prevId[n] = p
           /\ p = NULL => n = d.head
           /\ n = NULL => p = d.tail
<1>1. NULL \notin d.nodes /\ NULL \in Address
  BY IdsAssumption, Zenon DEF GoodList, Data, Address
<1> QED
  BY <1>1, Zenon DEF Gap, GoodList, LinksOf

(* Linking a new id into a gap gives a well-formed list with that id. *)
LEMMA LinkGood ==
    ASSUME NEW d, GoodList(d), NEW id \in Ids, ~contains(d, id),
           NEW p \in Address, NEW n \in Address, Gap(d, p, n)
    PROVE  /\ GoodList(link(d, id, p, n))
           /\ link(d, id, p, n).nodes = d.nodes \cup {id}
           /\ link(d, id, p, n).nextId = [x \in Address |->
                 IF x = id THEN n ELSE IF x = p /\ p # NULL THEN id ELSE d.nextId[x]]
<1> DEFINE e == link(d, id, p, n)
           after == [x \in Address |->
                       IF x = id THEN n ELSE IF x = p /\ p # NULL THEN id ELSE d.nextId[x]]
           before == [x \in Address |->
                       IF x = id THEN p ELSE IF x = n /\ n # NULL THEN id ELSE d.prevId[x]]
<1>1. /\ d \in Data /\ LinksOf(d) /\ id \notin d.nodes
      /\ id # NULL /\ id \in Address /\ NULL \in Address /\ NULL \notin d.nodes
      /\ d.nodes \subseteq Address
  BY IdsAssumption, Zenon DEF GoodList, Data, Address, contains
<1>2. /\ d.nextId \in [Address -> Address] /\ d.prevId \in [Address -> Address]
      /\ d.nextId[id] = NULL /\ d.prevId[id] = NULL
      /\ d.nodes \in SUBSET Ids /\ d.size \in Nat /\ d.maxSize \in Nat
      /\ d.head \in Address /\ d.tail \in Address
  BY <1>1, Zenon DEF Data, LinksOf
<1>3. /\ p # NULL => p \in d.nodes /\ d.nextId[p] = n
      /\ n # NULL => n \in d.nodes /\ d.prevId[n] = p
      /\ p = NULL => n = d.head
      /\ n = NULL => p = d.tail
  BY GapNeighbours, Zenon
<1>4. e.nextId = after
  BY <1>1, <1>2, <1>3, Zenon DEF link
<1>5. e.prevId = before
  BY <1>1, <1>2, <1>3, Zenon DEF link
<1>6. /\ e.head = IF p = NULL THEN id ELSE d.head
      /\ e.tail = IF n = NULL THEN id ELSE d.tail
      /\ e.size = d.size + 1
      /\ e.maxSize = d.maxSize
      /\ e.nodes = d.nodes \cup {id}
  BY Zenon DEF link
<1>7. e \in Data
  <2>1. after \in [Address -> Address] /\ before \in [Address -> Address]
    BY <1>1, <1>2, Zenon
  <2>2. e = [head |-> e.head, tail |-> e.tail, size |-> e.size, maxSize |-> e.maxSize,
             nodes |-> e.nodes, nextId |-> e.nextId, prevId |-> e.prevId]
    BY Zenon DEF link
  <2> HIDE DEF e, after, before
  <2> QED
    BY <1>1, <1>2, <1>4, <1>5, <1>6, <2>1, <2>2 DEF Data
<1>8. e.size = Cardinality(e.nodes)
  BY <1>1, <1>6, NodesFinite, FS_AddElement, Zenon DEF GoodList
<1> HIDE DEF e
<1>9. LinksOf(e)
  BY <1>1, <1>2, <1>3, <1>4, <1>5, <1>6 DEF LinksOf
<1>10. InOneChain(e)
  <2>1. PICK pos \in [d.nodes -> 1 .. d.size] : Numbers(pos, d)
    BY Zenon DEF GoodList, InOneChain
  <2> DEFINE shifted == [x \in e.nodes |->
                IF x = id THEN (IF p = NULL THEN 1 ELSE pos[p] + 1)
                ELSE IF p = NULL \/ pos[x] > pos[p] THEN pos[x] + 1
                ELSE pos[x]]
  <2>2. shifted \in [e.nodes -> 1 .. e.size]
    BY <1>1, <1>2, <1>3, <1>6
  <2>3. Numbers(shifted, e)
    <3>1. \A a, b \in e.nodes : shifted[a] = shifted[b] => a = b
      BY <1>1, <1>2, <1>3, <1>6, <2>1 DEF Numbers
    <3>2. \A a \in e.nodes : a = e.head <=> shifted[a] = 1
      BY <1>1, <1>2, <1>3, <1>6, <2>1 DEF Numbers, LinksOf
    <3>3. \A a \in e.nodes : a = e.tail <=> shifted[a] = e.size
      <4>1. d.nodes = {} <=> d.size = 0
        BY NodesFinite, Zenon DEF isEmpty
      <4>2. CASE d.nodes = {}
        BY <1>2, <1>3, <1>6, <4>1, <4>2
      <4>3. CASE d.nodes # {} /\ n = NULL
        BY <1>1, <1>2, <1>3, <1>6, <2>1, <4>1, <4>3 DEF Numbers, LinksOf
      <4>4. CASE d.nodes # {} /\ n # NULL
        BY <1>1, <1>2, <1>3, <1>6, <2>1, <4>1, <4>4 DEF Numbers, LinksOf
      <4> QED
        BY <4>2, <4>3, <4>4, Zenon
    <3>4. ASSUME NEW a \in e.nodes, e.nextId[a] # NULL
          PROVE  shifted[e.nextId[a]] = shifted[a] + 1
      BY <1>1, <1>2, <1>3, <1>4, <1>6, <2>1, <3>4 DEF Numbers, LinksOf
    <3> QED
      BY <3>1, <3>2, <3>3, <3>4, Zenon DEF Numbers
  <2> QED
    BY <2>2, <2>3, Zenon DEF InOneChain
<1> QED
  BY <1>4, <1>6, <1>7, <1>8, <1>9, <1>10, Zenon DEF GoodList, e

(* Unlinking a node gives a well-formed list without it, in which its two  *)
(* neighbours are adjacent.                                                *)
LEMMA UnlinkGood ==
    ASSUME NEW d, GoodList(d), NEW id \in Ids, contains(d, id)
    PROVE  /\ GoodList(unlink(d, id))
           /\ unlink(d, id).nodes = d.nodes \ {id}
           /\ unlink(d, id).nextId = [x \in Address |->
                 IF x = id THEN NULL ELSE IF x = d.prevId[id] /\ x # NULL THEN d.nextId[id] ELSE d.nextId[x]]
           /\ unlink(d, id).head = IF d.prevId[id] = NULL THEN d.nextId[id] ELSE d.head
           /\ unlink(d, id).size = d.size - 1
<1> DEFINE e == unlink(d, id)
           p == d.prevId[id]
           n == d.nextId[id]
           after == [x \in Address |->
                       IF x = id THEN NULL ELSE IF x = p /\ x # NULL THEN n ELSE d.nextId[x]]
           before == [x \in Address |->
                       IF x = id THEN NULL ELSE IF x = n /\ x # NULL THEN p ELSE d.prevId[x]]
<1>1. /\ d \in Data /\ LinksOf(d) /\ id \in d.nodes
      /\ id # NULL /\ id \in Address /\ NULL \in Address /\ NULL \notin d.nodes
      /\ d.nodes \subseteq Address
  BY IdsAssumption, Zenon DEF GoodList, Data, Address, contains
<1>2. /\ d.nextId \in [Address -> Address] /\ d.prevId \in [Address -> Address]
      /\ d.nodes \in SUBSET Ids /\ d.size \in Nat /\ d.maxSize \in Nat
      /\ d.head \in Address /\ d.tail \in Address
      /\ p \in Address /\ n \in Address
  BY <1>1, Zenon DEF Data
<1>3. /\ p # NULL => p \in d.nodes /\ d.nextId[p] = id
      /\ n # NULL => n \in d.nodes /\ d.prevId[n] = id
      /\ p = NULL <=> id = d.head
      /\ n = NULL <=> id = d.tail
  BY <1>1, Zenon DEF LinksOf
<1>4. /\ d.size >= 1
      /\ d.size <= 1 => d.nodes = {id}
      /\ d.nodes = {id} => d.size = 1
  <2>1. IsFiniteSet(d.nodes) /\ Cardinality(d.nodes) \in Nat /\ d.size = Cardinality(d.nodes)
    BY NodesFinite, FS_CardinalityType, Zenon DEF GoodList
  <2>2. Cardinality(d.nodes) # 0
    BY <1>1, <2>1, FS_EmptySet, Zenon
  <2>3. Cardinality(d.nodes) = 1 => d.nodes = {id}
    BY <1>1, <2>1, FS_Singleton
  <2>4. Cardinality({id}) = 1
    BY FS_Singleton, Zenon
  <2> QED
    BY <2>1, <2>2, <2>3, <2>4
<1>5. PICK pos \in [d.nodes -> 1 .. d.size] : Numbers(pos, d)
  BY Zenon DEF GoodList, InOneChain
<1>6. /\ d.size <= 1 <=> p = NULL /\ n = NULL
      /\ n # id /\ p # id
  BY <1>1, <1>2, <1>3, <1>4, <1>5 DEF Numbers
<1>7. e.nextId = after
  BY <1>1, <1>2, <1>3, <1>6, Zenon DEF unlink
<1>8. e.prevId = before
  BY <1>1, <1>2, <1>3, <1>6, Zenon DEF unlink
<1>9. /\ e.head = IF p = NULL THEN n ELSE d.head
      /\ e.tail = IF n = NULL THEN p ELSE d.tail
      /\ e.size = d.size - 1
      /\ e.maxSize = d.maxSize
      /\ e.nodes = d.nodes \ {id}
  BY <1>3, <1>6, Zenon DEF unlink
<1>10. e \in Data
  <2>1. after \in [Address -> Address] /\ before \in [Address -> Address]
    BY <1>1, <1>2, Zenon
  <2>2. e = [head |-> e.head, tail |-> e.tail, size |-> e.size, maxSize |-> e.maxSize,
             nodes |-> e.nodes, nextId |-> e.nextId, prevId |-> e.prevId]
    BY Zenon DEF unlink
  <2> HIDE DEF e, after, before
  <2> QED
    BY <1>1, <1>2, <1>4, <1>7, <1>8, <1>9, <2>1, <2>2 DEF Data
<1>11. e.size = Cardinality(e.nodes)
  BY <1>1, <1>9, NodesFinite, FS_RemoveElement, Zenon DEF GoodList
<1> HIDE DEF e
<1>12. LinksOf(e)
  <2>1. e.nodes = {} <=> p = NULL /\ n = NULL
    BY <1>1, <1>3, <1>4, <1>6, <1>9, Zenon
  <2>2. /\ e.head = NULL <=> e.nodes = {}
        /\ e.tail = NULL <=> e.nodes = {}
        /\ e.head \in e.nodes \cup {NULL}
        /\ e.tail \in e.nodes \cup {NULL}
    BY <1>1, <1>3, <1>6, <1>9, <2>1, Zenon DEF LinksOf
  <2>3. \A x \in Address \ e.nodes : e.nextId[x] = NULL /\ e.prevId[x] = NULL
    BY <1>1, <1>3, <1>7, <1>8, <1>9 DEF LinksOf
  <2>4. ASSUME NEW x \in e.nodes
        PROVE  /\ e.nextId[x] = NULL <=> x = e.tail
               /\ e.nextId[x] # NULL => e.nextId[x] \in e.nodes /\ e.prevId[e.nextId[x]] = x
    BY <1>1, <1>2, <1>3, <1>6, <1>7, <1>8, <1>9 DEF LinksOf
  <2>5. ASSUME NEW x \in e.nodes
        PROVE  /\ e.prevId[x] = NULL <=> x = e.head
               /\ e.prevId[x] # NULL => e.prevId[x] \in e.nodes /\ e.nextId[e.prevId[x]] = x
    BY <1>1, <1>2, <1>3, <1>6, <1>7, <1>8, <1>9 DEF LinksOf
  <2> QED
    BY <2>2, <2>3, <2>4, <2>5, Zenon DEF LinksOf
<1>13. InOneChain(e)
  <2> DEFINE shifted == [x \in e.nodes |-> IF pos[x] > pos[id] THEN pos[x] - 1 ELSE pos[x]]
  <2>1. shifted \in [e.nodes -> 1 .. e.size]
    BY <1>1, <1>2, <1>5, <1>9 DEF Numbers
  <2>2. Numbers(shifted, e)
    <3>1. \A a, b \in e.nodes : shifted[a] = shifted[b] => a = b
      BY <1>1, <1>2, <1>5, <1>9 DEF Numbers
    <3>2. \A a \in e.nodes : a = e.head <=> shifted[a] = 1
      BY <1>1, <1>2, <1>3, <1>5, <1>6, <1>9 DEF Numbers
    <3>3. \A a \in e.nodes : a = e.tail <=> shifted[a] = e.size
      <4>1. CASE n = NULL /\ p = NULL
        BY <1>1, <1>4, <1>6, <1>9, <4>1, Zenon
      <4>2. CASE n = NULL /\ p # NULL
        BY <1>1, <1>2, <1>3, <1>5, <1>6, <1>9, <4>2 DEF Numbers
      <4>3. CASE n # NULL
        <5>1. pos[id] < d.size /\ d.tail \in d.nodes \ {id}
          BY <1>1, <1>2, <1>3, <1>5, <4>3 DEF Numbers, LinksOf
        <5> QED
          BY <1>1, <1>2, <1>5, <1>9, <4>3, <5>1 DEF Numbers
      <4> QED
        BY <4>1, <4>2, <4>3, Zenon
    <3>4. ASSUME NEW a \in e.nodes, e.nextId[a] # NULL
          PROVE  shifted[e.nextId[a]] = shifted[a] + 1
      BY <1>1, <1>2, <1>3, <1>5, <1>7, <1>9, <3>4 DEF Numbers, LinksOf
    <3> QED
      BY <3>1, <3>2, <3>3, <3>4, Zenon DEF Numbers
  <2> QED
    BY <2>1, <2>2, Zenon DEF InOneChain
<1> QED
  BY <1>7, <1>9, <1>10, <1>11, <1>12, <1>13, Zenon DEF GoodList, e

-----------------------------------------------------------------------------
(* Order *)

(* A node linked where its NICR fits keeps the list in order. *)
LEMMA LinkDescending ==
    ASSUME NEW d, GoodList(d), NEW id \in Ids, ~contains(d, id),
           NEW p \in Address, NEW n \in Address, Gap(d, p, n),
           NEW nr \in [Address -> Nat], DescendingIn(d, nr),
           p # NULL => nr[p] >= nr[id],
           n # NULL => nr[id] >= nr[n]
    PROVE  DescendingIn(link(d, id, p, n), nr)
<1>1. /\ link(d, id, p, n).nodes = d.nodes \cup {id}
      /\ link(d, id, p, n).nextId = [x \in Address |->
                 IF x = id THEN n ELSE IF x = p /\ p # NULL THEN id ELSE d.nextId[x]]
  BY LinkGood
<1>2. d.nodes \subseteq Address /\ id \in Address
  BY Zenon DEF GoodList, Data, Address
<1> QED
  BY <1>1, <1>2, Zenon DEF DescendingIn

(* Taking a node out keeps the list in order: its neighbours were ordered  *)
(* through it.                                                             *)
LEMMA UnlinkDescending ==
    ASSUME NEW d, GoodList(d), NEW id \in Ids, contains(d, id),
           NEW nr \in [Address -> Nat], DescendingIn(d, nr)
    PROVE  DescendingIn(unlink(d, id), nr)
<1>1. /\ unlink(d, id).nodes = d.nodes \ {id}
      /\ unlink(d, id).nextId = [x \in Address |->
            IF x = id THEN NULL ELSE IF x = d.prevId[id] /\ x # NULL THEN d.nextId[id] ELSE d.nextId[x]]
  BY UnlinkGood, Zenon
<1>2. /\ d.nodes \subseteq Address /\ id \in d.nodes
      /\ d.nextId \in [Address -> Address] /\ d.prevId \in [Address -> Address]
  BY Zenon DEF GoodList, Data, Address, contains
<1>3. d.prevId[id] # NULL => d.prevId[id] \in d.nodes /\ d.nextId[d.prevId[id]] = id
  BY <1>2, Zenon DEF GoodList, LinksOf
<1>4. SUFFICES ASSUME NEW x \in d.nodes \ {id}, unlink(d, id).nextId[x] # NULL
               PROVE  nr[x] >= nr[unlink(d, id).nextId[x]]
  BY <1>1, Zenon DEF DescendingIn
<1>5. CASE x = d.prevId[id] /\ x # NULL
  <2>1. d.nextId[id] # NULL /\ unlink(d, id).nextId[x] = d.nextId[id]
    BY <1>1, <1>2, <1>4, <1>5, Zenon
  <2>2. nr[x] >= nr[id] /\ nr[id] >= nr[d.nextId[id]] /\ id # NULL
    BY <1>2, <1>3, <1>5, <2>1, IdsAssumption, Zenon DEF DescendingIn
  <2>3. nr[x] \in Nat /\ nr[id] \in Nat /\ nr[d.nextId[id]] \in Nat
    BY <1>2, Zenon
  <2> QED
    BY <2>1, <2>2, <2>3
<1>6. CASE ~(x = d.prevId[id] /\ x # NULL)
  BY <1>1, <1>2, <1>4, <1>6, Zenon DEF DescendingIn
<1> QED
  BY <1>5, <1>6, Zenon

-----------------------------------------------------------------------------
(* The walk *)

(* What holds of the locals of a walk while it runs: the cursor is a pair  *)
(* of neighbours, and the node to be placed lies on the far side of it.    *)
WalkGood(d, nr, c) ==
    /\ c \in CallType
    /\ c.id \in Ids \ d.nodes
    /\ c.NICR \in NICRs
    /\ nr[c.id] = c.NICR
    /\ c.walk = "descend" =>
          /\ c.nextId = d.nextId[c.prevId]
          /\ d.nodes = {} => c.prevId = NULL
          /\ d.nodes # {} => c.prevId \in d.nodes /\ nr[c.prevId] >= c.NICR
    /\ c.walk = "ascend" =>
          /\ c.prevId = d.prevId[c.nextId]
          /\ c.nextId \in d.nodes /\ nr[c.nextId] <= c.NICR

(* What insertPosition and the two walks may return. *)
GoodStart(d, nr, NICR, at) ==
    /\ at.walk = "none" =>
          /\ at.prevId \in Address /\ at.nextId \in Address
          /\ validInsertPosition(d, nr, NICR, at.prevId, at.nextId)
    /\ at.walk # "none" => WalkGood(d, nr, at)

(* Whatever the hints, _insert starts from a valid position or from a good *)
(* cursor.                                                                 *)
LEMMA StartGood ==
    ASSUME NEW d, GoodList(d), NEW nr \in [Address -> Nat], nr[NULL] = Infinite,
           NEW id \in Ids, ~contains(d, id), NEW NICR \in NICRs, nr[id] = NICR,
           NEW p \in Address, NEW n \in Address
    PROVE  GoodStart(d, nr, NICR, insertPosition(d, nr, id, NICR, p, n))
<1> DEFINE at == insertPosition(d, nr, id, NICR, p, n)
<1>1. /\ NULL \notin d.nodes /\ d.nodes \subseteq Address /\ NULL \in Address
      /\ d.nextId \in [Address -> Address] /\ d.prevId \in [Address -> Address]
      /\ d.head \in Address /\ d.tail \in Address /\ id \in Address
      /\ NICR \in Nat /\ NICR < Infinite /\ Infinite \in Nat /\ NICR \in 0 .. MaxNICR
      /\ id \in Ids \ d.nodes
  BY IdsAssumption, MaxNICRAssumption DEF GoodList, Data, Address, NICRs, Infinite, contains
<1>2. /\ d.head = NULL <=> d.nodes = {}
      /\ d.tail = NULL <=> d.nodes = {}
      /\ d.head \in d.nodes \cup {NULL} /\ d.tail \in d.nodes \cup {NULL}
  BY Zenon DEF GoodList, LinksOf
<1>3. ASSUME NEW q \in Address, q = d.head \/ (q \in d.nodes /\ NICR <= nr[q])
      PROVE  GoodStart(d, nr, NICR, descendList(d, nr, id, NICR, q))
  <2>1. CASE d.head = q /\ NICR >= nr[q]
    <3>1. q # NULL
      BY <1>1, <2>1
    <3> QED
      BY <1>1, <2>1, <3>1, Zenon DEF descendList, Cursor, validInsertPosition, GoodStart
  <2>2. CASE ~(d.head = q /\ NICR >= nr[q])
    <3>1. descendList(d, nr, id, NICR, q) = Cursor("descend", id, NICR, q, d.nextId[q])
      BY <2>2, Zenon DEF descendList
    <3>2. /\ d.nodes = {} => q = NULL
          /\ d.nodes # {} => q \in d.nodes /\ nr[q] >= NICR
      BY <1>1, <1>2, <1>3, <2>2
    <3> QED
      BY <1>1, <3>1, <3>2 DEF Cursor, WalkGood, CallType, GoodStart
  <2> QED
    BY <2>1, <2>2, Zenon
<1>4. ASSUME NEW q \in d.nodes, NICR >= nr[q]
      PROVE  GoodStart(d, nr, NICR, ascendList(d, nr, id, NICR, q))
  <2>1. CASE d.tail = q /\ NICR <= nr[q]
    BY <1>1, <2>1, Zenon DEF ascendList, Cursor, validInsertPosition, GoodStart
  <2>2. CASE ~(d.tail = q /\ NICR <= nr[q])
    <3>1. ascendList(d, nr, id, NICR, q) = Cursor("ascend", id, NICR, d.prevId[q], q)
      BY <2>2, Zenon DEF ascendList
    <3> QED
      BY <1>1, <1>4, <3>1 DEF Cursor, WalkGood, CallType, GoodStart
  <2> QED
    BY <2>1, <2>2, Zenon
<1>5. CASE validInsertPosition(d, nr, NICR, p, n)
  BY <1>5, Zenon DEF insertPosition, Cursor, GoodStart
<1>6. CASE ~validInsertPosition(d, nr, NICR, p, n)
  <2>1. at = findInsertPosition(d, nr, id, NICR, p, n)
    BY <1>6, Zenon DEF insertPosition
  <2>2. \/ at = descendList(d, nr, id, NICR, d.head)
        \/ p \in d.nodes /\ NICR <= nr[p] /\ at = descendList(d, nr, id, NICR, p)
        \/ n \in d.nodes /\ NICR >= nr[n] /\ at = ascendList(d, nr, id, NICR, n)
    BY <1>1, <2>1, Zenon DEF findInsertPosition, contains
  <2>3. GoodStart(d, nr, NICR, descendList(d, nr, id, NICR, d.head))
    BY <1>1, <1>3, Zenon
  <2>4. p \in d.nodes /\ NICR <= nr[p] => GoodStart(d, nr, NICR, descendList(d, nr, id, NICR, p))
    BY <1>3, Zenon
  <2>5. n \in d.nodes /\ NICR >= nr[n] => GoodStart(d, nr, NICR, ascendList(d, nr, id, NICR, n))
    BY <1>4, Zenon
  <2>6. GoodStart(d, nr, NICR, at)
    <3> HIDE DEF at
    <3> QED
      BY <2>2, <2>3, <2>4, <2>5, Zenon
  <2> QED
    BY <2>6, Zenon
<1> QED
  BY <1>5, <1>6, Zenon

-----------------------------------------------------------------------------
(* The inductive invariant *)

(* LinksAgree, EveryNodeReachable, SizeCountsNodes and Descending, joined  *)
(* by what they need of a walk in progress and of address(0)'s NICR.       *)
IInv ==
    /\ TypeOK
    /\ GoodList(data)
    /\ Descending
    /\ nicr[NULL] = Infinite
    /\ call.walk = "none" => call = Idle
    /\ call.walk # "none" => WalkGood(data, nicr, call)

(* The list starts empty, with no walk. *)
LEMMA InitIInv == Init => IInv
<1> SUFFICES ASSUME Init PROVE IInv
  BY Zenon
<1>1. /\ NULL \in Address /\ Infinite \in 1 .. Infinite /\ 0 \in 0 .. MaxNICR
      /\ Cardinality(Ids) \in Nat /\ Cardinality({}) = 0
  BY IdsAssumption, MaxNICRAssumption, FS_CardinalityType, FS_EmptySet DEF Address, Infinite
<1>2. data \in Data
  BY <1>1, Zenon DEF Init, Data
<1>3. TypeOK
  BY <1>1, <1>2, Zenon DEF Init, TypeOK, CallType, Idle
<1>4. LinksOf(data) /\ DescendingIn(data, nicr)
  BY <1>1, Zenon DEF Init, LinksOf, DescendingIn
<1>5. InOneChain(data)
  <2>1. [x \in {} |-> 1] \in [data.nodes -> 1 .. data.size]
    BY Zenon DEF Init
  <2>2. Numbers([x \in {} |-> 1], data)
    BY Zenon DEF Init, Numbers
  <2> QED
    BY <2>1, <2>2, Zenon DEF InOneChain
<1> QED
  BY <1>1, <1>2, <1>3, <1>4, <1>5, Zenon DEF Init, IInv, GoodList, Descending, Idle

(* An insertion into any well-formed list keeps the invariant, whether it  *)
(* is done at once or becomes a walk.                                      *)
LEMMA StartInsertIInv ==
    ASSUME NEW d, GoodList(d), NEW id \in Ids, ~contains(d, id),
           NEW NICR \in NICRs, NEW p \in Address, NEW n \in Address,
           nicr' \in [Address -> 1 .. Infinite], nicr'[NULL] = Infinite, nicr'[id] = NICR,
           ~ReordersNICRs => DescendingIn(d, nicr'),
           StartInsert(d, nicr', id, NICR, p, n)
    PROVE  IInv'
<1> DEFINE nr == nicr'
           at == insertPosition(d, nr, id, NICR, p, n)
<1>1. nr \in [Address -> Nat] /\ Infinite \in Nat
  BY MaxNICRAssumption DEF Infinite
<1>2. GoodStart(d, nr, NICR, at)
  BY <1>1, StartGood, Zenon
<1>3. CASE at.walk = "none"
  <2>1. /\ at.prevId \in Address /\ at.nextId \in Address
        /\ validInsertPosition(d, nr, NICR, at.prevId, at.nextId)
    BY <1>2, <1>3, Zenon DEF GoodStart
  <2>2. Gap(d, at.prevId, at.nextId)
    BY <2>1, ValidIsGap, Zenon
  <2>3. data' = link(d, id, at.prevId, at.nextId) /\ call' = Idle
    BY <1>3, Zenon DEF StartInsert
  <2>4. GoodList(data')
    BY <2>1, <2>2, <2>3, LinkGood, Zenon
  <2>5. /\ at.prevId # NULL => nr[at.prevId] >= nr[id]
        /\ at.nextId # NULL => nr[id] >= nr[at.nextId]
    BY <1>1, <2>1, Zenon DEF validInsertPosition, NICRs
  <2>6. ~ReordersNICRs => DescendingIn(data', nr)
    BY <1>1, <2>1, <2>2, <2>3, <2>5, LinkDescending, Zenon
  <2>7. call' \in CallType /\ call'.walk = "none"
    BY <2>3, MaxNICRAssumption DEF Idle, CallType, Address
  <2> QED
    BY <2>3, <2>4, <2>6, <2>7, Zenon DEF IInv, TypeOK, Descending, GoodList
<1>4. CASE at.walk # "none"
  <2>1. data' = d /\ call' = at /\ WalkGood(d, nr, at)
    BY <1>2, <1>4, Zenon DEF StartInsert, GoodStart
  <2>2. at \in CallType /\ call' \in CallType
    BY <2>1, Zenon DEF WalkGood
  <2> HIDE DEF at
  <2> QED
    BY <1>4, <2>1, <2>2, Zenon DEF IInv, TypeOK, Descending, GoodList
<1> QED
  BY <1>3, <1>4, Zenon

(* A walk moves on only to a neighbour on whose far side the node lies. *)
LEMMA DescendIInv == IInv /\ descend => IInv'
<1> SUFFICES ASSUME IInv, descend PROVE IInv'
  BY Zenon
<1> DEFINE p == call.prevId
           n == call.nextId
<1>1. /\ GoodList(data) /\ WalkGood(data, nicr, call) /\ call.walk = "descend"
      /\ call \in CallType /\ n = data.nextId[p] /\ p \in Address /\ n \in Address
      /\ nicr \in [Address -> Nat] /\ call.NICR \in Nat
  BY MaxNICRAssumption DEF IInv, descend, WalkGood, CallType, TypeOK, Infinite
<1>2. p # NULL /\ ~validInsertPosition(data, nicr, call.NICR, p, n)
  BY <1>1, Zenon DEF descend, WalkEnds
<1>3. p \in data.nodes /\ nicr[p] >= call.NICR
  BY <1>1, <1>2, Zenon DEF WalkGood
<1>4. n # NULL
  <2>1. n = NULL => p = data.tail
    BY <1>1, <1>3, Zenon DEF GoodList, LinksOf
  <2> QED
    BY <1>1, <1>2, <1>3, <2>1, Zenon DEF validInsertPosition
<1>5. n \in data.nodes /\ data.nextId[n] \in Address
  BY <1>1, <1>3, <1>4, Zenon DEF GoodList, LinksOf, Data, Address
<1>6. nicr[n] >= call.NICR
  BY <1>1, <1>2, <1>3, <1>4, <1>5 DEF validInsertPosition
<1>7. call' = [call EXCEPT !.prevId = n, !.nextId = data.nextId[n]]
  BY <1>1, Zenon DEF descend
<1>8. /\ call' \in CallType /\ call'.walk = "descend" /\ call'.prevId = n
      /\ call'.nextId = data.nextId[n] /\ call'.id = call.id /\ call'.NICR = call.NICR
  BY <1>1, <1>5, <1>7, Zenon DEF CallType
<1>9. UNCHANGED <<data, nicr>>
  BY Zenon DEF descend
<1>10. WalkGood(data, nicr, call)'
  BY <1>1, <1>5, <1>6, <1>8, <1>9, Zenon DEF WalkGood
<1> QED
  BY <1>8, <1>9, <1>10, Zenon DEF IInv, TypeOK, Descending

(* The same of a walk towards the head. *)
LEMMA AscendIInv == IInv /\ ascend => IInv'
<1> SUFFICES ASSUME IInv, ascend PROVE IInv'
  OBVIOUS
<1> DEFINE p == call.prevId
           n == call.nextId
<1>1. /\ GoodList(data) /\ WalkGood(data, nicr, call) /\ call.walk = "ascend"
      /\ call \in CallType /\ p = data.prevId[n] /\ p \in Address /\ n \in Address
      /\ n \in data.nodes /\ nicr[n] <= call.NICR
      /\ nicr \in [Address -> Nat] /\ call.NICR \in Nat
  BY MaxNICRAssumption DEF IInv, ascend, WalkGood, CallType, TypeOK, Infinite
<1>2. n # NULL /\ ~validInsertPosition(data, nicr, call.NICR, p, n)
  BY <1>1, Zenon DEF ascend, WalkEnds
<1>3. p # NULL
  <2>1. p = NULL => n = data.head
    BY <1>1, Zenon DEF GoodList, LinksOf
  <2> QED
    BY <1>1, <1>2, <2>1, Zenon DEF validInsertPosition
<1>4. p \in data.nodes /\ data.nextId[p] = n /\ data.prevId[p] \in Address
  BY <1>1, <1>3, Zenon DEF GoodList, LinksOf, Data, Address
<1>5. nicr[p] <= call.NICR
  BY <1>1, <1>2, <1>3, <1>4 DEF validInsertPosition
<1>6. call' = [call EXCEPT !.nextId = p, !.prevId = data.prevId[p]]
  BY <1>1, Zenon DEF ascend
<1>7. /\ call' \in CallType /\ call'.walk = "ascend" /\ call'.nextId = p
      /\ call'.prevId = data.prevId[p] /\ call'.id = call.id /\ call'.NICR = call.NICR
  BY <1>1, <1>4, <1>6, Zenon DEF CallType
<1>8. UNCHANGED <<data, nicr>>
  BY Zenon DEF ascend
<1>9. WalkGood(data, nicr, call)'
  BY <1>1, <1>4, <1>5, <1>7, <1>8, Zenon DEF WalkGood
<1> QED
  BY <1>7, <1>8, <1>9, Zenon DEF IInv, TypeOK, Descending

(* The end of a walk is a valid position; only an empty list is left by    *)
(* running out of nodes.                                                   *)
LEMMA WalkEndsAtPlace ==
    ASSUME IInv, finishWalk
    PROVE  validInsertPosition(data, nicr, call.NICR, call.prevId, call.nextId)
<1> DEFINE p == call.prevId
           n == call.nextId
<1>1. /\ GoodList(data) /\ WalkGood(data, nicr, call) /\ call.walk \in {"descend", "ascend"}
      /\ NULL \notin data.nodes
  BY IdsAssumption, Zenon DEF IInv, finishWalk, WalkGood, CallType, GoodList, Data
<1>2. CASE call.walk = "descend" /\ p = NULL
  <2>1. data.nodes = {} /\ n = data.nextId[p]
    BY <1>1, <1>2, Zenon DEF WalkGood
  <2>2. n = NULL
    BY <1>1, <1>2, <2>1, Zenon DEF GoodList, LinksOf, Data, Address
  <2>3. isEmpty(data)
    BY <1>1, <2>1, NodesFinite, Zenon
  <2> QED
    BY <1>2, <2>2, <2>3, Zenon DEF validInsertPosition
<1>3. ~(call.walk = "ascend" /\ n = NULL)
  BY <1>1, Zenon DEF WalkGood
<1> QED
  BY <1>1, <1>2, <1>3, Zenon DEF finishWalk, WalkEnds

(* A finished walk leaves a good list. *)
LEMMA FinishWalkIInv == IInv /\ finishWalk => IInv'
<1> SUFFICES ASSUME IInv, finishWalk PROVE IInv'
  OBVIOUS
<1> DEFINE p == call.prevId
           n == call.nextId
           id == call.id
<1>1. /\ GoodList(data) /\ WalkGood(data, nicr, call)
      /\ call \in CallType /\ p \in Address /\ n \in Address /\ id \in Ids
      /\ ~contains(data, id) /\ nicr[id] = call.NICR
      /\ nicr \in [Address -> Nat] /\ call.NICR \in Nat
  BY MaxNICRAssumption
  DEF IInv, finishWalk, WalkGood, CallType, TypeOK, Infinite, contains
<1>2. validInsertPosition(data, nicr, call.NICR, p, n)
  BY WalkEndsAtPlace, Zenon
<1>3. Gap(data, p, n)
  BY <1>1, <1>2, ValidIsGap, Zenon
<1>4. data' = link(data, id, p, n) /\ call' = Idle /\ nicr' = nicr
  BY Zenon DEF finishWalk
<1>5. GoodList(data')
  BY <1>1, <1>3, <1>4, LinkGood, Zenon
<1>6. /\ p # NULL => nicr[p] >= nicr[id]
      /\ n # NULL => nicr[id] >= nicr[n]
  BY <1>1, <1>2, Zenon DEF validInsertPosition
<1>7. ~ReordersNICRs => DescendingIn(data', nicr)
  BY <1>1, <1>3, <1>4, <1>6, LinkDescending, Zenon DEF IInv, Descending
<1>8. call' \in CallType /\ call'.walk = "none"
  BY <1>4, MaxNICRAssumption DEF Idle, CallType, Address
<1> QED
  BY <1>4, <1>5, <1>7, <1>8, Zenon DEF IInv, TypeOK, Descending, GoodList

(* Every transaction on the list and every step of a walk keeps the        *)
(* invariant.                                                              *)
LEMMA NextIInv == IInv /\ [Next]_vars => IInv'
<1> SUFFICES ASSUME IInv, [Next]_vars PROVE IInv'
  BY Zenon
<1>0. /\ GoodList(data) /\ TypeOK /\ Descending /\ nicr[NULL] = Infinite
      /\ nicr \in [Address -> 1 .. Infinite] /\ nicr \in [Address -> Nat]
      /\ NULL \in Address /\ NULL \notin Ids /\ Ids \subseteq Address
      /\ NICRs \subseteq 1 .. Infinite /\ Infinite \in 1 .. Infinite /\ Infinite \in Nat
  BY IdsAssumption, MaxNICRAssumption DEF IInv, TypeOK, Address, NICRs, Infinite
<1>1. ASSUME NEW id \in Ids, NEW NICR \in NICRs, NEW p \in Address, NEW n \in Address,
             insert(id, NICR, p, n)
      PROVE  IInv'
  <2>1. /\ nicr' \in [Address -> 1 .. Infinite] /\ nicr'[NULL] = Infinite
        /\ nicr'[id] = NICR /\ \A x \in Address \ {id} : nicr'[x] = nicr[x]
    BY <1>0, <1>1, Zenon DEF insert
  <2>2. ~contains(data, id) /\ StartInsert(data, nicr', id, NICR, p, n)
    BY <1>1, Zenon DEF insert
  <2>3. ~ReordersNICRs => DescendingIn(data, nicr')
    BY <1>0, <2>1, <2>2, Zenon DEF Descending, DescendingIn, contains, GoodList, LinksOf, Data
  <2> QED
    BY <1>0, <2>1, <2>2, <2>3, StartInsertIInv, Zenon
<1>2. ASSUME NEW id \in Ids, NEW NICR \in NICRs, NEW p \in Address, NEW n \in Address,
             reInsert(id, NICR, p, n)
      PROVE  IInv'
  <2> DEFINE d == unlink(data, id)
  <2>1. /\ nicr' \in [Address -> 1 .. Infinite] /\ nicr'[NULL] = Infinite
        /\ nicr'[id] = NICR /\ \A x \in Address \ {id} : nicr'[x] = nicr[x]
    BY <1>0, <1>2, Zenon DEF reInsert
  <2>2. contains(data, id) /\ StartInsert(d, nicr', id, NICR, p, n)
    BY <1>2, Zenon DEF reInsert
  <2>3. GoodList(d) /\ ~contains(d, id)
    <3>1. GoodList(d) /\ d.nodes = data.nodes \ {id}
      BY <1>0, <2>2, UnlinkGood, Zenon
    <3> QED
      BY <3>1, Zenon DEF contains
  <2>4. ~ReordersNICRs => DescendingIn(d, nicr)
    BY <1>0, <2>2, UnlinkDescending, Zenon DEF Descending
  <2> HIDE DEF d
  <2>5. ~ReordersNICRs => DescendingIn(d, nicr')
    BY <1>0, <2>1, <2>3, <2>4 DEF DescendingIn, contains, GoodList, LinksOf, Data
  <2> QED
    BY <2>1, <2>2, <2>3, <2>5, StartInsertIInv, Zenon
<1>3. ASSUME NEW id \in Ids, remove(id)
      PROVE  IInv'
  <2> DEFINE d == unlink(data, id)
  <2>1. /\ nicr' \in [Address -> 1 .. Infinite] /\ nicr'[NULL] = Infinite
        /\ \A x \in Address \ {id} : nicr'[x] = nicr[x]
    BY <1>0, <1>3, Zenon DEF remove
  <2>2. contains(data, id) /\ data' = d /\ call = Idle /\ call' = call
    BY <1>3, Zenon DEF remove
  <2>3. GoodList(d) /\ ~contains(d, id)
    <3>1. GoodList(d) /\ d.nodes = data.nodes \ {id}
      BY <1>0, <2>2, UnlinkGood, Zenon
    <3> QED
      BY <3>1, Zenon DEF contains
  <2>4. ~ReordersNICRs => DescendingIn(d, nicr)
    BY <1>0, <2>2, UnlinkDescending, Zenon DEF Descending
  <2> HIDE DEF d
  <2>5. ~ReordersNICRs => DescendingIn(d, nicr')
    BY <1>0, <2>1, <2>3, <2>4 DEF DescendingIn, contains, GoodList, LinksOf, Data
  <2> QED
    BY <1>0, <2>1, <2>2, <2>3, <2>5, Zenon DEF IInv, TypeOK, Descending, GoodList, Idle
<1>4. ASSUME NEW m \in 1 .. Cardinality(Ids), setParams(m)
      PROVE  IInv'
  <2>1. /\ data' = [data EXCEPT !.maxSize = m] /\ UNCHANGED <<nicr, call>>
        /\ call = Idle /\ m \in Nat
    BY <1>4 DEF setParams
  <2>2. /\ data' \in Data /\ data'.head = data.head /\ data'.tail = data.tail
        /\ data'.size = data.size /\ data'.nodes = data.nodes
        /\ data'.nextId = data.nextId /\ data'.prevId = data.prevId
    BY <1>0, <2>1, Zenon DEF TypeOK, Data
  <2>3. GoodList(data')
    <3>1. LinksOf(data')
      BY <1>0, <2>2 DEF GoodList, LinksOf
    <3>2. InOneChain(data')
      BY <1>0, <2>2 DEF GoodList, InOneChain, Numbers
    <3> QED
      BY <1>0, <2>2, <3>1, <3>2, Zenon DEF GoodList
  <2>4. Descending'
    BY <1>0, <2>1, <2>2, Zenon DEF Descending, DescendingIn
  <2> QED
    BY <1>0, <2>1, <2>2, <2>3, <2>4, Zenon DEF IInv, TypeOK, Idle
<1>5. ASSUME redistribute
      PROVE  IInv'
  <2>1. PICK changed \in [data.nodes -> NICRs] :
          /\ nicr' = [id \in Address |-> IF id \in data.nodes THEN changed[id] ELSE nicr[id]]
          /\ \/ ReordersNICRs
             \/ \A a, b \in data.nodes : nicr[a] >= nicr[b] => changed[a] >= changed[b]
    BY <1>5, Zenon DEF redistribute
  <2>2. data' = data /\ call' = call /\ call = Idle
    BY <1>5, Zenon DEF redistribute
  <2>3. NULL \notin data.nodes /\ data.nodes \subseteq Address
    BY <1>0, Zenon DEF GoodList, Data
  <2>4. nicr' \in [Address -> 1 .. Infinite] /\ nicr'[NULL] = Infinite
    BY <1>0, <2>1, <2>3, Zenon
  <2>5. Descending'
    BY <1>0, <2>1, <2>2, <2>3, Zenon DEF Descending, DescendingIn, GoodList, LinksOf
  <2> QED
    BY <1>0, <2>2, <2>4, <2>5, Zenon DEF IInv, TypeOK, Idle
<1>6. CASE UNCHANGED vars
  BY <1>6, Zenon DEF vars, IInv, TypeOK, Descending
<1> QED
  BY <1>1, <1>2, <1>3, <1>4, <1>5, <1>6, DescendIInv, AscendIInv, FinishWalkIInv, Zenon DEF Next

(* The list's storage, the NICRs and the walk's locals keep their types    *)
(* through every insert, reInsert, remove and setParams.                   *)
THEOREM TypeCorrect == Spec => []TypeOK
<1>1. IInv => TypeOK
  BY Zenon DEF IInv
<1> QED
  BY <1>1, InitIInv, NextIInv, PTL DEF Spec

(* For any borrowers, hints and NICRs, _insert and _remove leave a list    *)
(* whose links agree, whose nodes form one chain from head to tail, and    *)
(* whose size counts them.                                                 *)
THEOREM WellLinked == Spec => [](LinksAgree /\ EveryNodeReachable /\ SizeCountsNodes)
<1>1. IInv => LinksAgree /\ EveryNodeReachable /\ SizeCountsNodes
  BY Zenon DEF IInv, GoodList, LinksAgree, EveryNodeReachable, SizeCountsNodes
<1> QED
  BY <1>1, InitIInv, NextIInv, PTL DEF Spec

(* While redistributions keep the NICRs in order, the list is in           *)
(* descending order of NICR whatever the hints were.                       *)
THEOREM StaysDescending == Spec => []Descending
<1>1. IInv => Descending
  BY Zenon DEF IInv
<1> QED
  BY <1>1, InitIInv, NextIInv, PTL DEF Spec

(* A walk for an insert position never runs off the list, even when the    *)
(* NICRs are out of order.                                                 *)
THEOREM WalksStayInList == Spec => []WalkStaysInList
<1>1. IInv => WalkStaysInList
  <2> SUFFICES ASSUME IInv PROVE WalkStaysInList
    BY Zenon
  <2>1. GoodList(data) /\ (call.walk # "none" => WalkGood(data, nicr, call))
    BY Zenon DEF IInv
  <2> QED
    BY <2>1, NodesFinite, Zenon DEF WalkStaysInList, WalkGood, contains
<1> QED
  BY <1>1, InitIInv, NextIInv, PTL DEF Spec
-----------------------------------------------------------------------------
(* The sequence of a list *)

(* s follows the links of d from its head. *)
Follows(s, d) ==
    \A k \in 1 .. d.size : s[k] = IF k = 1 THEN d.head ELSE d.nextId[s[k - 1]]

(* s holds every node of d once, from head to tail. *)
Traverses(s, d) ==
    /\ s \in [1 .. d.size -> d.nodes]
    /\ Follows(s, d)
    /\ \A i, j \in 1 .. d.size : s[i] = s[j] => i = j
    /\ \A a \in d.nodes : \E k \in 1 .. d.size : s[k] = a
    /\ \A k \in 1 .. d.size - 1 : d.nextId[s[k]] = s[k + 1]
    /\ d.size > 0 => s[1] = d.head /\ s[d.size] = d.tail

(* Among some numbers one is smallest. *)
LEMMA SmallestNumber ==
    ASSUME NEW T, T \subseteq Nat, T # {}
    PROVE  \E m \in T : \A k \in T : m <= k
<1>1. PICK m \in T : \A k \in T : ~(<<k, m>> \in OpToRel(<, Nat))
  BY NatLessThanWellFounded, WFMin, Zenon
<1>2. \A k \in T : ~(k < m)
  BY <1>1, Zenon DEF OpToRel
<1> QED
  BY <1>2

(* There is one way to follow the links of a list. *)
LEMMA FromHeadFollows ==
    ASSUME NEW d, d.size \in Nat, NEW S, NEW s \in [1 .. d.size -> S], Follows(s, d)
    PROVE  FromHead(d) = s
<1> DEFINE Rec(f) == f = [k \in 1 .. d.size |-> IF k = 1 THEN d.head ELSE d.nextId[f[k - 1]]]
           F == FromHead(d)
           T == {k \in 1 .. d.size : F[k] # s[k]}
<1>1. Rec(s)
  BY Zenon DEF Follows
<1>2. F = CHOOSE f : Rec(f)
  BY Zenon DEF FromHead
<1>3. Rec(F)
  <2> HIDE DEF Rec, F
  <2> QED
    BY <1>1, <1>2, Zenon
<1> HIDE DEF F
<1>4. T = {}
  <2> SUFFICES ASSUME T # {} PROVE FALSE
    BY Zenon
  <2>1. T \subseteq Nat
    OBVIOUS
  <2> HIDE DEF T
  <2>2. PICK m \in T : \A k \in T : m <= k
    BY <2>1, SmallestNumber, Zenon
  <2> USE DEF T
  <2>3. m \in 1 .. d.size /\ F[m] # s[m]
    BY <2>2, Zenon
  <2>4. m # 1
    BY <1>1, <1>3, <2>3, Zenon
  <2>5. m - 1 \in 1 .. d.size /\ m - 1 \notin T
    BY <2>2, <2>3, <2>4
  <2>6. F[m - 1] = s[m - 1]
    BY <2>5, Zenon
  <2> QED
    BY <1>1, <1>3, <2>3, <2>4, <2>6
<1>5. F = [k \in 1 .. d.size |-> F[k]] /\ s = [k \in 1 .. d.size |-> s[k]]
  BY <1>3, Zenon
<1>6. \A k \in 1 .. d.size : F[k] = s[k]
  BY <1>4, Zenon
<1> QED
  BY <1>5, <1>6, Zenon DEF F

(* Following the links of a good list meets its nodes, each once. *)
LEMMA ListTraversed ==
    ASSUME NEW d, GoodList(d)
    PROVE  Traverses(FromHead(d), d)
<1>1. /\ d.size \in Nat /\ d.nodes \subseteq Address /\ NULL \notin d.nodes
      /\ d.size = 0 <=> d.nodes = {}
  BY NodesFinite, IdsAssumption, Zenon DEF GoodList, Data, Address, isEmpty
<1>2. PICK pos \in [d.nodes -> 1 .. d.size] : Numbers(pos, d)
  BY Zenon DEF GoodList, InOneChain
<1>3. /\ d.head \in d.nodes \cup {NULL} /\ d.tail \in d.nodes \cup {NULL}
      /\ d.head = NULL <=> d.nodes = {}
      /\ d.tail = NULL <=> d.nodes = {}
      /\ \A a \in d.nodes : d.nextId[a] = NULL <=> a = d.tail
      /\ \A a \in d.nodes : d.nextId[a] # NULL => d.nextId[a] \in d.nodes
  BY Zenon DEF GoodList, LinksOf
<1>4. \A k \in 1 .. d.size : \E a \in d.nodes : pos[a] = k
  <2> DEFINE T == {k \in 1 .. d.size : \A a \in d.nodes : pos[a] # k}
  <2> SUFFICES T = {}
    BY Zenon
  <2> SUFFICES ASSUME T # {} PROVE FALSE
    BY Zenon
  <2>1. T \subseteq Nat
    OBVIOUS
  <2> HIDE DEF T
  <2>2. PICK m \in T : \A k \in T : m <= k
    BY <2>1, SmallestNumber, Zenon
  <2> USE DEF T
  <2>3. m \in 1 .. d.size /\ d.size > 0
    BY <1>1, <2>2
  <2>4. m # 1
    BY <1>1, <1>2, <1>3, <2>2, <2>3 DEF Numbers
  <2>5. m - 1 \in 1 .. d.size /\ m - 1 \notin T
    BY <1>1, <2>2, <2>3, <2>4
  <2>6. PICK a \in d.nodes : pos[a] = m - 1
    BY <2>5, Zenon
  <2>7. d.nextId[a] # NULL /\ d.nextId[a] \in d.nodes
    BY <1>1, <1>2, <1>3, <2>3, <2>6 DEF Numbers
  <2>8. pos[d.nextId[a]] = m
    BY <1>1, <1>2, <2>3, <2>6, <2>7 DEF Numbers
  <2> QED
    BY <2>2, <2>7, <2>8, Zenon
<1> DEFINE s == [k \in 1 .. d.size |-> CHOOSE a \in d.nodes : pos[a] = k]
<1>5. s \in [1 .. d.size -> d.nodes] /\ \A k \in 1 .. d.size : pos[s[k]] = k
  BY <1>4, Zenon
<1> HIDE DEF s
<1>6. \A a \in d.nodes, k \in 1 .. d.size : pos[a] = k => s[k] = a
  BY <1>2, <1>5, Zenon DEF Numbers
<1>7. \A k \in 1 .. d.size - 1 : d.nextId[s[k]] = s[k + 1]
  <2> SUFFICES ASSUME NEW k \in 1 .. d.size - 1 PROVE d.nextId[s[k]] = s[k + 1]
    BY Zenon
  <2>1. k \in 1 .. d.size /\ k + 1 \in 1 .. d.size /\ k # d.size
    BY <1>1
  <2>2. s[k] \in d.nodes /\ pos[s[k]] = k
    BY <1>5, <2>1, Zenon
  <2>3. d.nextId[s[k]] # NULL /\ d.nextId[s[k]] \in d.nodes
    BY <1>2, <1>3, <2>1, <2>2, Zenon DEF Numbers
  <2>4. pos[d.nextId[s[k]]] = k + 1
    BY <1>2, <2>2, <2>3, Zenon DEF Numbers
  <2> QED
    BY <1>6, <2>1, <2>3, <2>4, Zenon
<1>8. d.size > 0 => s[1] = d.head /\ s[d.size] = d.tail
  <2> SUFFICES ASSUME d.size > 0 PROVE s[1] = d.head /\ s[d.size] = d.tail
    BY Zenon
  <2>1. d.head \in d.nodes /\ d.tail \in d.nodes /\ 1 \in 1 .. d.size /\ d.size \in 1 .. d.size
    BY <1>1, <1>3
  <2>2. pos[d.head] = 1 /\ pos[d.tail] = d.size
    BY <1>2, <2>1, Zenon DEF Numbers
  <2> QED
    BY <1>6, <2>1, <2>2, Zenon
<1>9. Follows(s, d)
  <2> SUFFICES ASSUME NEW k \in 1 .. d.size
               PROVE  s[k] = IF k = 1 THEN d.head ELSE d.nextId[s[k - 1]]
    BY Zenon DEF Follows
  <2>1. CASE k = 1
    BY <1>1, <1>8, <2>1
  <2>2. CASE k # 1
    <3>1. k - 1 \in 1 .. d.size - 1 /\ (k - 1) + 1 = k
      BY <1>1, <2>2
    <3> QED
      BY <1>7, <2>2, <3>1, Zenon
  <2> QED
    BY <2>1, <2>2, Zenon
<1>10. FromHead(d) = s
  BY <1>1, <1>5, <1>9, FromHeadFollows, Zenon
<1>11. \A i, j \in 1 .. d.size : s[i] = s[j] => i = j
  BY <1>5, Zenon
<1>12. \A a \in d.nodes : \E k \in 1 .. d.size : s[k] = a
  BY <1>2, <1>6, Zenon
<1> QED
  BY <1>5, <1>7, <1>8, <1>9, <1>10, <1>11, <1>12, Zenon DEF Traverses

(* What a sequence holds after an insertion. *)
LEMMA InsertedAfterAt ==
    ASSUME NEW S, NEW s \in Seq(S), NEW i \in 0 .. Len(s), NEW id \in S
    PROVE  Ordered!insertedAfter(s, i, id) =
             [k \in 1 .. Len(s) + 1 |->
                IF k <= i THEN s[k] ELSE IF k = i + 1 THEN id ELSE s[k - 1]]
<1> DEFINE front == SubSeq(s, 1, i)
           back == SubSeq(s, i + 1, Len(s))
           one == <<id>>
           half == front \o one
           t == half \o back
<1>1. Len(s) \in Nat /\ \A k \in 1 .. Len(s) : s[k] \in S
  BY LenProperties, ElementOfSeq, Zenon
<1>2. /\ front \in Seq(S) /\ Len(front) = i /\ \A k \in 1 .. i : front[k] = s[k]
  BY <1>1, SubSeqProperties
<1>3. /\ back \in Seq(S) /\ Len(back) = Len(s) - i
      /\ \A k \in 1 .. Len(s) - i : back[k] = s[i + k]
  BY <1>1, SubSeqProperties
<1>4. one \in Seq(S) /\ Len(one) = 1 /\ one[1] = id
  OBVIOUS
<1>5. t = Ordered!insertedAfter(s, i, id)
  BY Zenon DEF Ordered!insertedAfter
<1> HIDE DEF front, back, one, half, t
<1>6. /\ half \in Seq(S) /\ Len(half) = i + 1
      /\ \A k \in 1 .. i + 1 : half[k] = IF k <= i THEN s[k] ELSE id
  <2>1. /\ half \in Seq(S) /\ Len(half) = Len(front) + Len(one)
        /\ \A k \in 1 .. Len(front) + Len(one) :
              half[k] = IF k <= Len(front) THEN front[k] ELSE one[k - Len(front)]
    <3>1. front \in Seq(S) /\ one \in Seq(S)
      BY <1>2, <1>4, Zenon
    <3> QED
      BY ONLY <3>1, ConcatProperties, Zenon DEF half
  <2> QED
    BY <1>1, <1>2, <1>4, <2>1
<1>7. /\ t \in Seq(S) /\ Len(t) = Len(s) + 1
      /\ \A k \in 1 .. Len(s) + 1 : t[k] = IF k <= i + 1 THEN half[k] ELSE back[k - (i + 1)]
  <2>1. /\ t \in Seq(S) /\ Len(t) = Len(half) + Len(back)
        /\ \A k \in 1 .. Len(half) + Len(back) :
              t[k] = IF k <= Len(half) THEN half[k] ELSE back[k - Len(half)]
    <3>1. half \in Seq(S) /\ back \in Seq(S)
      BY <1>3, <1>6, Zenon
    <3> QED
      BY ONLY <3>1, ConcatProperties, Zenon DEF t
  <2>2. Len(half) + Len(back) = Len(s) + 1
    BY <1>1, <1>3, <1>6
  <2> QED
    BY <1>6, <2>1, <2>2, Zenon
<1>8. ASSUME NEW k \in 1 .. Len(s) + 1
      PROVE  t[k] = IF k <= i THEN s[k] ELSE IF k = i + 1 THEN id ELSE s[k - 1]
  <2>1. CASE k <= i + 1
    BY <1>1, <1>6, <1>7, <2>1
  <2>2. CASE ~(k <= i + 1)
    <3>1. k - (i + 1) \in 1 .. Len(s) - i /\ i + (k - (i + 1)) = k - 1
      BY <1>1, <2>2
    <3>2. t[k] = back[k - (i + 1)]
      BY <1>7, <2>2, Zenon
    <3>3. back[k - (i + 1)] = s[k - 1]
      BY <1>3, <3>1, Zenon
    <3>4. ~(k <= i) /\ k # i + 1
      BY <1>1, <2>2
    <3> QED
      BY ONLY <3>2, <3>3, <3>4, Zenon
  <2> QED
    BY <2>1, <2>2, Zenon
<1>9. t = [k \in 1 .. Len(s) + 1 |-> t[k]]
  BY <1>7, LenProperties, Zenon
<1> QED
  BY <1>5, <1>8, <1>9, Zenon

(* And after an entry is taken out. *)
LEMMA WithoutEntryAt ==
    ASSUME NEW S, NEW s \in Seq(S), NEW i \in 1 .. Len(s)
    PROVE  Ordered!withoutEntry(s, i) =
             [k \in 1 .. Len(s) - 1 |-> IF k < i THEN s[k] ELSE s[k + 1]]
<1> DEFINE front == SubSeq(s, 1, i - 1)
           back == SubSeq(s, i + 1, Len(s))
           t == front \o back
<1>1. Len(s) \in Nat /\ \A k \in 1 .. Len(s) : s[k] \in S
  BY LenProperties, ElementOfSeq, Zenon
<1>2. /\ front \in Seq(S) /\ Len(front) = i - 1 /\ \A k \in 1 .. i - 1 : front[k] = s[k]
  BY <1>1, SubSeqProperties
<1>3. /\ back \in Seq(S) /\ Len(back) = Len(s) - i
      /\ \A k \in 1 .. Len(s) - i : back[k] = s[i + k]
  BY <1>1, SubSeqProperties
<1>4. t = Ordered!withoutEntry(s, i)
  BY Zenon DEF Ordered!withoutEntry
<1> HIDE DEF front, back, t
<1>5. /\ t \in Seq(S) /\ Len(t) = Len(s) - 1
      /\ \A k \in 1 .. Len(s) - 1 : t[k] = IF k <= i - 1 THEN front[k] ELSE back[k - (i - 1)]
  <2>1. /\ t \in Seq(S) /\ Len(t) = Len(front) + Len(back)
        /\ \A k \in 1 .. Len(front) + Len(back) :
              t[k] = IF k <= Len(front) THEN front[k] ELSE back[k - Len(front)]
    <3>1. front \in Seq(S) /\ back \in Seq(S)
      BY <1>2, <1>3, Zenon
    <3> QED
      BY ONLY <3>1, ConcatProperties, Zenon DEF t
  <2>2. Len(front) + Len(back) = Len(s) - 1
    BY <1>1, <1>2, <1>3
  <2> QED
    BY <1>2, <2>1, <2>2, Zenon
<1>6. ASSUME NEW k \in 1 .. Len(s) - 1
      PROVE  t[k] = IF k < i THEN s[k] ELSE s[k + 1]
  <2>1. CASE k < i
    BY <1>1, <1>2, <1>5, <2>1
  <2>2. CASE ~(k < i)
    <3>1. ~(k <= i - 1) /\ k - (i - 1) \in 1 .. Len(s) - i /\ i + (k - (i - 1)) = k + 1
      BY <1>1, <2>2
    <3>2. t[k] = back[k - (i - 1)]
      BY <1>5, <3>1, Zenon
    <3>3. back[k - (i - 1)] = s[k + 1]
      BY <1>3, <3>1, Zenon
    <3> QED
      BY ONLY <2>2, <3>2, <3>3, Zenon
  <2> QED
    BY <2>1, <2>2, Zenon
<1>7. t = [k \in 1 .. Len(s) - 1 |-> t[k]]
  BY <1>5, LenProperties, Zenon
<1> QED
  BY <1>4, <1>6, <1>7, Zenon

(* A good list read as a sequence. *)
LEMMA SequenceOfList ==
    ASSUME NEW d, GoodList(d)
    PROVE  /\ FromHead(d) \in Seq(Ids) /\ Len(FromHead(d)) = d.size /\ d.size \in Nat
           /\ Ordered!Entries(FromHead(d)) = d.nodes
           /\ Traverses(FromHead(d), d)
<1> DEFINE s == FromHead(d)
<1>1. Traverses(s, d)
  BY ListTraversed, Zenon
<1>2. d.size \in Nat /\ d.nodes \subseteq Ids
  BY Zenon DEF GoodList, Data
<1> HIDE DEF s
<1>3. s \in Seq(Ids) /\ Len(s) = d.size
  BY <1>1, <1>2 DEF Traverses
<1>4. Ordered!Entries(s) = d.nodes
  BY <1>1, <1>3 DEF Traverses, Ordered!Entries
<1> QED
  BY <1>1, <1>2, <1>3, <1>4, Zenon DEF s

(* Linking a node is an insertion into the sequence, behind its            *)
(* predecessor or in front.                                                *)
LEMMA LinkInserts ==
    ASSUME NEW d, GoodList(d), NEW id \in Ids, ~contains(d, id),
           NEW p \in Address, NEW n \in Address, Gap(d, p, n)
    PROVE  \E i \in 0 .. d.size :
              FromHead(link(d, id, p, n)) = Ordered!insertedAfter(FromHead(d), i, id)
<1> DEFINE s == FromHead(d)
           e == link(d, id, p, n)
<1>1. /\ s \in Seq(Ids) /\ Len(s) = d.size /\ d.size \in Nat /\ Traverses(s, d)
  BY SequenceOfList, Zenon
<1>2. /\ e.nodes = d.nodes \cup {id}
      /\ e.nextId = [x \in Address |->
                 IF x = id THEN n ELSE IF x = p /\ p # NULL THEN id ELSE d.nextId[x]]
  BY LinkGood
<1>3. /\ e.head = IF p = NULL THEN id ELSE d.head
      /\ e.size = d.size + 1
  BY Zenon DEF link
<1>4. /\ p # NULL => p \in d.nodes /\ d.nextId[p] = n
      /\ n # NULL => n \in d.nodes /\ d.prevId[n] = p
      /\ p = NULL => n = d.head
      /\ n = NULL => p = d.tail
  BY GapNeighbours
<1>5. /\ d.nodes \subseteq Ids /\ d.nodes \subseteq Address /\ NULL \notin d.nodes
      /\ id \in Address /\ id # NULL /\ id \notin d.nodes
  BY IdsAssumption, Zenon DEF GoodList, Data, Address, contains
<1> HIDE DEF s, e
<1>6. \E i \in 0 .. d.size : IF p = NULL THEN i = 0 ELSE i > 0 /\ s[i] = p
  BY <1>1, <1>4 DEF Traverses
<1>7. PICK i \in 0 .. d.size : IF p = NULL THEN i = 0 ELSE i > 0 /\ s[i] = p
  BY <1>6, Zenon
<1> DEFINE t == [k \in 1 .. d.size + 1 |->
                   IF k <= i THEN s[k] ELSE IF k = i + 1 THEN id ELSE s[k - 1]]
<1>8. Ordered!insertedAfter(s, i, id) = t
  BY <1>1, InsertedAfterAt
<1>9. t \in [1 .. e.size -> Ids]
  BY <1>1, <1>3, <1>5 DEF Traverses
<1>10. i < d.size => n = s[i + 1]
  <2> SUFFICES ASSUME i < d.size PROVE n = s[i + 1]
    BY Zenon
  <2>1. CASE i = 0
    BY <1>1, <1>4, <1>7, <2>1 DEF Traverses
  <2>2. CASE i > 0
    <3>1. i \in 1 .. d.size - 1 /\ s[i] = p /\ p # NULL
      BY <1>1, <1>7, <2>2
    <3>2. d.nextId[s[i]] = s[i + 1]
      BY <1>1, <3>1, Zenon DEF Traverses
    <3> QED
      BY <1>4, <3>1, <3>2, Zenon
  <2> QED
    BY <1>1, <2>1, <2>2
<1>11. Follows(t, e)
  <2> SUFFICES ASSUME NEW k \in 1 .. d.size + 1
               PROVE  t[k] = IF k = 1 THEN e.head ELSE e.nextId[t[k - 1]]
    BY <1>3, Zenon DEF Follows
  <2>1. CASE k = 1
    <3>1. p # NULL => s[1] = d.head /\ i >= 1
      BY <1>1, <1>7 DEF Traverses
    <3> QED
      BY <1>1, <1>3, <1>7, <2>1, <3>1
  <2>2. CASE k # 1 /\ k <= i
    <3>1. k \in 1 .. d.size /\ k - 1 \in 1 .. d.size /\ t[k] = s[k] /\ t[k - 1] = s[k - 1]
      BY <1>1, <2>2
    <3>2. /\ s[k - 1] \in d.nodes /\ s[k - 1] # s[i] /\ i > 0 /\ s[k] = d.nextId[s[k - 1]]
      <4>1. i \in 1 .. d.size /\ k - 1 # i
        BY <1>1, <2>2
      <4>2. s[k - 1] \in d.nodes /\ s[k - 1] # s[i]
        BY <1>1, <3>1, <4>1, Zenon DEF Traverses
      <4>3. s[k] = d.nextId[s[k - 1]]
        BY <1>1, <2>2, <3>1, Zenon DEF Traverses, Follows
      <4> QED
        BY <4>1, <4>2, <4>3
    <3>3. p = s[i]
      BY <1>7, <3>2
    <3>4. e.nextId[s[k - 1]] = d.nextId[s[k - 1]]
      BY <1>2, <1>5, <3>2, <3>3, Zenon
    <3> QED
      BY <2>2, <3>1, <3>2, <3>4, Zenon
  <2>3. CASE k # 1 /\ k = i + 1
    <3>1. t[k] = id /\ t[k - 1] = s[i] /\ i > 0 /\ s[i] = p /\ p # NULL
      BY <1>1, <1>7, <2>3
    <3>2. e.nextId[p] = id
      BY <1>2, <1>4, <1>5, <3>1, Zenon
    <3> QED
      BY <2>3, <3>1, <3>2, Zenon
  <2>4. CASE k = i + 2
    <3>1. t[k] = s[i + 1] /\ t[k - 1] = id /\ i < d.size
      BY <1>1, <2>4
    <3>2. e.nextId[id] = n
      BY <1>2, <1>5, Zenon
    <3> QED
      BY <1>1, <1>10, <2>4, <3>1, <3>2
  <2>5. CASE k > i + 2
    <3>1. /\ k - 1 \in 1 .. d.size /\ k - 2 \in 1 .. d.size /\ i < k - 2
          /\ t[k] = s[k - 1] /\ t[k - 1] = s[k - 2]
      BY <1>1, <2>5
    <3>2. s[k - 2] \in d.nodes /\ s[k - 1] = d.nextId[s[k - 2]]
      BY <1>1, <2>5, <3>1 DEF Traverses, Follows
    <3>3. i > 0 => s[k - 2] # s[i]
      BY <1>1, <3>1 DEF Traverses
    <3>4. p # NULL => s[k - 2] # p
      BY <1>7, <3>3, Zenon
    <3>5. e.nextId[s[k - 2]] = d.nextId[s[k - 2]]
      BY <1>2, <1>5, <3>2, <3>4, Zenon
    <3> QED
      BY <2>5, <3>1, <3>2, <3>5
  <2> QED
    BY <1>1, <2>1, <2>2, <2>3, <2>4, <2>5
<1>12. FromHead(e) = t
  <2> HIDE DEF t
  <2>1. e.size \in Nat
    BY <1>1, <1>3
  <2> QED
    BY ONLY <2>1, <1>9, <1>11, FromHeadFollows, Zenon
<1> QED
  BY <1>8, <1>12, Zenon DEF e, s

(* Unlinking a node takes its entry out of the sequence. *)
LEMMA UnlinkRemoves ==
    ASSUME NEW d, GoodList(d), NEW id \in Ids, contains(d, id)
    PROVE  \E i \in 1 .. d.size :
              /\ FromHead(d)[i] = id
              /\ FromHead(unlink(d, id)) = Ordered!withoutEntry(FromHead(d), i)
<1> DEFINE s == FromHead(d)
           e == unlink(d, id)
           p == d.prevId[id]
           n == d.nextId[id]
<1>1. /\ s \in Seq(Ids) /\ Len(s) = d.size /\ d.size \in Nat /\ Traverses(s, d)
  BY SequenceOfList, Zenon
<1>2. /\ e.nextId = [x \in Address |->
            IF x = id THEN NULL ELSE IF x = p /\ x # NULL THEN n ELSE d.nextId[x]]
      /\ e.head = IF p = NULL THEN n ELSE d.head
      /\ e.size = d.size - 1
  BY UnlinkGood, Zenon
<1>3. /\ d.nodes \subseteq Ids /\ d.nodes \subseteq Address /\ NULL \notin d.nodes
      /\ id \in d.nodes
  BY IdsAssumption, Zenon DEF GoodList, Data, Address, contains
<1>4. /\ p = NULL <=> id = d.head
      /\ \A a \in d.nodes : d.nextId[a] = id => d.prevId[id] = a
  BY <1>3, Zenon DEF GoodList, LinksOf
<1> HIDE DEF s, e
<1>5. PICK i \in 1 .. d.size : s[i] = id
  BY <1>1, <1>3, Zenon DEF Traverses
<1>6. i < d.size => n = s[i + 1]
  BY <1>1, <1>5 DEF Traverses
<1>7. i > 1 => s[i - 1] \in d.nodes /\ p = s[i - 1]
  <2> SUFFICES ASSUME i > 1 PROVE s[i - 1] \in d.nodes /\ p = s[i - 1]
    BY Zenon
  <2>1. i - 1 \in 1 .. d.size /\ i # 1
    BY <1>1
  <2>2. s[i - 1] \in d.nodes /\ d.nextId[s[i - 1]] = s[i]
    BY <1>1, <2>1, Zenon DEF Traverses, Follows
  <2> QED
    BY <1>4, <1>5, <2>2, Zenon
<1>8. i = 1 <=> p = NULL
  <2>1. 1 \in 1 .. d.size /\ s[1] = d.head
    BY <1>1 DEF Traverses
  <2>2. i = 1 <=> s[i] = s[1]
    BY <1>1, <2>1, Zenon DEF Traverses
  <2> QED
    BY <1>4, <1>5, <2>1, <2>2, Zenon
<1> HIDE DEF p, n
<1> DEFINE t == [k \in 1 .. d.size - 1 |-> IF k < i THEN s[k] ELSE s[k + 1]]
<1>9. Ordered!withoutEntry(s, i) = t
  BY <1>1, WithoutEntryAt, Zenon
<1>10. t \in [1 .. e.size -> Ids]
  BY <1>1, <1>2, <1>3 DEF Traverses
<1>11. ASSUME NEW k \in 1 .. d.size, k # i, i > 1 => k # i - 1
       PROVE  s[k] \in d.nodes /\ e.nextId[s[k]] = d.nextId[s[k]]
  <2>1. s[k] \in d.nodes /\ s[k] # s[i]
    BY <1>1, <1>11, Zenon DEF Traverses
  <2>2. i > 1 => s[k] # s[i - 1]
    <3>1. i > 1 => i - 1 \in 1 .. d.size
      BY <1>1
    <3> QED
      BY <1>1, <1>11, <3>1, Zenon DEF Traverses
  <2>3. ~(s[k] = p /\ s[k] # NULL)
    BY <1>1, <1>7, <1>8, <2>2
  <2> QED
    BY <1>2, <1>3, <1>5, <2>1, <2>3, Zenon
<1>12. Follows(t, e)
  <2> SUFFICES ASSUME NEW k \in 1 .. d.size - 1
               PROVE  t[k] = IF k = 1 THEN e.head ELSE e.nextId[t[k - 1]]
    BY <1>2, Zenon DEF Follows
  <2>1. CASE k = 1
    <3>1. CASE i = 1
      BY <1>1, <1>2, <1>6, <1>8, <2>1, <3>1
    <3>2. CASE i # 1
      <4>1. t[k] = s[1] /\ s[1] = d.head
        BY <1>1, <2>1, <3>2 DEF Traverses
      <4> QED
        BY <1>2, <1>8, <2>1, <3>2, <4>1, Zenon
    <3> QED
      BY <3>1, <3>2, Zenon
  <2>2. CASE k # 1 /\ k < i
    <3>1. /\ k - 1 \in 1 .. d.size /\ k \in 1 .. d.size /\ k - 1 # i /\ k - 1 # i - 1
          /\ t[k] = s[k] /\ t[k - 1] = s[k - 1]
      BY <1>1, <2>2
    <3>2. s[k] = d.nextId[s[k - 1]]
      BY <1>1, <2>2, <3>1, Zenon DEF Traverses, Follows
    <3>3. e.nextId[s[k - 1]] = d.nextId[s[k - 1]]
      BY <1>11, <3>1, Zenon
    <3> QED
      BY ONLY <2>2, <3>1, <3>2, <3>3, Zenon
  <2>3. CASE k # 1 /\ k = i
    <3>1. t[k] = s[i + 1] /\ t[k - 1] = s[i - 1] /\ i < d.size /\ i > 1
      BY <1>1, <2>3
    <3>2. p = s[i - 1] /\ n = s[i + 1] /\ p \in d.nodes /\ p # NULL
      BY <1>3, <1>6, <1>7, <3>1, Zenon
    <3>3. p # id
      <4>1. i - 1 \in 1 .. d.size /\ i - 1 # i
        BY <1>1, <3>1
      <4> QED
        BY <1>1, <1>5, <3>2, <4>1, Zenon DEF Traverses
    <3>4. e.nextId[p] = n
      BY <1>2, <1>3, <3>2, <3>3, Zenon
    <3> QED
      BY ONLY <2>3, <3>1, <3>2, <3>4, Zenon
  <2>4. CASE k # 1 /\ k > i
    <3>1. /\ k + 1 \in 1 .. d.size /\ k \in 1 .. d.size /\ k # i /\ k # i - 1 /\ k + 1 # 1
          /\ t[k] = s[k + 1] /\ t[k - 1] = s[k] /\ (k + 1) - 1 = k
      BY <1>1, <2>4
    <3>2. s[k + 1] = d.nextId[s[k]]
      BY <1>1, <3>1, Zenon DEF Traverses
    <3>3. e.nextId[s[k]] = d.nextId[s[k]]
      BY <1>11, <3>1, Zenon
    <3> QED
      BY ONLY <2>4, <3>1, <3>2, <3>3, Zenon
  <2> QED
    BY <1>1, <2>1, <2>2, <2>3, <2>4
<1>13. FromHead(e) = t
  <2> HIDE DEF t
  <2>1. e.size \in Nat
    BY <1>1, <1>2, <1>5
  <2> QED
    BY ONLY <2>1, <1>10, <1>12, FromHeadFollows, Zenon
<1> QED
  BY <1>5, <1>9, <1>13, Zenon DEF e, s

(* A list in descending order is a sequence in descending order. *)
LEMMA SequenceDescending ==
    ASSUME NEW d, GoodList(d), NEW nr, DescendingIn(d, nr)
    PROVE  Ordered!InDescendingOrder(FromHead(d), [a \in d.nodes |-> nr[a]])
<1> DEFINE s == FromHead(d)
<1>1. /\ Len(s) = d.size /\ d.size \in Nat /\ Traverses(s, d)
  BY SequenceOfList, Zenon
<1>2. NULL \notin d.nodes
  BY IdsAssumption, Zenon DEF GoodList, Data
<1> HIDE DEF s
<1>3. ASSUME NEW i \in 1 .. d.size - 1
      PROVE  s[i] \in d.nodes /\ s[i + 1] \in d.nodes /\ nr[s[i]] >= nr[s[i + 1]]
  <2>1. i \in 1 .. d.size /\ i + 1 \in 1 .. d.size
    BY <1>1
  <2>2. s[i] \in d.nodes /\ s[i + 1] \in d.nodes /\ d.nextId[s[i]] = s[i + 1]
    BY <1>1, <2>1, Zenon DEF Traverses
  <2> QED
    BY <1>2, <2>2, Zenon DEF DescendingIn
<1>4. Ordered!InDescendingOrder(s, [a \in d.nodes |-> nr[a]])
  BY <1>1, <1>3, Zenon DEF Ordered!InDescendingOrder
<1> QED
  BY <1>4, Zenon DEF s

-----------------------------------------------------------------------------
(* The list implements the sequence *)

(* What a step of the list makes of the sequence and of its keys. *)
LEMMA PrimedSequence ==
    /\ FromHead(data)' = FromHead(data')
    /\ [a \in data.nodes |-> nicr[a]]' = [a \in data'.nodes |-> nicr'[a]]
BY Zenon DEF FromHead

(* Linking a node where its NICR fits adds it to the sequence. *)
LEMMA LinkAdds ==
    ASSUME GoodList(data), NEW id \in Ids, ~contains(data, id),
           NEW p \in Address, NEW n \in Address,
           nicr' \in [Address -> Nat], NEW NICR, nicr'[id] = NICR,
           \A a \in data.nodes : nicr'[a] = nicr[a],
           DescendingIn(data, nicr'), NICR \in Nat,
           validInsertPosition(data, nicr', NICR, p, n),
           data' = link(data, id, p, n)
    PROVE  Ordered!Add(id, NICR)
<1> DEFINE s == FromHead(data)
           nr == nicr'
<1>1. Gap(data, p, n)
  BY ValidIsGap, Zenon
<1>2. /\ Len(s) = data.size /\ Ordered!Entries(s) = data.nodes
  BY SequenceOfList, Zenon
<1>3. GoodList(data') /\ data'.nodes = data.nodes \cup {id}
  <2>1. /\ GoodList(link(data, id, p, n))
        /\ link(data, id, p, n).nodes = data.nodes \cup {id}
        /\ link(data, id, p, n).nextId = [x \in Address |->
              IF x = id THEN n ELSE IF x = p /\ p # NULL THEN id ELSE data.nextId[x]]
    BY <1>1, LinkGood
  <2> QED
    BY <2>1, Zenon
<1>4. \E i \in 0 .. data.size : FromHead(data') = Ordered!insertedAfter(s, i, id)
  BY <1>1, LinkInserts, Zenon
<1>5. /\ p # NULL => nr[p] >= nr[id]
      /\ n # NULL => nr[id] >= nr[n]
  BY Zenon DEF validInsertPosition
<1>6. DescendingIn(data', nr)
  BY <1>1, <1>5, LinkDescending, Zenon
<1>7. Ordered!InDescendingOrder(FromHead(data'), [a \in data'.nodes |-> nr[a]])
  BY <1>3, <1>6, SequenceDescending, Zenon
<1>8. id \notin Ordered!Entries(s)
  BY <1>2, Zenon DEF contains
<1>9. [a \in data'.nodes |-> nr[a]] =
         [a \in DOMAIN [b \in data.nodes |-> nicr[b]] \cup {id} |->
             IF a = id THEN NICR ELSE [b \in data.nodes |-> nicr[b]][a]]
  BY <1>3, Zenon
<1> QED
  BY <1>2, <1>4, <1>7, <1>8, <1>9, PrimedSequence, Zenon DEF Ordered!Add

(* Unlinking a node drops it from the sequence. *)
LEMMA UnlinkDrops ==
    ASSUME GoodList(data), NEW id \in Ids, contains(data, id), data' = unlink(data, id),
           \A a \in data.nodes \ {id} : nicr'[a] = nicr[a]
    PROVE  Ordered!Drop(id)
<1> DEFINE s == FromHead(data)
<1>1. Len(s) = data.size
  BY SequenceOfList, Zenon
<1>2. data'.nodes = data.nodes \ {id}
  BY UnlinkGood, Zenon
<1>3. \E i \in 1 .. data.size : s[i] = id /\ FromHead(data') = Ordered!withoutEntry(s, i)
  BY UnlinkRemoves, Zenon
<1>4. [a \in data'.nodes |-> nicr'[a]] =
         [a \in DOMAIN [b \in data.nodes |-> nicr[b]] \ {id} |-> [b \in data.nodes |-> nicr[b]][a]]
  BY <1>2, Zenon
<1> QED
  BY <1>1, <1>3, <1>4, PrimedSequence, Zenon DEF Ordered!Drop

(* Linking the node again at once moves it. *)
LEMMA RelinkMoves ==
    ASSUME GoodList(data), NEW id \in Ids, contains(data, id),
           NEW p \in Address, NEW n \in Address,
           nicr' \in [Address -> Nat], NEW NICR \in Nat, nicr'[id] = NICR,
           \A a \in data.nodes \ {id} : nicr'[a] = nicr[a],
           DescendingIn(unlink(data, id), nicr'),
           validInsertPosition(unlink(data, id), nicr', NICR, p, n),
           data' = link(unlink(data, id), id, p, n)
    PROVE  Ordered!Move(id, NICR)
<1> DEFINE s == FromHead(data)
           d == unlink(data, id)
           nr == nicr'
<1>1. /\ Len(s) = data.size /\ data.size \in Nat
  BY SequenceOfList, Zenon
<1>2. GoodList(d) /\ d.nodes = data.nodes \ {id} /\ d.size = data.size - 1
  BY UnlinkGood, Zenon
<1>3. \E i \in 1 .. data.size : s[i] = id /\ FromHead(d) = Ordered!withoutEntry(s, i)
  BY UnlinkRemoves, Zenon
<1>4. DescendingIn(d, nr) /\ validInsertPosition(d, nr, NICR, p, n) /\ data' = link(d, id, p, n)
  BY Zenon
<1> HIDE DEF d
<1>5. Gap(d, p, n)
  BY <1>2, <1>4, ValidIsGap, Zenon
<1>6. ~contains(d, id)
  BY <1>2, Zenon DEF contains
<1>7. GoodList(data') /\ data'.nodes = data.nodes
  <2>1. /\ GoodList(link(d, id, p, n))
        /\ link(d, id, p, n).nodes = d.nodes \cup {id}
        /\ link(d, id, p, n).nextId = [x \in Address |->
              IF x = id THEN n ELSE IF x = p /\ p # NULL THEN id ELSE d.nextId[x]]
    BY <1>2, <1>5, <1>6, LinkGood
  <2> QED
    BY <1>2, <1>4, <2>1, Zenon DEF contains
<1>8. \E j \in 0 .. d.size : FromHead(data') = Ordered!insertedAfter(FromHead(d), j, id)
  BY <1>2, <1>4, <1>5, <1>6, LinkInserts
<1>9. /\ p # NULL => nr[p] >= nr[id]
      /\ n # NULL => nr[id] >= nr[n]
  BY <1>4, Zenon DEF validInsertPosition
<1>10. DescendingIn(data', nr)
  BY <1>2, <1>4, <1>5, <1>6, <1>9, LinkDescending
<1>11. Ordered!InDescendingOrder(FromHead(data'), [a \in data'.nodes |-> nr[a]])
  BY <1>7, <1>10, SequenceDescending, Zenon
<1>12. [a \in data'.nodes |-> nr[a]] = [[a \in data.nodes |-> nicr[a]] EXCEPT ![id] = NICR]
  BY <1>7, Zenon
<1>13. \E i \in 1 .. Len(s), j \in 0 .. Len(s) - 1 :
          s[i] = id /\ FromHead(data') = Ordered!insertedAfter(Ordered!withoutEntry(s, i), j, id)
  BY <1>1, <1>2, <1>3, <1>8, Zenon
<1> QED
  BY <1>11, <1>12, <1>13, PrimedSequence, Zenon DEF Ordered!Move

(* An insertion that finds its place at once adds the node; one that has   *)
(* to walk leaves the sequence as it is.                                   *)
LEMMA InsertStep ==
    ASSUME IInv, ~ReordersNICRs, NEW id \in Ids, NEW NICR \in NICRs,
           NEW p \in Address, NEW n \in Address, insert(id, NICR, p, n)
    PROVE  [Ordered!Next]_(Ordered!lvars)
<1> DEFINE nr == nicr'
           at == insertPosition(data, nr, id, NICR, p, n)
<1>1. /\ GoodList(data) /\ nicr \in [Address -> 1 .. Infinite] /\ DescendingIn(data, nicr)
      /\ id \in Address /\ NULL \in Address /\ id # NULL /\ nicr[NULL] = Infinite
      /\ NICR \in Nat /\ 1 .. Infinite \subseteq Nat /\ NICR \in 1 .. MaxNICR
      /\ NICR \in 1 .. Infinite
  BY IdsAssumption, MaxNICRAssumption DEF IInv, TypeOK, Descending, Address, NICRs, Infinite
<1>2. /\ nr \in [Address -> Nat] /\ nr[id] = NICR /\ nr[NULL] = Infinite
      /\ \A x \in Address \ {id} : nr[x] = nicr[x]
  BY <1>1, Zenon DEF insert
<1>3. ~contains(data, id) /\ StartInsert(data, nr, id, NICR, p, n)
  BY Zenon DEF insert
<1>4. \A a \in data.nodes : nr[a] = nicr[a]
  BY <1>1, <1>2, <1>3, Zenon DEF contains, GoodList, Data, Address
<1>5. DescendingIn(data, nr)
  BY <1>1, <1>4, Zenon DEF DescendingIn, GoodList, LinksOf
<1>6. GoodStart(data, nr, NICR, at)
  BY <1>1, <1>2, <1>3, StartGood, Zenon
<1>7. CASE at.walk = "none"
  <2>1. /\ at.prevId \in Address /\ at.nextId \in Address
        /\ validInsertPosition(data, nr, NICR, at.prevId, at.nextId)
    BY <1>6, <1>7, Zenon DEF GoodStart
  <2>2. data' = link(data, id, at.prevId, at.nextId)
    BY <1>3, <1>7, Zenon DEF StartInsert
  <2> HIDE DEF at
  <2>3. Ordered!Add(id, NICR)
    BY <1>1, <1>2, <1>3, <1>4, <1>5, <2>1, <2>2, LinkAdds, Zenon
  <2> QED
    BY <1>1, <2>3, Zenon DEF Ordered!Next
<1>8. CASE at.walk # "none"
  <2>1. data' = data
    BY <1>3, <1>8, Zenon DEF StartInsert
  <2> QED
    BY <1>4, <2>1, PrimedSequence, Zenon DEF Ordered!lvars
<1> QED
  BY <1>7, <1>8, Zenon

(* A moved node stays out of the sequence while its new place is sought. *)
LEMMA ReInsertStep ==
    ASSUME IInv, ~ReordersNICRs, NEW id \in Ids, NEW NICR \in NICRs,
           NEW p \in Address, NEW n \in Address, reInsert(id, NICR, p, n)
    PROVE  Ordered!Next
<1> DEFINE nr == nicr'
           d == unlink(data, id)
           at == insertPosition(d, nr, id, NICR, p, n)
<1>1. /\ GoodList(data) /\ nicr \in [Address -> 1 .. Infinite] /\ nicr \in [Address -> Nat]
      /\ DescendingIn(data, nicr)
      /\ id \in Address /\ NULL \in Address /\ id # NULL /\ nicr[NULL] = Infinite
      /\ NICR \in Nat /\ NICR \in 1 .. MaxNICR
  BY IdsAssumption, MaxNICRAssumption DEF IInv, TypeOK, Descending, Address, NICRs, Infinite
<1>2. /\ nr \in [Address -> Nat] /\ nr[id] = NICR /\ nr[NULL] = Infinite
      /\ \A x \in Address \ {id} : nr[x] = nicr[x]
  BY <1>1, Zenon DEF reInsert
<1>3. contains(data, id) /\ StartInsert(d, nr, id, NICR, p, n)
  BY Zenon DEF reInsert
<1>4. \A a \in data.nodes \ {id} : nr[a] = nicr[a]
  BY <1>1, <1>2, Zenon DEF GoodList, Data, Address
<1>5. GoodList(d) /\ ~contains(d, id) /\ d.nodes = data.nodes \ {id}
  <2>1. GoodList(d) /\ d.nodes = data.nodes \ {id}
    BY <1>1, <1>3, UnlinkGood, Zenon
  <2> QED
    BY <2>1, Zenon DEF contains
<1>6. DescendingIn(d, nr)
  <2>1. DescendingIn(d, nicr)
    BY <1>1, <1>3, UnlinkDescending, Zenon
  <2> HIDE DEF d
  <2> QED
    BY <1>4, <1>5, <2>1, Zenon DEF DescendingIn, GoodList, LinksOf
<1>7. GoodStart(d, nr, NICR, at)
  <2> HIDE DEF d
  <2> QED
    BY <1>1, <1>2, <1>5, StartGood, Zenon
<1>8. CASE at.walk = "none"
  <2>1. /\ at.prevId \in Address /\ at.nextId \in Address
        /\ validInsertPosition(d, nr, NICR, at.prevId, at.nextId)
    BY <1>7, <1>8, Zenon DEF GoodStart
  <2>2. data' = link(d, id, at.prevId, at.nextId)
    BY <1>3, <1>8, Zenon DEF StartInsert
  <2> HIDE DEF at
  <2>3. Ordered!Move(id, NICR)
    BY <1>1, <1>2, <1>3, <1>4, <1>6, <2>1, <2>2, RelinkMoves, Zenon
  <2> QED
    BY <1>1, <2>3, Zenon DEF Ordered!Next
<1>9. CASE at.walk # "none"
  <2>1. data' = d
    BY <1>3, <1>9, Zenon DEF StartInsert
  <2>2. Ordered!Drop(id)
    BY <1>1, <1>3, <1>4, <2>1, UnlinkDrops, Zenon
  <2> QED
    BY <2>2, Zenon DEF Ordered!Next
<1> QED
  BY <1>8, <1>9, Zenon

(* Every step of the list is a step of the sequence, or none. *)
LEMMA SequenceStep ==
    ASSUME IInv, ~ReordersNICRs, [Next]_vars
    PROVE  [Ordered!Next]_(Ordered!lvars)
<1>0. /\ GoodList(data) /\ nicr \in [Address -> Nat] /\ DescendingIn(data, nicr)
      /\ data.nodes \subseteq Address /\ NULL \notin data.nodes /\ NULL \in Address
  BY MaxNICRAssumption, IdsAssumption
  DEF IInv, TypeOK, Descending, GoodList, Data, Address, Infinite
<1>1. ASSUME NEW id \in Ids, remove(id)
      PROVE  [Ordered!Next]_(Ordered!lvars)
  <2>1. contains(data, id) /\ data' = unlink(data, id) /\ nicr' = [nicr EXCEPT ![id] = Infinite]
    BY <1>1, Zenon DEF remove
  <2>2. \A a \in data.nodes \ {id} : nicr'[a] = nicr[a]
    BY <1>0, <2>1, Zenon
  <2>3. Ordered!Drop(id)
    BY <1>0, <2>1, <2>2, UnlinkDrops, Zenon
  <2> QED
    BY <2>3, Zenon DEF Ordered!Next
<1>2. ASSUME NEW m \in 1 .. Cardinality(Ids), setParams(m)
      PROVE  [Ordered!Next]_(Ordered!lvars)
  <2>1. data' = [data EXCEPT !.maxSize = m] /\ nicr' = nicr
    BY <1>2, Zenon DEF setParams
  <2>2. /\ data'.head = data.head /\ data'.size = data.size /\ data'.nodes = data.nodes
        /\ data'.nextId = data.nextId
    BY <1>0, <2>1, Zenon DEF GoodList, Data
  <2>3. FromHead(data') = FromHead(data)
    BY <2>2, Zenon DEF FromHead
  <2> QED
    BY <2>1, <2>2, <2>3, PrimedSequence, Zenon DEF Ordered!lvars
<1>3. ASSUME data' = data, nicr' = nicr
      PROVE  [Ordered!Next]_(Ordered!lvars)
  BY <1>3, PrimedSequence, Zenon DEF Ordered!lvars
<1>4. CASE finishWalk
  <2>1. /\ call.prevId \in Address /\ call.nextId \in Address /\ call.id \in Ids
        /\ ~contains(data, call.id) /\ nicr[call.id] = call.NICR /\ call.NICR \in 1 .. MaxNICR
    BY <1>4, Zenon DEF IInv, finishWalk, WalkGood, CallType, contains, NICRs
  <2>2. PICK p \in Address, n \in Address, id \in Ids, NICR \in 1 .. MaxNICR :
           p = call.prevId /\ n = call.nextId /\ id = call.id /\ NICR = call.NICR
    BY <2>1, Zenon
  <2>3. validInsertPosition(data, nicr, NICR, p, n)
    BY <1>4, <2>2, WalkEndsAtPlace, Zenon
  <2>4. data' = link(data, id, p, n) /\ nicr' = nicr
    BY <1>4, <2>2, Zenon DEF finishWalk
  <2>5. /\ nicr' \in [Address -> Nat] /\ nicr'[id] = NICR /\ DescendingIn(data, nicr')
        /\ \A a \in data.nodes : nicr'[a] = nicr[a]
        /\ validInsertPosition(data, nicr', NICR, p, n)
        /\ ~contains(data, id) /\ NICR \in Nat
    BY <1>0, <2>1, <2>2, <2>3, <2>4
  <2>6. Ordered!Add(id, NICR)
    BY <1>0, <2>4, <2>5, LinkAdds, Zenon
  <2> QED
    BY <2>6, Zenon DEF Ordered!Next
<1>5. CASE redistribute
  <2>1. PICK changed \in [data.nodes -> NICRs] :
          /\ nicr' = [id \in Address |-> IF id \in data.nodes THEN changed[id] ELSE nicr[id]]
          /\ \A a, b \in data.nodes : nicr[a] >= nicr[b] => changed[a] >= changed[b]
    BY <1>5, Zenon DEF redistribute
  <2>2. data' = data
    BY <1>5, Zenon DEF redistribute
  <2>3. DescendingIn(data, nicr')
    BY <1>0, <2>1, Zenon DEF DescendingIn, GoodList, LinksOf
  <2>4. Ordered!InDescendingOrder(FromHead(data), [a \in data.nodes |-> nicr'[a]])
    BY <1>0, <2>3, SequenceDescending, Zenon
  <2>5. [a \in data.nodes |-> nicr'[a]] \in [data.nodes -> 1 .. MaxNICR]
    BY <1>0, <2>1, Zenon DEF NICRs
  <2>6. DOMAIN [a \in data.nodes |-> nicr[a]] = data.nodes
    BY Zenon
  <2>7. Ordered!Rescale
    BY <2>2, <2>4, <2>5, <2>6, PrimedSequence, Zenon DEF Ordered!Rescale
  <2> QED
    BY <2>7, Zenon DEF Ordered!Next
<1>6. CASE UNCHANGED vars
  BY <1>3, <1>6, Zenon DEF vars
<1>7. CASE descend \/ ascend
  BY <1>3, <1>7, Zenon DEF descend, ascend
<1> QED
  BY <1>1, <1>2, <1>4, <1>5, <1>6, <1>7, InsertStep, ReInsertStep, Zenon DEF Next

(* Whatever the hints, the borrowers and the NICRs, the linked list does   *)
(* what a sorted sequence does: insert adds one borrower at a place the    *)
(* order allows, remove takes one out, reInsert moves one (out and in      *)
(* again when it has to walk), and a redistribution that keeps the NICRs   *)
(* in order leaves the sequence alone.                                     *)
THEOREM ListImplementsSequence ==
    ASSUME ~ReordersNICRs
    PROVE  Spec => ImplementsSortedList
<1>1. Init => Ordered!Init
  <2> SUFFICES ASSUME Init PROVE Ordered!Init
    BY Zenon
  <2>1. data.size = 0 /\ data.nodes = {}
    BY Zenon DEF Init
  <2>2. Len(FromHead(data)) = 0 /\ FromHead(data) \in Seq(Ids)
    BY <2>1, InitIInv, SequenceOfList, Zenon DEF IInv
  <2>3. FromHead(data) = << >>
    BY <2>2, EmptySeq, Zenon
  <2> QED
    BY <2>1, <2>3, Zenon DEF Ordered!Init
<1>2. IInv /\ [Next]_vars => [Ordered!Next]_(Ordered!lvars)
  BY SequenceStep, Zenon
<1> QED
  BY <1>1, <1>2, InitIInv, NextIInv, PTL DEF Spec, ImplementsSortedList, Ordered!Spec

=============================================================================
