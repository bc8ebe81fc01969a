---------------------------- MODULE SortedTroves ----------------------------
(***************************************************************************)
(* The doubly linked list of active troves (contracts/SortedTroves.sol),   *)
(* kept in descending order of nominal collateral ratio (NICR).  Callers   *)
(* hand in hints for the insert position that may be stale, wrong or       *)
(* absent; a wrong hint starts a walk along the list.                      *)
(*                                                                         *)
(* A transaction is atomic.  The walk is the only loop, so it is the only  *)
(* part spread over several steps: while `call` holds a pending insertion  *)
(* no other transaction can start.  All the checks that can revert come    *)
(* before the walk, so a started walk never has to be undone.              *)
(*                                                                         *)
(* NICRs are not stored in the list: the contract asks TroveManager for    *)
(* them whenever it compares.  `nicr` is that answer; a redistribution of  *)
(* a liquidated trove changes it for every trove at once, and no node of   *)
(* the list is touched by that.                                            *)
(***************************************************************************)
EXTENDS Naturals, FiniteSets

CONSTANTS
    Ids,            \* the borrowers' addresses
    NULL,           \* address(0)
    MaxNICR,        \* the largest NICR of a trove with debt
    ReordersNICRs   \* TRUE: a redistribution may also reorder the NICRs

ASSUME IdsAssumption == IsFiniteSet(Ids) /\ NULL \notin Ids
ASSUME MaxNICRAssumption == MaxNICR \in Nat \ {0}
ASSUME ReordersNICRsAssumption == ReordersNICRs \in BOOLEAN

VARIABLES
    data,           \* SortedTrovesStorage.data
    nicr,           \* troveManager.getNominalICR, per address
    call            \* the insertion that is walking the list, or Idle

vars == <<data, nicr, call>>

Address == Ids \cup {NULL}
NICRs == 1 .. MaxNICR

(* The NICR of an address without debt: 2^256 - 1 in the code. *)
Infinite == MaxNICR + 1

Idle == [walk |-> "none", id |-> NULL, NICR |-> 0, prevId |-> NULL, nextId |-> NULL]

(* The struct Data.  Its mapping `nodes` from addresses to structs is kept *)
(* as one function per field; `nodes` is the set of those that exist.      *)
Data == [head : Address, tail : Address, size : Nat, maxSize : Nat,
         nodes : SUBSET Ids, nextId : [Address -> Address], prevId : [Address -> Address]]

contains(d, id) == id \in d.nodes
isFull(d) == d.size = d.maxSize
isEmpty(d) == d.size = 0

-----------------------------------------------------------------------------
(* Insert positions *)

(* A slip: the node behind the position is not compared. *)
validBehindPrev(d, nr, NICR, prevId, nextId) ==
    \/ /\ prevId = NULL
       /\ isEmpty(d) \/ (d.head = nextId /\ NICR >= nr[nextId])
    \/ /\ prevId # NULL
       /\ d.nextId[prevId] = nextId /\ nr[prevId] >= NICR

(* nr is the NICR of every address at the moment of the comparison. *)
validInsertPosition(d, nr, NICR, prevId, nextId) ==
    \/ /\ prevId = NULL /\ nextId = NULL
       /\ isEmpty(d)
    \/ /\ prevId = NULL /\ nextId # NULL
       /\ d.head = nextId /\ NICR >= nr[nextId]
    \/ /\ prevId # NULL /\ nextId = NULL
       /\ d.tail = prevId /\ NICR <= nr[prevId]
    \/ /\ prevId # NULL /\ nextId # NULL
       /\ d.nextId[prevId] = nextId
       /\ nr[prevId] >= NICR /\ NICR >= nr[nextId]

(* A place to start or to continue a walk from: the loops of _descendList  *)
(* and _ascendList only carry the two neighbours.                          *)
Cursor(walk, id, NICR, prevId, nextId) ==
    [walk |-> walk, id |-> id, NICR |-> NICR, prevId |-> prevId, nextId |-> nextId]

descendList(d, nr, id, NICR, startId) ==
    IF d.head = startId /\ NICR >= nr[startId]
    THEN Cursor("none", id, NICR, NULL, startId)
    ELSE Cursor("descend", id, NICR, startId, d.nextId[startId])

ascendList(d, nr, id, NICR, startId) ==
    IF d.tail = startId /\ NICR <= nr[startId]
    THEN Cursor("none", id, NICR, startId, NULL)
    ELSE Cursor("ascend", id, NICR, d.prevId[startId], startId)

(* A slip: a hint in the list is taken, on whichever side it is. *)
trustHints(d, nr, id, NICR, prevHint, nextHint) ==
    IF contains(d, prevHint) THEN descendList(d, nr, id, NICR, prevHint)
    ELSE IF contains(d, nextHint) THEN ascendList(d, nr, id, NICR, nextHint)
    ELSE descendList(d, nr, id, NICR, d.head)

(* Hints that left the list or are on the wrong side are dropped. *)
findInsertPosition(d, nr, id, NICR, prevHint, nextHint) ==
    LET prevId == IF contains(d, prevHint) /\ NICR <= nr[prevHint] THEN prevHint ELSE NULL
        nextId == IF contains(d, nextHint) /\ NICR >= nr[nextHint] THEN nextHint ELSE NULL
    IN  IF prevId = NULL /\ nextId = NULL THEN descendList(d, nr, id, NICR, d.head)
        ELSE IF prevId = NULL THEN ascendList(d, nr, id, NICR, nextId)
        ELSE descendList(d, nr, id, NICR, prevId)

(* The position _insert starts from: the hint itself when it is valid. *)
insertPosition(d, nr, id, NICR, prevHint, nextHint) ==
    IF validInsertPosition(d, nr, NICR, prevHint, nextHint)
    THEN Cursor("none", id, NICR, prevHint, nextHint)
    ELSE findInsertPosition(d, nr, id, NICR, prevHint, nextHint)

-----------------------------------------------------------------------------
(* Pointer updates *)

(* A slip: a new tail is not noted. *)
linkWithoutTail(d, id, prevId, nextId) ==
    [d EXCEPT !.head = IF prevId = NULL THEN id ELSE d.head,
              !.tail = IF isEmpty(d) THEN id ELSE d.tail,
              !.size = d.size + 1, !.nodes = d.nodes \cup {id},
              !.nextId = [d.nextId EXCEPT ![id] = nextId,
                                          ![prevId] = IF prevId = NULL THEN NULL ELSE id],
              !.prevId = [d.prevId EXCEPT ![id] = prevId,
                                          ![nextId] = IF nextId = NULL THEN NULL ELSE id]]

(* The second half of _insert: link id between prevId and nextId. *)
link(d, id, prevId, nextId) ==
    [head    |-> IF prevId = NULL THEN id ELSE d.head,
     tail    |-> IF nextId = NULL THEN id ELSE d.tail,
     size    |-> d.size + 1,
     maxSize |-> d.maxSize,
     nodes   |-> d.nodes \cup {id},
     nextId  |-> IF prevId = NULL /\ nextId = NULL THEN d.nextId
                 ELSE IF prevId = NULL THEN [d.nextId EXCEPT ![id] = d.head]
                 ELSE IF nextId = NULL THEN [d.nextId EXCEPT ![d.tail] = id]
                 ELSE [d.nextId EXCEPT ![id] = nextId, ![prevId] = id],
     prevId  |-> IF prevId = NULL /\ nextId = NULL THEN d.prevId
                 ELSE IF prevId = NULL THEN [d.prevId EXCEPT ![d.head] = id]
                 ELSE IF nextId = NULL THEN [d.prevId EXCEPT ![id] = d.tail]
                 ELSE [d.prevId EXCEPT ![id] = prevId, ![nextId] = id]]

(* _remove: unlink id and delete its node. *)
unlink(d, id) ==
    LET next == d.nextId[id]
        prev == d.prevId[id]
    IN  [head    |-> IF d.size <= 1 THEN NULL ELSE IF id = d.head THEN next ELSE d.head,
         tail    |-> IF d.size <= 1 THEN NULL
                     ELSE IF id # d.head /\ id = d.tail THEN prev ELSE d.tail,
         size    |-> d.size - 1,
         maxSize |-> d.maxSize,
         nodes   |-> d.nodes \ {id},
         nextId  |-> IF d.size <= 1 \/ id = d.head THEN [d.nextId EXCEPT ![id] = NULL]
                     ELSE IF id = d.tail THEN [d.nextId EXCEPT ![prev] = NULL, ![id] = NULL]
                     ELSE [d.nextId EXCEPT ![prev] = next, ![id] = NULL],
         prevId  |-> IF d.size <= 1 THEN [d.prevId EXCEPT ![id] = NULL]
                     ELSE IF id = d.head THEN [d.prevId EXCEPT ![next] = NULL, ![id] = NULL]
                     ELSE IF id = d.tail THEN [d.prevId EXCEPT ![id] = NULL]
                     ELSE [d.prevId EXCEPT ![next] = prev, ![id] = NULL]]

-----------------------------------------------------------------------------
(* Transactions *)

Init ==
    /\ data = [head |-> NULL, tail |-> NULL, size |-> 0,
               maxSize |-> Cardinality(Ids),
               nodes |-> {},
               nextId |-> [id \in Address |-> NULL],
               prevId |-> [id \in Address |-> NULL]]
    /\ nicr = [id \in Address |-> Infinite]
    /\ call = Idle

(* The insertion of id into list d, from its hint: done at once, or by a   *)
(* walk whose first position is recorded in `call`.                        *)
StartInsert(d, nr, id, NICR, prevHint, nextHint) ==
    LET at == insertPosition(d, nr, id, NICR, prevHint, nextHint)
    IN  IF at.walk = "none"
        THEN data' = link(d, id, at.prevId, at.nextId) /\ call' = Idle
        ELSE data' = d /\ call' = at

insert(id, NICR, prevHint, nextHint) ==
    /\ call = Idle
    /\ ~isFull(data)
    /\ ~contains(data, id)
    /\ NICR > 0
    /\ nicr' = [nicr EXCEPT ![id] = NICR]
    /\ StartInsert(data, nicr', id, NICR, prevHint, nextHint)

(* The borrower's NICR changes and its node moves: _remove, then _insert.  *)
reInsert(id, newNICR, prevHint, nextHint) ==
    /\ call = Idle
    /\ contains(data, id)
    /\ newNICR > 0
    /\ LET removed == unlink(data, id)
       IN  /\ ~isFull(removed)
           /\ nicr' = [nicr EXCEPT ![id] = newNICR]
           /\ StartInsert(removed, nicr', id, newNICR, prevHint, nextHint)

(* TroveManagerBase._closeTrove zeroes the trove first, then removes it. *)
remove(id) ==
    /\ call = Idle
    /\ contains(data, id)
    /\ data' = unlink(data, id)
    /\ nicr' = [nicr EXCEPT ![id] = Infinite]
    /\ UNCHANGED call

(* One test of the loop condition of _descendList / _ascendList: move on,  *)
(* or leave the loop and link the node.                                    *)
WalkEnds ==
    \/ call.walk = "descend" /\ call.prevId = NULL
    \/ call.walk = "ascend" /\ call.nextId = NULL
    \/ validInsertPosition(data, nicr, call.NICR, call.prevId, call.nextId)

descend ==
    /\ call.walk = "descend"
    /\ ~WalkEnds
    /\ call' = [call EXCEPT !.prevId = data.nextId[call.prevId],
                            !.nextId = data.nextId[data.nextId[call.prevId]]]
    /\ UNCHANGED <<data, nicr>>

(* A slip: the cursor does not follow. *)
ascendInPlace ==
    /\ call.walk = "ascend"
    /\ ~WalkEnds
    /\ UNCHANGED <<data, nicr, call>>

ascend ==
    /\ call.walk = "ascend"
    /\ ~WalkEnds
    /\ call' = [call EXCEPT !.nextId = data.prevId[call.nextId],
                            !.prevId = data.prevId[data.prevId[call.nextId]]]
    /\ UNCHANGED <<data, nicr>>

finishWalk ==
    /\ call.walk # "none"
    /\ WalkEnds
    /\ data' = link(data, call.id, call.prevId, call.nextId)
    /\ call' = Idle
    /\ UNCHANGED nicr

(* The owner sets the capacity; nothing stops a value below the size. *)
setParams(n) ==
    /\ call = Idle
    /\ n > 0
    /\ data' = [data EXCEPT !.maxSize = n]
    /\ UNCHANGED <<nicr, call>>

(* A liquidation redistributes collateral and debt over all active troves. *)
(* NICRs that were different may become equal.  Equal NICRs stay equal     *)
(* unless rounding interferes.                                             *)
redistribute ==
    /\ call = Idle
    /\ \E changed \in [data.nodes -> NICRs] :
          /\ nicr' = [id \in Address |-> IF id \in data.nodes THEN changed[id] ELSE nicr[id]]
          /\ \/ ReordersNICRs
             \/ \A a, b \in data.nodes : nicr[a] >= nicr[b] => changed[a] >= changed[b]
    /\ UNCHANGED <<data, call>>

Next ==
    \/ \E id \in Ids, NICR \in NICRs, prevHint, nextHint \in Address :
          \/ insert(id, NICR, prevHint, nextHint)
          \/ reInsert(id, NICR, prevHint, nextHint)
    \/ \E id \in Ids : remove(id)
    \/ \E n \in 1 .. Cardinality(Ids) : setParams(n)
    \/ descend
    \/ ascend
    \/ finishWalk
    \/ redistribute

(* A started transaction runs to its end. *)
Fairness == WF_vars(descend) /\ WF_vars(ascend) /\ WF_vars(finishWalk)

Spec == Init /\ [][Next]_vars
FairSpec == Spec /\ Fairness
-----------------------------------------------------------------------------
(* Properties *)

CallType == [walk : {"none", "descend", "ascend"}, id : Address,
             NICR : 0 .. MaxNICR, prevId : Address, nextId : Address]

(* The types of the list's storage, of the NICRs and of the walk's locals. *)
TypeOK ==
    /\ data \in Data
    /\ nicr \in [Address -> 1 .. Infinite]
    /\ call \in CallType

LinksOf(d) ==
    /\ d.head = NULL <=> d.nodes = {}
    /\ d.tail = NULL <=> d.nodes = {}
    /\ d.head \in d.nodes \cup {NULL}
    /\ d.tail \in d.nodes \cup {NULL}
    /\ \A id \in Address \ d.nodes : d.nextId[id] = NULL /\ d.prevId[id] = NULL
    /\ \A id \in d.nodes :
          /\ d.nextId[id] = NULL <=> id = d.tail
          /\ d.prevId[id] = NULL <=> id = d.head
          /\ d.nextId[id] # NULL => d.nextId[id] \in d.nodes /\ d.prevId[d.nextId[id]] = id
          /\ d.prevId[id] # NULL => d.prevId[id] \in d.nodes /\ d.nextId[d.prevId[id]] = id

(* Both directions of every link agree, the ends are exactly head and      *)
(* tail, and no pointer leads out of the list: what each pointer update of *)
(* _insert and _remove must leave behind for every position.               *)
LinksAgree == LinksOf(data)

(* data.size counts the nodes, whatever was inserted, moved and removed:   *)
(* _remove, isEmpty and isFull branch on it.                               *)
SizeCountsNodes == data.size = Cardinality(data.nodes)

(* pos numbers the nodes from the head, 1, to the tail, size. *)
Numbers(pos, d) ==
    /\ \A a, b \in d.nodes : pos[a] = pos[b] => a = b
    /\ \A a \in d.nodes :
          /\ a = d.head <=> pos[a] = 1
          /\ a = d.tail <=> pos[a] = d.size
          /\ d.nextId[a] # NULL => pos[d.nextId[a]] = pos[a] + 1

InOneChain(d) == \E pos \in [d.nodes -> 1 .. d.size] : Numbers(pos, d)

(* Following the links from the head meets every node once and ends at the *)
(* tail: no cycle and no detached part, so liquidateTroves and             *)
(* redeemCollateral, which follow the links, meet every trove.             *)
EveryNodeReachable == InOneChain(data)

DescendingIn(d, nr) ==
    \A id \in d.nodes : d.nextId[id] # NULL => nr[id] >= nr[d.nextId[id]]

(* Neighbours are in descending order of their current NICR, the order the *)
(* contract's header promises, whatever hints the insertions came with and *)
(* however redistributions scaled the NICRs in between.                    *)
Descending == ~ReordersNICRs => DescendingIn(data, nicr)

(* A walk never leaves the list: the node it searches a place for lies on  *)
(* the cursor's side, so before the end is reached some position is valid. *)
(* It holds even when rounding has put NICRs out of order.  If it failed,  *)
(* _insert would link the node as the only one of a list that has others.  *)
WalkStaysInList ==
    /\ call.walk = "descend" /\ ~isEmpty(data) =>
          contains(data, call.prevId) /\ nicr[call.prevId] >= call.NICR
    /\ call.walk = "ascend" =>
          contains(data, call.nextId) /\ nicr[call.nextId] <= call.NICR

(* Every walk ends: no insertion runs out of list without a position, and  *)
(* none loops.                                                             *)
WalkTerminates == (call # Idle) ~> (call = Idle)

(* The ids met from the head along nextId. *)
FromHead(d) ==
    LET at[k \in 1 .. d.size] == IF k = 1 THEN d.head ELSE d.nextId[at[k - 1]]
    IN  at

(* What the list promises its callers: a sequence of borrowers in          *)
(* descending order in which troves are added, dropped and rescaled.       *)
Ordered == INSTANCE SortedList WITH
    order <- FromHead(data),
    key <- [id \in data.nodes |-> nicr[id]]

ImplementsSortedList == Ordered!Spec
=============================================================================
