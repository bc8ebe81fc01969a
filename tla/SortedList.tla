----------------------------- MODULE SortedList -----------------------------
(***************************************************************************)
(* What SortedTroves promises: a sequence of ids in descending order of    *)
(* their keys.  An id enters anywhere the order allows, an id leaves, or   *)
(* the keys change under the sequence without upsetting it.  Where ids     *)
(* with equal keys stand among each other is left open.                    *)
(***************************************************************************)
EXTENDS Naturals, Sequences

CONSTANTS Ids, MaxNICR

VARIABLES
    order,      \* the ids, largest key first
    key         \* the key of each id of the sequence

lvars == <<order, key>>

Entries(s) == {s[i] : i \in 1 .. Len(s)}

insertedAfter(s, i, id) == SubSeq(s, 1, i) \o <<id>> \o SubSeq(s, i + 1, Len(s))
withoutEntry(s, i) == SubSeq(s, 1, i - 1) \o SubSeq(s, i + 1, Len(s))

InDescendingOrder(s, k) == \A i \in 1 .. Len(s) - 1 : k[s[i]] >= k[s[i + 1]]

Init == order = << >> /\ key = [id \in {} |-> 0]

(* SortedTroves.insert, and the second half of reInsert *)
Add(id, k) ==
    /\ id \notin Entries(order)
    /\ \E i \in 0 .. Len(order) : order' = insertedAfter(order, i, id)
    /\ key' = [a \in DOMAIN key \cup {id} |-> IF a = id THEN k ELSE key[a]]
    /\ InDescendingOrder(order', key')

(* SortedTroves.remove, and the first half of reInsert *)
Drop(id) ==
    /\ \E i \in 1 .. Len(order) : order[i] = id /\ order' = withoutEntry(order, i)
    /\ key' = [a \in DOMAIN key \ {id} |-> key[a]]

(* SortedTroves.reInsert when its hint is valid *)
Move(id, k) ==
    /\ \E i \in 1 .. Len(order), j \in 0 .. Len(order) - 1 :
          order[i] = id /\ order' = insertedAfter(withoutEntry(order, i), j, id)
    /\ key' = [key EXCEPT ![id] = k]
    /\ InDescendingOrder(order', key')

(* A redistribution: the keys change, the sequence stays in order. *)
Rescale ==
    /\ key' \in [DOMAIN key -> 1 .. MaxNICR]
    /\ InDescendingOrder(order, key')
    /\ UNCHANGED order

Next ==
    \/ \E id \in Ids, k \in 1 .. MaxNICR : Add(id, k) \/ Move(id, k)
    \/ \E id \in Ids : Drop(id)
    \/ Rescale

Spec == Init /\ [][Next]_lvars
=============================================================================
