-------------------------- MODULE Providers_proofs --------------------------
(***************************************************************************)
(* The two providers between the client and the node, for any number of     *)
(* calls, blocks, sockets and listeners: that BatchedProvider answers every *)
(* call with its own result and calls its callbacks once; and that blocks   *)
(* are taken from the present source exactly while somebody listens, no     *)
(* socket is left behind and no stale receipt returned                      *)
(* (WebSocketAugmentedProvider, as Socket).                                 *)
(***************************************************************************)
EXTENDS BatchedProvider, Integers, TLAPS

CONSTANTS Sockets, BASE, CONFIRMATIONS, NULL
VARIABLES socket, onClose, wsProvider, reconnect, effect, missed, attached, emitted,
          seenBlock, scheduled, listeners, behind, txBlock, waiter

Socket == INSTANCE WebSocketAugmentedProvider
-----------------------------------------------------------------------------
(* Batches *)

Batches == [calls : Seq(Calls), callbacks : Seq(Calls), blockTag : Blocks \cup {LATEST}]

TypeOK ==
  /\ request \in [Calls -> Requests]
  /\ multicall \in BOOLEAN
  /\ state \in [Calls -> {"new", "resolving", "made"}]
  /\ asked \in [Calls -> Blocks]
  /\ batched \in Batches
  /\ timeout \in BOOLEAN
  /\ sent \subseteq Batches
  /\ answer \in [Calls -> {PENDING, REJECTED} \cup (Calls \X Blocks)]
  /\ height \in Blocks

\* The calls of a request.
Of(r) == {r.calls[i] : i \in DOMAIN r.calls}

\* A request that is being collected or is with the node: results and callbacks
\* have the same positions, and all its calls are pending and ask for its block.
WellFormed(r) ==
  /\ r.calls = r.callbacks
  /\ \A c \in Of(r) : /\ state[c] = "made"
                      /\ answer[c] = PENDING
                      /\ request[c].blockTag = r.blockTag

\* The strengthening of AnswerIsOwn and SettledOnce that is inductive: in
\* addition no call is part of two requests.
BatchIInv ==
  /\ TypeOK
  /\ WellFormed(batched)
  /\ \A r \in sent : WellFormed(r)
  /\ \A r \in sent : Of(r) \cap Of(batched) = {}
  /\ \A r, q \in sent : r # q => Of(r) \cap Of(q) = {}
  /\ \A c \in Calls : state[c] # "made" => answer[c] = PENDING
  /\ \A c \in Calls : request[c].blockTag # LATEST => request[c].blockTag <= height
  /\ \A c \in Calls : asked[c] <= height
  /\ AnswerIsOwn

-----------------------------------------------------------------------------
\* The calls of a request that holds a single one, as the base class sends it.
LEMMA OfSingle ==
  ASSUME NEW c, NEW tag
  PROVE Of([calls |-> <<c>>, callbacks |-> <<c>>, blockTag |-> tag]) = {c}
BY DEF Of

\* No call is part of a batch that has just begun.
LEMMA OfEmpty == Of(emptyBatch) = {}
BY DEF Of, emptyBatch

\* _enqueueCall adds its call to the calls of the batch.
LEMMA OfAppend ==
  ASSUME NEW s \in Seq(Calls), NEW c \in Calls, NEW k, NEW tag
  PROVE Of([calls |-> Append(s, c), callbacks |-> k, blockTag |-> tag]) = {s[i] : i \in DOMAIN s} \cup {c}
<1> DEFINE r == [calls |-> Append(s, c), callbacks |-> k, blockTag |-> tag]
<1>1. DOMAIN Append(s, c) = 1..(Len(s) + 1) /\ DOMAIN s = 1..Len(s) /\ Len(s) \in Nat
  OBVIOUS
<1>2. \A i \in 1..Len(s) : Append(s, c)[i] = s[i]
  OBVIOUS
<1>3. Append(s, c)[Len(s) + 1] = c
  OBVIOUS
<1>4. Of(r) = {Append(s, c)[i] : i \in 1..(Len(s) + 1)}
  BY <1>1, Zenon DEF Of
<1>5. ASSUME NEW x \in Of(r) PROVE x \in {s[i] : i \in DOMAIN s} \cup {c}
  <2>1. PICK i \in 1..(Len(s) + 1) : x = Append(s, c)[i]
    BY <1>4, <1>5, Zenon
  <2>2. CASE i = Len(s) + 1
    BY <2>1, <2>2, <1>3, Zenon
  <2>3. CASE i # Len(s) + 1
    <3>1. i \in 1..Len(s)
      BY <2>3, <1>1
    <3> QED BY <3>1, <2>1, <1>1, <1>2, Zenon
  <2> QED BY <2>2, <2>3, Zenon
<1>6. ASSUME NEW x \in {s[i] : i \in DOMAIN s} \cup {c} PROVE x \in Of(r)
  <2>1. CASE x = c
    <3>1. Len(s) + 1 \in 1..(Len(s) + 1)
      BY <1>1
    <3> QED BY <3>1, <2>1, <1>3, <1>4, Zenon
  <2>2. CASE x # c
    <3>1. PICK i \in DOMAIN s : x = s[i]
      BY <1>6, <2>2, Zenon
    <3>2. i \in 1..(Len(s) + 1) /\ Append(s, c)[i] = x
      BY <3>1, <1>1, <1>2
    <3> QED BY <3>2, <1>4, Zenon
  <2> QED BY <2>1, <2>2, Zenon
<1> QED BY <1>5, <1>6, Zenon

\* Each callback of a well-formed request is called with the result of its own
\* call, and no other callback is called.
LEMMA ResolvedAnswers ==
  ASSUME NEW r, r.calls = r.callbacks, NEW block, NEW c \in Calls
  PROVE /\ c \in Of(r) => resolve(r, block)[c] = <<c, block>>
        /\ c \notin Of(r) => resolve(r, block)[c] = answer[c]
<1>1. c \in Of(r) <=> \E i \in DOMAIN r.callbacks : r.callbacks[i] = c
  BY Zenon DEF Of
<1>2. CASE c \notin Of(r)
  BY <1>1, <1>2, Zenon DEF resolve
<1>3. CASE c \in Of(r)
  <2> DEFINE i == CHOOSE i \in DOMAIN r.callbacks : r.callbacks[i] = c
  <2>1. i \in DOMAIN r.callbacks /\ r.callbacks[i] = c
    BY <1>1, <1>3, Zenon
  <2>2. resolve(r, block)[c] = <<r.calls[i], block>>
    BY <1>1, <1>3, Zenon DEF resolve
  <2> QED BY <2>1, <2>2, <1>3, Zenon
<1> QED BY <1>2, <1>3, Zenon

\* Every callback of a well-formed request that fails is rejected, and no other.
LEMMA RejectedAnswers ==
  ASSUME NEW r, r.calls = r.callbacks, NEW c \in Calls
  PROVE /\ c \in Of(r) => reject(r)[c] = REJECTED
        /\ c \notin Of(r) => reject(r)[c] = answer[c]
BY Zenon DEF Of, reject

-----------------------------------------------------------------------------
\* No call has been made at first.
LEMMA InitBatchIInv == Init => BatchIInv
<1> SUFFICES ASSUME Init PROVE BatchIInv
  BY Zenon
<1>1. TypeOK
  <2>1. 1 \in Blocks
    BY ConstantsAssumption DEF Blocks
  <2>2. emptyBatch \in Batches
    BY DEF emptyBatch, Batches
  <2> QED BY <2>1, <2>2, Zenon DEF Init, TypeOK, Requests
<1>2. WellFormed(batched)
  BY OfEmpty, Zenon DEF Init, WellFormed, emptyBatch
<1>3. \A c \in Calls : answer[c] = PENDING
  BY Zenon DEF Init
<1>4. \A c \in Calls : request[c].blockTag = LATEST
  BY Zenon DEF Init
<1>5. \A c \in Calls : asked[c] <= height
  <2> SUFFICES ASSUME NEW c \in Calls PROVE asked[c] <= height
    BY Zenon
  <2>1. asked[c] = height
    BY Zenon DEF Init
  <2>2. height \in Nat
    BY Zenon DEF Init
  <2> QED BY <2>1, <2>2
<1>6. AnswerIsOwn
  BY <1>3, Zenon DEF AnswerIsOwn
<1>7. sent = {}
  BY Zenon DEF Init
<1> QED BY <1>1, <1>2, <1>3, <1>4, <1>5, <1>6, <1>7, Zenon DEF BatchIInv

\* The base class makes a request of one call that was not made before.
LEMMA SingleRequest ==
  ASSUME BatchIInv, NEW c \in Calls, NEW tag \in Blocks \cup {LATEST}, state[c] # "made",
         sent' = sent \cup {[calls |-> <<c>>, callbacks |-> <<c>>, blockTag |-> tag]},
         state' = [state EXCEPT ![c] = "made"], answer' = answer, batched' = batched,
         \A d \in Calls \ {c} : request'[d] = request[d],
         request'[c].blockTag = tag
  PROVE /\ sent' \subseteq Batches
        /\ WellFormed(batched)'
        /\ (\A r \in sent : WellFormed(r))'
        /\ (\A r \in sent : Of(r) \cap Of(batched) = {})'
        /\ (\A r, q \in sent : r # q => Of(r) \cap Of(q) = {})'
<1> DEFINE new == [calls |-> <<c>>, callbacks |-> <<c>>, blockTag |-> tag]
<1>1. Of(new) = {c} /\ new \in Batches /\ new.calls = new.callbacks /\ new.blockTag = tag
  BY OfSingle DEF Batches
<1>2. \A r \in sent \cup {batched} : c \notin Of(r)
  BY Zenon DEF BatchIInv, WellFormed
<1>3. \A r \in sent \cup {batched} : Of(r) \subseteq Calls
  BY DEF BatchIInv, TypeOK, Batches, Of
<1>4. \A r \in sent \cup {batched} : WellFormed(r)'
  <2> SUFFICES ASSUME NEW r \in sent \cup {batched} PROVE WellFormed(r)'
    BY Zenon
  <2>1. WellFormed(r)
    BY Zenon DEF BatchIInv
  <2>2. \A d \in Of(r) : state'[d] = state[d] /\ request'[d] = request[d] /\ answer'[d] = answer[d]
    BY <1>2, <1>3, Zenon DEF BatchIInv, TypeOK
  <2> QED BY <2>1, <2>2, Zenon DEF WellFormed, Of
<1>5. WellFormed(new)'
  <2>1. answer[c] = PENDING /\ state'[c] = "made"
    BY Zenon DEF BatchIInv, TypeOK
  <2> QED BY <1>1, <2>1, Zenon DEF WellFormed, Of
<1>6. sent' = sent \cup {new}
  BY Zenon
<1>7. sent' \subseteq Batches
  BY <1>1, <1>6, Zenon DEF BatchIInv, TypeOK
<1>8. WellFormed(batched)' /\ (\A r \in sent : WellFormed(r))'
  BY <1>4, <1>5, <1>6, Zenon
<1>9. (\A r \in sent : Of(r) \cap Of(batched) = {})'
  <2>1. \A r \in sent \cup {new} : Of(r) \cap Of(batched) = {}
    BY <1>1, <1>2 DEF BatchIInv
  <2> QED BY <2>1, <1>6 DEF Of
<1>10. (\A r, q \in sent : r # q => Of(r) \cap Of(q) = {})'
  <2>1. \A r, q \in sent \cup {new} : r # q => Of(r) \cap Of(q) = {}
    BY <1>1, <1>2 DEF BatchIInv
  <2> QED BY <2>1, <1>6, Zenon DEF Of
<1> QED BY <1>7, <1>8, <1>9, <1>10, Zenon

\* A call joins the batch that is being collected: it asks for the block of the
\* batch, or is its first call.
LEMMA Enqueued ==
  ASSUME BatchIInv, NEW c \in Calls, state[c] = "resolving", enqueueCall(c),
         ~alreadyBatchedCallsConflictWith(request[c].blockTag),
         state' = [state EXCEPT ![c] = "made"], UNCHANGED <<request, answer, sent>>
  PROVE /\ batched' \in Batches
        /\ WellFormed(batched)'
        /\ (\A r \in sent : WellFormed(r))'
        /\ (\A r \in sent : Of(r) \cap Of(batched) = {})'
        /\ (\A r, q \in sent : r # q => Of(r) \cap Of(q) = {})'
<1>1. batched.calls \in Seq(Calls) /\ batched.callbacks = batched.calls
      /\ batched.blockTag \in Blocks \cup {LATEST}
  BY Zenon DEF BatchIInv, TypeOK, Batches, WellFormed
<1>2. request[c].blockTag \in Blocks \cup {LATEST}
  BY Zenon DEF BatchIInv, TypeOK, Requests
<1>3. batched' \in Batches /\ batched'.calls = batched'.callbacks
  BY <1>1, <1>2 DEF enqueueCall, Batches
<1>4. Of(batched') = Of(batched) \cup {c}
  <2> DEFINE k == Append(batched.callbacks, c)
             tag == IF batched.calls = <<>> THEN request[c].blockTag ELSE batched.blockTag
  <2>1. batched' = [calls |-> Append(batched.calls, c), callbacks |-> k, blockTag |-> tag]
    BY Zenon DEF enqueueCall
  <2> HIDE DEF k, tag
  <2>2. Of([calls |-> Append(batched.calls, c), callbacks |-> k, blockTag |-> tag])
          = {batched.calls[i] : i \in DOMAIN batched.calls} \cup {c}
    BY <1>1, OfAppend, Zenon
  <2> QED BY <2>1, <2>2, Zenon DEF Of
<1>5. \A r \in sent \cup {batched} : c \notin Of(r) /\ Of(r) \subseteq Calls
  BY DEF BatchIInv, WellFormed, TypeOK, Batches, Of
<1>6. \A r \in sent \cup {batched} : \A d \in Of(r) : state'[d] = "made" /\ answer'[d] = PENDING
                                                     /\ request'[d].blockTag = r.blockTag
  BY <1>5, Zenon DEF BatchIInv, TypeOK, WellFormed
<1>7. \A d \in Of(batched') : state'[d] = "made" /\ answer'[d] = PENDING
  BY <1>4, <1>6 DEF BatchIInv, TypeOK
<1>8. \A d \in Of(batched') : request'[d].blockTag = batched'.blockTag
  <2>1. CASE batched.calls = <<>>
    <3>1. Of(batched) = {}
      BY <2>1 DEF Of
    <3> QED BY <2>1, <3>1, <1>4, Zenon DEF enqueueCall
  <2>2. CASE batched.calls # <<>>
    <3>1. request[c].blockTag = batched.blockTag /\ batched'.blockTag = batched.blockTag
      BY <2>2, Zenon DEF enqueueCall, alreadyBatchedCallsConflictWith
    <3> QED BY <3>1, <1>4, <1>6, Zenon
  <2> QED BY <2>1, <2>2, Zenon
<1>9. WellFormed(batched)'
  BY <1>3, <1>7, <1>8, Zenon DEF WellFormed, Of
<1>10. (\A r \in sent : WellFormed(r))'
  <2>1. \A r \in sent : r.calls = r.callbacks
    BY Zenon DEF BatchIInv, WellFormed
  <2> QED BY <2>1, <1>6 DEF WellFormed, Of
<1>11. (\A r \in sent : Of(r) \cap Of(batched) = {})'
  <2>1. \A r \in sent : Of(r) \cap Of(batched') = {}
    BY <1>4, <1>5 DEF BatchIInv
  <2> QED BY <2>1, Zenon DEF Of
<1>12. (\A r, q \in sent : r # q => Of(r) \cap Of(q) = {})'
  BY Zenon DEF BatchIInv, Of
<1> QED BY <1>3, <1>9, <1>10, <1>11, <1>12, Zenon

\* A request leaves the node: the calls of the others are still pending.
LEMMA Settled ==
  ASSUME BatchIInv, NEW r \in sent, sent' = sent \ {r},
         UNCHANGED <<request, state, batched>>,
         \A c \in Calls : c \notin Of(r) => answer'[c] = answer[c]
  PROVE /\ WellFormed(batched)'
        /\ (\A q \in sent : WellFormed(q))'
        /\ (\A q \in sent : Of(q) \cap Of(batched) = {})'
        /\ (\A p, q \in sent : p # q => Of(p) \cap Of(q) = {})'
        /\ (\A c \in Calls : state[c] # "made" => answer[c] = PENDING)'
<1>1. \A q \in (sent \ {r}) \cup {batched} : \A c \in Of(q) : c \in Calls /\ c \notin Of(r)
  <2>1. \A q \in sent \cup {batched} : Of(q) \subseteq Calls
    BY DEF BatchIInv, TypeOK, Batches, Of
  <2>2. \A q \in (sent \ {r}) \cup {batched} : Of(q) \cap Of(r) = {}
    BY Zenon DEF BatchIInv
  <2> QED BY <2>1, <2>2, Zenon
<1>2. \A q \in (sent \ {r}) \cup {batched} : WellFormed(q)'
  <2> SUFFICES ASSUME NEW q \in (sent \ {r}) \cup {batched} PROVE WellFormed(q)'
    BY Zenon
  <2>1. WellFormed(q)
    BY Zenon DEF BatchIInv
  <2>2. \A c \in Of(q) : answer'[c] = answer[c]
    BY <1>1, Zenon
  <2> QED BY <2>1, <2>2, Zenon DEF WellFormed, Of
<1>3. WellFormed(batched)' /\ (\A q \in sent : WellFormed(q))'
  BY <1>2, Zenon
<1>4. (\A q \in sent : Of(q) \cap Of(batched) = {})'
  BY DEF BatchIInv, Of
<1>5. (\A p, q \in sent : p # q => Of(p) \cap Of(q) = {})'
  BY Zenon DEF BatchIInv, Of
<1>6. \A c \in Of(r) : state[c] = "made"
  BY Zenon DEF BatchIInv, WellFormed
<1>7. (\A c \in Calls : state[c] # "made" => answer[c] = PENDING)'
  BY <1>6, Zenon DEF BatchIInv
<1> QED BY <1>3, <1>4, <1>5, <1>7, Zenon

\* The setter of chainId, and steps that change nothing.
LEMMA Unaffected ==
  ASSUME BatchIInv, UNCHANGED <<request, state, asked, batched, timeout, sent, answer, height>>,
         multicall' \in BOOLEAN
  PROVE BatchIInv'
<1>1. TypeOK'
  BY Zenon DEF BatchIInv, TypeOK
<1>2. WellFormed(batched)'
  BY DEF BatchIInv, WellFormed, Of
<1>3. (\A r \in sent : WellFormed(r))'
  BY Zenon DEF BatchIInv, WellFormed, Of
<1>4. (\A r \in sent : Of(r) \cap Of(batched) = {})'
  BY DEF BatchIInv, Of
<1>5. (\A r, q \in sent : r # q => Of(r) \cap Of(q) = {})'
  BY Zenon DEF BatchIInv, Of
<1>6. AnswerIsOwn'
  BY Zenon DEF BatchIInv, AnswerIsOwn
<1> QED BY <1>1, <1>2, <1>3, <1>4, <1>5, <1>6, Zenon DEF BatchIInv

\* Requests are made of calls.
LEMMA OfCalls ==
  ASSUME BatchIInv
  PROVE \A r \in sent \cup {batched} : Of(r) \subseteq Calls
BY DEF BatchIInv, TypeOK, Batches, Of

\* One step of the provider, the node or a caller.
LEMMA NextBatchIInv == BatchIInv /\ [Next]_vars => BatchIInv'
<1> SUFFICES ASSUME BatchIInv, [Next]_vars PROVE BatchIInv'
  BY Zenon
<1> USE DEF Blocks
<1>h. height \in Nat /\ 1 <= height /\ height <= MAX_BLOCK /\ MAX_BLOCK \in Nat
  BY ConstantsAssumption DEF BatchIInv, TypeOK
<1>1. CASE setChainId
  BY <1>1, Unaffected, Zenon DEF setChainId
<1>2. ASSUME NEW c \in Calls, call(c) PROVE BatchIInv'
  <2>1. PICK q \in Requests : /\ q.blockTag # LATEST => q.blockTag <= height
                              /\ request' = [request EXCEPT ![c] = q]
    BY <1>2, Zenon DEF call
  <2>2. q.blockTag \in Blocks \cup {LATEST}
    BY <2>1, Zenon DEF Requests
  <2>3. state[c] = "new" /\ answer[c] = PENDING
    BY <1>2, Zenon DEF call, BatchIInv
  <2>4. request'[c] = q /\ \A d \in Calls \ {c} : request'[d] = request[d]
    BY <2>1, Zenon DEF BatchIInv, TypeOK
  <2>5. asked' = [asked EXCEPT ![c] = height] /\ UNCHANGED <<multicall, batched, timeout, answer, height>>
    BY <1>2, Zenon DEF call
  <2>6. state' \in [Calls -> {"new", "resolving", "made"}] /\ \A d \in Calls \ {c} : state'[d] = state[d]
    BY <1>2 DEF call, BatchIInv, TypeOK
  <2>7. /\ sent' \subseteq Batches
        /\ WellFormed(batched)'
        /\ (\A r \in sent : WellFormed(r))'
        /\ (\A r \in sent : Of(r) \cap Of(batched) = {})'
        /\ (\A r, p \in sent : r # p => Of(r) \cap Of(p) = {})'
    <3>1. CASE multicall
      <4>1. sent' = sent /\ state' = [state EXCEPT ![c] = "resolving"]
        BY <1>2, <3>1, Zenon DEF call
      <4>2. \A r \in sent \cup {batched} : c \notin Of(r) /\ Of(r) \subseteq Calls
        BY <2>3, OfCalls, Zenon DEF BatchIInv, WellFormed
      <4>3. \A r \in sent \cup {batched} : WellFormed(r)'
        <5> SUFFICES ASSUME NEW r \in sent \cup {batched} PROVE WellFormed(r)'
          BY Zenon
        <5>1. WellFormed(r)
          BY Zenon DEF BatchIInv
        <5>2. \A d \in Of(r) : state'[d] = state[d] /\ request'[d] = request[d] /\ answer'[d] = answer[d]
          BY <4>2, <2>4, <2>5, <2>6, Zenon
        <5> QED BY <5>1, <5>2, Zenon DEF WellFormed, Of
      <4>4. sent' \subseteq Batches
        BY <4>1, Zenon DEF BatchIInv, TypeOK
      <4>5. /\ (\A r \in sent : Of(r) \cap Of(batched) = {})'
            /\ (\A r, p \in sent : r # p => Of(r) \cap Of(p) = {})'
        <5>1. /\ \A r \in sent : Of(r) \cap Of(batched) = {}
              /\ \A r, p \in sent : r # p => Of(r) \cap Of(p) = {}
          BY Zenon DEF BatchIInv
        <5> QED BY <5>1, <4>1, <2>5 DEF Of
      <4> QED BY <4>1, <4>3, <4>4, <4>5, <2>5, Zenon
    <3>2. CASE ~multicall
      <4>1. sent' = sent \cup {[calls |-> <<c>>, callbacks |-> <<c>>, blockTag |-> q.blockTag]}
        BY <1>2, <3>2, <2>4, Zenon DEF call, superCall
      <4>2. state' = [state EXCEPT ![c] = "made"]
        BY <1>2, <3>2, Zenon DEF call
      <4> QED BY <4>1, <4>2, <2>2, <2>3, <2>4, <2>5, SingleRequest, Zenon
    <3> QED BY <3>1, <3>2, Zenon
  <2>8. TypeOK'
    BY <2>1, <2>5, <2>6, <2>7, <1>h, Zenon DEF BatchIInv, TypeOK
  <2>9. (\A d \in Calls : state[d] # "made" => answer[d] = PENDING)'
    BY <2>3, <2>5, <2>6, Zenon DEF BatchIInv
  <2>10. (\A d \in Calls : request[d].blockTag # LATEST => request[d].blockTag <= height)'
    BY <2>1, <2>4, <2>5, Zenon DEF BatchIInv
  <2>11. (\A d \in Calls : asked[d] <= height)'
    BY <2>5, <1>h DEF BatchIInv, TypeOK
  <2>12. AnswerIsOwn'
    <3> SUFFICES ASSUME NEW d \in Calls, answer[d] \notin {PENDING, REJECTED}
                 PROVE \E b \in Blocks : /\ answer'[d] = <<d, b>>
                                         /\ request'[d].blockTag = LATEST => asked'[d] <= b /\ b <= height'
                                         /\ request'[d].blockTag # LATEST => b = request'[d].blockTag
      BY <2>5, Zenon DEF AnswerIsOwn
    <3>1. d # c /\ request'[d] = request[d] /\ asked'[d] = asked[d]
      BY <2>3, <2>4, <2>5, Zenon DEF BatchIInv, TypeOK
    <3> QED BY <3>1, <2>5, Zenon DEF BatchIInv, AnswerIsOwn
  <2> QED BY <2>5, <2>7, <2>8, <2>9, <2>10, <2>11, <2>12, Zenon DEF BatchIInv
<1>3. ASSUME NEW c \in Calls, resolved(c) PROVE BatchIInv'
  <2>1. /\ state[c] = "resolving" /\ state' = [state EXCEPT ![c] = "made"]
        /\ UNCHANGED <<request, multicall, asked, answer, height>>
    BY <1>3, Zenon DEF resolved
  <2>2. request[c].blockTag \in Blocks \cup {LATEST}
    BY Zenon DEF BatchIInv, TypeOK, Requests
  <2>3. /\ sent' \subseteq Batches /\ batched' \in Batches /\ timeout' \in BOOLEAN
        /\ WellFormed(batched)'
        /\ (\A r \in sent : WellFormed(r))'
        /\ (\A r \in sent : Of(r) \cap Of(batched) = {})'
        /\ (\A r, p \in sent : r # p => Of(r) \cap Of(p) = {})'
    <3>1. CASE ~request[c].batchable \/ alreadyBatchedCallsConflictWith(request[c].blockTag)
      <4>1. UNCHANGED <<batched, timeout>>
        BY <1>3, <3>1, Zenon DEF resolved
      <4>2. sent' = sent \cup {[calls |-> <<c>>, callbacks |-> <<c>>, blockTag |-> request[c].blockTag]}
        BY <1>3, <3>1, Zenon DEF resolved, superCall
      <4>3. batched' \in Batches /\ timeout' \in BOOLEAN
        BY <4>1, Zenon DEF BatchIInv, TypeOK
      <4> QED BY <2>1, <2>2, <4>1, <4>2, <4>3, SingleRequest, Zenon
    <3>2. CASE ~(~request[c].batchable \/ alreadyBatchedCallsConflictWith(request[c].blockTag))
      <4>1. enqueueCall(c) /\ sent' = sent
        BY <1>3, <3>2, Zenon DEF resolved
      <4>2. timeout' \in BOOLEAN /\ sent' \subseteq Batches
        BY <4>1, Zenon DEF enqueueCall, BatchIInv, TypeOK
      <4> QED BY <2>1, <3>2, <4>1, <4>2, Enqueued, Zenon
    <3> QED BY <3>1, <3>2, Zenon
  <2>4. TypeOK'
    BY <2>1, <2>3, Zenon DEF BatchIInv, TypeOK
  <2>5. (\A d \in Calls : state[d] # "made" => answer[d] = PENDING)'
    BY <2>1, Zenon DEF BatchIInv, TypeOK
  <2>6. AnswerIsOwn'
    BY <2>1, Zenon DEF BatchIInv, AnswerIsOwn
  <2>7. (\A d \in Calls : asked[d] <= height)'
    BY <2>1, Zenon DEF BatchIInv
  <2>8. (\A d \in Calls : request[d].blockTag # LATEST => request[d].blockTag <= height)'
    BY <2>1, Zenon DEF BatchIInv
  <2> QED BY <2>3, <2>4, <2>5, <2>6, <2>7, <2>8, Zenon DEF BatchIInv
<1>4. CASE dispatchCalls
  <2>1. /\ sent' = sent \cup {batched} /\ batched' = emptyBatch /\ timeout' = FALSE
        /\ UNCHANGED <<request, multicall, state, asked, answer, height>>
    BY <1>4, Zenon DEF dispatchCalls
  <2>2. emptyBatch \in Batches
    BY DEF emptyBatch, Batches
  <2>3. TypeOK'
    BY <2>1, <2>2, Zenon DEF BatchIInv, TypeOK
  <2>4. \A r \in sent \cup {batched} : WellFormed(r)'
    BY <2>1 DEF BatchIInv, WellFormed, Of
  <2>5. WellFormed(batched)'
    BY <2>1, OfEmpty DEF WellFormed, emptyBatch, Of
  <2>6. (\A r \in sent : Of(r) \cap Of(batched) = {})'
    BY <2>1, OfEmpty, Zenon
  <2>7. (\A r, q \in sent : r # q => Of(r) \cap Of(q) = {})'
    <3>1. \A r, q \in sent \cup {batched} : r # q => Of(r) \cap Of(q) = {}
      BY Zenon DEF BatchIInv
    <3> QED BY <3>1, <2>1, Zenon DEF Of
  <2>8. AnswerIsOwn'
    BY <2>1, Zenon DEF BatchIInv, AnswerIsOwn
  <2>9. (\A r \in sent : WellFormed(r))'
    BY <2>1, <2>4, Zenon
  <2> QED BY <2>1, <2>3, <2>5, <2>6, <2>7, <2>8, <2>9, Zenon DEF BatchIInv
<1>5. ASSUME NEW r \in sent, nodeAnswers(r) PROVE BatchIInv'
  <2> DEFINE block == IF r.blockTag = LATEST THEN height ELSE r.blockTag
  <2>1. /\ sent' = sent \ {r} /\ answer' = resolve(r, block)
        /\ UNCHANGED <<request, multicall, state, asked, batched, timeout, height>>
    BY <1>5, Zenon DEF nodeAnswers
  <2>2. block \in Blocks
    BY Zenon DEF BatchIInv, TypeOK, Batches
  <2>3. r.calls = r.callbacks
    BY Zenon DEF BatchIInv, WellFormed
  <2> HIDE DEF block
  <2>4. \A c \in Calls : /\ c \in Of(r) => answer'[c] = <<c, block>>
                         /\ c \notin Of(r) => answer'[c] = answer[c]
    BY <2>1, <2>3, ResolvedAnswers, Zenon
  <2>5. /\ WellFormed(batched)'
        /\ (\A q \in sent : WellFormed(q))'
        /\ (\A q \in sent : Of(q) \cap Of(batched) = {})'
        /\ (\A p, q \in sent : p # q => Of(p) \cap Of(q) = {})'
        /\ (\A c \in Calls : state[c] # "made" => answer[c] = PENDING)'
    BY <2>1, <2>4, Settled, Zenon
  <2>6. TypeOK'
    <3>1. answer' \in [Calls -> {PENDING, REJECTED} \cup (Calls \X Blocks)]
      <4>1. answer' = [c \in Calls |-> answer'[c]]
        BY <2>1, Zenon DEF resolve
      <4>2. \A c \in Calls : answer'[c] \in {PENDING, REJECTED} \cup (Calls \X Blocks)
        <5> HIDE DEF Blocks
        <5>1. \A c \in Calls : <<c, block>> \in Calls \X Blocks
          BY <2>2, Zenon
        <5>2. \A c \in Calls : answer[c] \in {PENDING, REJECTED} \cup (Calls \X Blocks)
          BY Zenon DEF BatchIInv, TypeOK
        <5> QED BY <5>1, <5>2, <2>4, Zenon
      <4> QED BY <4>1, <4>2, Zenon
    <3> QED BY <2>1, <3>1, Zenon DEF BatchIInv, TypeOK
  <2>7. AnswerIsOwn'
    <3> SUFFICES ASSUME NEW c \in Calls, answer'[c] \notin {PENDING, REJECTED}
                 PROVE \E b \in Blocks : /\ answer'[c] = <<c, b>>
                                         /\ request[c].blockTag = LATEST => asked[c] <= b /\ b <= height
                                         /\ request[c].blockTag # LATEST => b = request[c].blockTag
      BY <2>1, Zenon DEF AnswerIsOwn
    <3>1. CASE c \notin Of(r)
      BY <2>4, <3>1, Zenon DEF BatchIInv, AnswerIsOwn
    <3>2. CASE c \in Of(r)
      <4>1. request[c].blockTag = r.blockTag
        BY <3>2, Zenon DEF BatchIInv, WellFormed
      <4>2. asked[c] <= height
        BY Zenon DEF BatchIInv
      <4>3. request[c].blockTag = LATEST => asked[c] <= block /\ block <= height
        <5>1. request[c].blockTag = LATEST => block = height
          BY <4>1, Zenon DEF block
        <5> QED BY <5>1, <4>2, <1>h
      <4>4. request[c].blockTag # LATEST => block = request[c].blockTag
        BY <4>1, Zenon DEF block
      <4> QED BY <2>2, <2>4, <3>2, <4>3, <4>4, Zenon
    <3> QED BY <3>1, <3>2, Zenon
  <2>8. (\A d \in Calls : asked[d] <= height)'
    BY <2>1, Zenon DEF BatchIInv
  <2>9. (\A d \in Calls : request[d].blockTag # LATEST => request[d].blockTag <= height)'
    BY <2>1, Zenon DEF BatchIInv
  <2> QED BY <2>5, <2>6, <2>7, <2>8, <2>9, Zenon DEF BatchIInv
<1>6. ASSUME NEW r \in sent, nodeFails(r) PROVE BatchIInv'
  <2>1. /\ sent' = sent \ {r} /\ answer' = reject(r)
        /\ UNCHANGED <<request, multicall, state, asked, batched, timeout, height>>
    BY <1>6, Zenon DEF nodeFails
  <2>2. r.calls = r.callbacks
    BY DEF BatchIInv, WellFormed
  <2>3. \A c \in Calls : /\ c \in Of(r) => answer'[c] = REJECTED
                         /\ c \notin Of(r) => answer'[c] = answer[c]
    BY <2>1, <2>2, RejectedAnswers, Zenon
  <2>4. /\ WellFormed(batched)'
        /\ (\A q \in sent : WellFormed(q))'
        /\ (\A q \in sent : Of(q) \cap Of(batched) = {})'
        /\ (\A p, q \in sent : p # q => Of(p) \cap Of(q) = {})'
        /\ (\A c \in Calls : state[c] # "made" => answer[c] = PENDING)'
    BY <2>1, <2>3, Settled, Zenon
  <2>5. TypeOK'
    <3>1. answer' \in [Calls -> {PENDING, REJECTED} \cup (Calls \X Blocks)]
      <4>1. answer' = [c \in Calls |-> answer'[c]]
        BY <2>1, Zenon DEF reject
      <4>2. \A c \in Calls : answer'[c] \in {PENDING, REJECTED} \cup (Calls \X Blocks)
        BY <2>3, Zenon DEF BatchIInv, TypeOK
      <4> QED BY <4>1, <4>2
    <3> QED BY <2>1, <3>1, Zenon DEF BatchIInv, TypeOK
  <2>6. AnswerIsOwn'
    BY <2>1, <2>3, Zenon DEF BatchIInv, AnswerIsOwn
  <2>7. (\A d \in Calls : asked[d] <= height)'
    BY <2>1, Zenon DEF BatchIInv
  <2>8. (\A d \in Calls : request[d].blockTag # LATEST => request[d].blockTag <= height)'
    BY <2>1, Zenon DEF BatchIInv
  <2> QED BY <2>4, <2>5, <2>6, <2>7, <2>8 DEF BatchIInv
<1>7. CASE newBlock
  <2>1. /\ height' = height + 1 /\ height < MAX_BLOCK
        /\ UNCHANGED <<request, multicall, state, asked, batched, timeout, sent, answer>>
    BY <1>7, Zenon DEF newBlock
  <2>2. TypeOK'
    BY <2>1, <1>h DEF BatchIInv, TypeOK
  <2>3. /\ WellFormed(batched)'
        /\ (\A q \in sent : WellFormed(q))'
    BY <2>1 DEF BatchIInv, WellFormed, Of
  <2>4. /\ (\A q \in sent : Of(q) \cap Of(batched) = {})'
        /\ (\A p, q \in sent : p # q => Of(p) \cap Of(q) = {})'
    <3>1. /\ \A q \in sent : Of(q) \cap Of(batched) = {}
          /\ \A p, q \in sent : p # q => Of(p) \cap Of(q) = {}
      BY Zenon DEF BatchIInv
    <3> QED BY <3>1, <2>1 DEF Of
  <2>5. (\A d \in Calls : asked[d] <= height)'
    BY <2>1, <1>h DEF BatchIInv, TypeOK
  <2>6. (\A d \in Calls : request[d].blockTag # LATEST => request[d].blockTag <= height)'
    <3>1. \A d \in Calls : request[d].blockTag \in Blocks \cup {LATEST}
      BY Zenon DEF BatchIInv, TypeOK, Requests
    <3> QED BY <2>1, <1>h, <3>1 DEF BatchIInv
  <2>7. AnswerIsOwn'
    <3> SUFFICES ASSUME NEW c \in Calls, answer[c] \notin {PENDING, REJECTED}
                 PROVE \E b \in Blocks : /\ answer[c] = <<c, b>>
                                         /\ request[c].blockTag = LATEST => asked[c] <= b /\ b <= height'
                                         /\ request[c].blockTag # LATEST => b = request[c].blockTag
      BY <2>1, Zenon DEF AnswerIsOwn
    <3>1. PICK b \in Blocks : /\ answer[c] = <<c, b>>
                              /\ request[c].blockTag = LATEST => asked[c] <= b /\ b <= height
                              /\ request[c].blockTag # LATEST => b = request[c].blockTag
      BY Zenon DEF BatchIInv, AnswerIsOwn
    <3>2. b <= height => b <= height'
      BY <2>1, <1>h
    <3> QED BY <3>1, <3>2, Zenon
  <2>8. (\A c \in Calls : state[c] # "made" => answer[c] = PENDING)'
    BY <2>1, Zenon DEF BatchIInv
  <2> QED BY <2>2, <2>3, <2>4, <2>5, <2>6, <2>7, <2>8, Zenon DEF BatchIInv
<1>8. CASE UNCHANGED vars
  <2>1. UNCHANGED <<request, state, asked, batched, timeout, sent, answer, height>> /\ multicall' \in BOOLEAN
    BY <1>8, Zenon DEF vars, BatchIInv, TypeOK
  <2> QED BY <2>1, Unaffected, Zenon
<1> QED BY <1>1, <1>2, <1>3, <1>4, <1>5, <1>6, <1>7, <1>8, Zenon DEF Next

-----------------------------------------------------------------------------
\* For any number of calls and blocks: a resolved call has its own result, at
\* the block it asked for (Batched.call, _enqueueCall and _dispatchCalls).
THEOREM AnswersAreOwn == Spec => []AnswerIsOwn
<1>1. BatchIInv => AnswerIsOwn
  BY Zenon DEF BatchIInv
<1> QED BY <1>1, InitBatchIInv, NextBatchIInv, PTL DEF Spec

\* For any number of calls and blocks: _dispatchCalls calls the callbacks of a
\* call at most once.
THEOREM CallbacksCalledOnce == Spec => SettledOnce
<1>1. BatchIInv /\ [Next]_vars => [\A c \in Calls : answer[c] # PENDING => answer'[c] = answer[c]]_vars
  <2> SUFFICES ASSUME BatchIInv, Next, NEW c \in Calls, answer[c] # PENDING PROVE answer'[c] = answer[c]
    BY Zenon DEF vars
  <2>1. CASE UNCHANGED answer
    BY <2>1, Zenon
  <2>2. ASSUME NEW r \in sent, nodeAnswers(r) PROVE answer'[c] = answer[c]
    <3>1. r.calls = r.callbacks /\ c \notin Of(r)
      BY Zenon DEF BatchIInv, WellFormed
    <3> QED BY <2>2, <3>1, ResolvedAnswers DEF nodeAnswers
  <2>3. ASSUME NEW r \in sent, nodeFails(r) PROVE answer'[c] = answer[c]
    <3>1. r.calls = r.callbacks /\ c \notin Of(r)
      BY DEF BatchIInv, WellFormed
    <3> QED BY <2>3, <3>1, RejectedAnswers, Zenon DEF nodeFails
  <2> QED BY <2>1, <2>2, <2>3, Zenon DEF Next, setChainId, call, resolved, dispatchCalls, newBlock
<1> QED BY <1>1, InitBatchIInv, NextBatchIInv, PTL DEF Spec, SettledOnce
-----------------------------------------------------------------------------
(* Sockets *)

\* The strengthening of ListenersHaveTheirSource that is inductive: the present
\* socket is alive, and only sockets that are alive are listened to, so that a
\* new one is not.
SocketIInv ==
  /\ Socket!Assumptions
  /\ socket \in [Sockets -> {"none", "connecting", "open", "closed"}]
  /\ wsProvider \in Sockets \cup {NULL}
  /\ wsProvider # NULL => socket[wsProvider] \in {"connecting", "open"}
  /\ \A s \in Sockets \cap attached : socket[s] \in {"connecting", "open"}
  /\ Socket!ListenersHaveTheirSource

\* Opening a socket: _switchover leaves the base provider for it.
LEMMA OpenKeeps ==
  ASSUME SocketIInv, NEW s \in Sockets, Socket!openWebSocket(s), listeners' = listeners
  PROVE SocketIInv'
<1>1. socket' = [socket EXCEPT ![s] = "connecting"] /\ wsProvider' = s /\ attached' = Socket!switched(s)
  BY Zenon DEF Socket!openWebSocket
<1>2. s \notin attached /\ s # NULL /\ s # BASE
  BY Zenon DEF Socket!openWebSocket, SocketIInv, Socket!Assumptions
<1>3. attached' \subseteq attached \cup {s}
  BY <1>1, <1>2, Zenon DEF Socket!switched, Socket!Source
<1>4. \A r \in Sockets \cap attached' : socket'[r] \in {"connecting", "open"}
  BY <1>1, <1>3, Zenon DEF SocketIInv
<1>5. Socket!ListenersHaveTheirSource'
  <2>1. CASE listeners = {}
    <3>1. attached' = attached
      BY <1>1, <2>1, Zenon DEF Socket!switched
    <3>2. BASE \notin attached
      BY <2>1, Zenon DEF SocketIInv, Socket!ListenersHaveTheirSource, Socket!Source
    <3> QED
      BY <1>1, <1>2, <2>1, <3>1, <3>2, Zenon DEF Socket!ListenersHaveTheirSource, Socket!Source
  <2>2. CASE listeners # {}
    <3>1. attached' = (attached \ {BASE}) \cup {s}
      BY <1>1, <1>2, <2>2, Zenon DEF Socket!switched, Socket!Source
    <3> QED
      BY <1>1, <1>2, <2>2, <3>1, Zenon DEF Socket!ListenersHaveTheirSource, Socket!Source
  <2> QED
    BY <2>1, <2>2, Zenon
<1> QED
  BY <1>1, <1>4, <1>5, Zenon DEF SocketIInv

\* Closing the present socket, and one that the other side has closed: back to
\* the base provider.
LEMMA CloseKeeps ==
  ASSUME SocketIInv, NEW gone \in SUBSET Sockets, wsProvider # NULL, Socket!closeWebSocket(gone),
         listeners' = listeners
  PROVE SocketIInv'
<1> DEFINE shut == gone \cup {wsProvider}
<1>1. /\ socket' = [s \in Sockets |-> IF s \in shut THEN "closed" ELSE socket[s]]
      /\ wsProvider' = NULL
      /\ attached' = Socket!switched(NULL) \ shut
  BY Zenon DEF Socket!closeWebSocket
<1>2. BASE \notin shut
  BY Zenon DEF SocketIInv, Socket!Assumptions
<1>3. BASE \notin attached
  BY Zenon DEF SocketIInv, Socket!ListenersHaveTheirSource
<1>4. Socket!switched(NULL) = IF listeners = {} THEN attached ELSE attached \cup {BASE}
  BY Zenon DEF Socket!switched, Socket!Source
<1>5. \A s \in Sockets \cap attached' : socket'[s] \in {"connecting", "open"}
  BY <1>1, <1>4, Zenon DEF SocketIInv, Socket!Assumptions
<1>6. Socket!ListenersHaveTheirSource'
  BY <1>1, <1>2, <1>3, <1>4, Zenon DEF Socket!ListenersHaveTheirSource, Socket!Source
<1> HIDE DEF shut
<1>7. socket' \in [Sockets -> {"none", "connecting", "open", "closed"}]
  BY <1>1, Zenon DEF SocketIInv
<1> QED
  BY <1>1, <1>5, <1>6, <1>7, Zenon DEF SocketIInv

\* Listeners come: the first one attaches the present source.
LEMMA AddKeeps ==
  ASSUME SocketIInv, NEW l, Socket!addBlockListener(l), UNCHANGED <<socket, wsProvider>>
  PROVE SocketIInv'
BY Zenon DEF Socket!addBlockListener, SocketIInv, Socket!Assumptions,
       Socket!ListenersHaveTheirSource, Socket!Source

\* Listeners go: the last one detaches it.
LEMMA RemoveKeeps ==
  ASSUME SocketIInv, NEW l \in listeners, Socket!removeBlockListener(l), UNCHANGED <<socket, wsProvider>>
  PROVE SocketIInv'
BY Zenon DEF Socket!removeBlockListener, SocketIInv, Socket!ListenersHaveTheirSource,
       Socket!Source

\* What leaves the sockets, the listeners and the sources alone.
LEMMA RestKeeps ==
  ASSUME SocketIInv, UNCHANGED <<socket, wsProvider, attached, listeners>>
  PROVE SocketIInv'
BY Zenon DEF SocketIInv, Socket!ListenersHaveTheirSource, Socket!Source
-----------------------------------------------------------------------------
\* Every step keeps the invariant.
LEMMA NextSocketIInv == SocketIInv /\ [Socket!Next]_(Socket!vars) => SocketIInv'
<1> SUFFICES ASSUME SocketIInv, [Socket!Next]_(Socket!vars) PROVE SocketIInv'
  OBVIOUS
<1>1. CASE Socket!effectOpens
  BY <1>1, OpenKeeps, Zenon DEF Socket!effectOpens
<1>2. CASE Socket!effectCloses
  <2>1. CASE wsProvider # NULL
    BY <1>2, <2>1, CloseKeeps, Zenon DEF Socket!effectCloses
  <2>2. CASE wsProvider = NULL
    BY <1>2, <2>2, RestKeeps, Zenon DEF Socket!effectCloses
  <2> QED
    BY <2>1, <2>2, Zenon
<1>3. ASSUME NEW s \in Sockets, Socket!socketOpens(s) PROVE SocketIInv'
  BY <1>3, Zenon DEF Socket!socketOpens, SocketIInv, Socket!ListenersHaveTheirSource, Socket!Source
<1>4. ASSUME NEW s \in Sockets, Socket!onWebSocketClose(s) PROVE SocketIInv'
  <2>1. CASE wsProvider # NULL
    BY <1>4, <2>1, CloseKeeps, Zenon DEF Socket!onWebSocketClose
  <2>2. CASE wsProvider = NULL
    <3>1. /\ socket' = [socket EXCEPT ![s] = "closed"]
          /\ attached' = attached \ {s}
          /\ UNCHANGED <<wsProvider, listeners>>
      BY <1>4, <2>2, Zenon DEF Socket!onWebSocketClose
    <3> QED
      BY <2>2, <3>1, Zenon DEF SocketIInv, Socket!Assumptions, Socket!ListenersHaveTheirSource,
                        Socket!Source
  <2> QED
    BY <2>1, <2>2, Zenon
<1>5. CASE Socket!reconnects
  BY <1>5, OpenKeeps, Zenon DEF Socket!reconnects
<1>6. ASSUME NEW src \in Socket!Sources, Socket!onBlock(src) PROVE SocketIInv'
  BY <1>6, RestKeeps, Zenon DEF Socket!onBlock, Socket!connection
<1>7. CASE Socket!callListeners
  <2>1. CASE "waiter" \in listeners
    BY <1>7, <2>1, RemoveKeeps, Zenon DEF Socket!callListeners, Socket!connection
  <2>2. CASE "waiter" \notin listeners
    BY <1>7, <2>2, RestKeeps, Zenon DEF Socket!callListeners, Socket!connection
  <2> QED
    BY <2>1, <2>2, Zenon
<1>8. CASE Socket!storeListens
  BY <1>8, AddKeeps, Zenon DEF Socket!storeListens, Socket!connection
<1>9. CASE Socket!storeStops
  BY <1>9, RemoveKeeps, Zenon DEF Socket!storeStops, Socket!connection
<1>10. CASE Socket!askReceipt
  BY <1>10, RestKeeps, Zenon DEF Socket!askReceipt, Socket!connection
<1>11. CASE Socket!receiptArrives
  <2>1. UNCHANGED <<socket, wsProvider>>
    BY <1>11, Zenon DEF Socket!receiptArrives, Socket!connection
  <2>2. UNCHANGED <<listeners, attached>> \/ Socket!addBlockListener("waiter")
    BY <1>11, Zenon DEF Socket!receiptArrives
  <2> QED
    BY <2>1, <2>2, RestKeeps, AddKeeps, Zenon
<1>12. CASE Socket!newBlock
  BY <1>12, RestKeeps, Zenon DEF Socket!newBlock, Socket!connection
<1>13. CASE Socket!catchUp
  BY <1>13, RestKeeps, Zenon DEF Socket!catchUp, Socket!connection
<1>14. CASE UNCHANGED Socket!vars
  BY <1>14, RestKeeps, Zenon DEF Socket!vars, Socket!connection
<1> QED
  BY <1>1, <1>2, <1>3, <1>4, <1>5, <1>6, <1>7, <1>8, <1>9, <1>10, <1>11, <1>12, <1>13,
     <1>14, Zenon
  DEF Socket!Next

\* Through any sequence of openings, closings, reconnections and changes of
\* listeners, _switchover and the block listeners leave blocks coming from the
\* present source exactly while somebody listens.
THEOREM BlocksComeFromTheSource ==
  ASSUME Socket!Assumptions
  PROVE Socket!Spec => []Socket!ListenersHaveTheirSource
<1>1. Socket!Init => SocketIInv
  BY Zenon DEF Socket!Init, SocketIInv, Socket!ListenersHaveTheirSource, Socket!Source
<1>2. SocketIInv /\ [Socket!Next]_(Socket!vars) => SocketIInv'
  BY NextSocketIInv, Zenon
<1>3. SocketIInv => Socket!ListenersHaveTheirSource
  BY Zenon DEF SocketIInv
<1> QED
  BY <1>1, <1>2, <1>3, PTL DEF Socket!Spec
-----------------------------------------------------------------------------
Alive == {s \in Sockets : socket[s] \in {"connecting", "open"}}

\* The strengthening of SocketsDoNotLeak that is inductive: the timer of
\* _onWebSocketClose only runs between two sockets of the same page.
LeakInv ==
  /\ Socket!Assumptions
  /\ socket \in [Sockets -> {"none", "connecting", "open", "closed"}]
  /\ wsProvider \in Sockets \cup {NULL}
  /\ effect \in BOOLEAN /\ missed \in BOOLEAN /\ reconnect \in BOOLEAN
  /\ ~missed => /\ Alive = {wsProvider} \ {NULL}
                /\ wsProvider # NULL => effect
                /\ reconnect => effect /\ wsProvider = NULL

\* A socket that is opened is the only one alive when none was.
LEMMA OpenIsAlive ==
  ASSUME LeakInv, NEW s \in Sockets, Socket!openWebSocket(s)
  PROVE /\ socket' \in [Sockets -> {"none", "connecting", "open", "closed"}]
        /\ wsProvider' = s /\ s # NULL
        /\ Alive' = Alive \cup {s}
BY Zenon DEF Socket!openWebSocket, LeakInv, Socket!Assumptions, Alive

\* closeWebSocket leaves none of the sockets it is to close alive.
LEMMA ClosedIsNotAlive ==
  ASSUME LeakInv, NEW gone \in SUBSET Sockets, Socket!closeWebSocket(gone)
  PROVE /\ socket' \in [Sockets -> {"none", "connecting", "open", "closed"}]
        /\ wsProvider' = NULL
        /\ Alive' = Alive \ (gone \cup {wsProvider})
<1> DEFINE shut == gone \cup {wsProvider}
<1>1. socket' = [s \in Sockets |-> IF s \in shut THEN "closed" ELSE socket[s]] /\ wsProvider' = NULL
  BY Zenon DEF Socket!closeWebSocket
<1> HIDE DEF shut
<1>2. socket' \in [Sockets -> {"none", "connecting", "open", "closed"}]
  BY <1>1, Zenon DEF LeakInv
<1>3. Alive' = Alive \ shut
  BY <1>1, Zenon DEF Alive
<1> QED
  BY <1>1, <1>2, <1>3, Zenon DEF shut

\* Every step keeps the sockets and the timer with the page.
LEMMA NextLeakInv == LeakInv /\ [Socket!Next]_(Socket!vars) => LeakInv'
<1> SUFFICES ASSUME LeakInv, [Socket!Next]_(Socket!vars) PROVE LeakInv'
  OBVIOUS
<1>1. CASE Socket!effectOpens
  <2>1. PICK s \in Sockets : Socket!openWebSocket(s)
    BY <1>1, Zenon DEF Socket!effectOpens
  <2> QED
    BY <1>1, <2>1, OpenIsAlive, Zenon DEF Socket!effectOpens, LeakInv
<1>2. CASE Socket!effectCloses
  <2>1. CASE wsProvider # NULL
    <3>1. Socket!closeWebSocket({}) /\ reconnect' = FALSE /\ effect' = FALSE /\ missed' = missed
      BY <1>2, <2>1, Zenon DEF Socket!effectCloses
    <3>2. /\ socket' \in [Sockets -> {"none", "connecting", "open", "closed"}]
          /\ wsProvider' = NULL
          /\ Alive' = Alive \ {wsProvider}
      BY <3>1, ClosedIsNotAlive
    <3> QED
      BY <3>1, <3>2, Zenon DEF LeakInv
  <2>2. CASE wsProvider = NULL
    <3>1. effect' = FALSE /\ missed' = (missed \/ reconnect) /\ UNCHANGED <<socket, wsProvider, reconnect>>
      BY <1>2, <2>2, Zenon DEF Socket!effectCloses
    <3> QED
      BY <2>2, <3>1, Zenon DEF LeakInv, Alive
  <2> QED
    BY <2>1, <2>2
<1>3. ASSUME NEW s \in Sockets, Socket!socketOpens(s) PROVE LeakInv'
  <2>1. Alive' = Alive
    BY <1>3, Zenon DEF Socket!socketOpens, LeakInv, Alive
  <2> QED
    BY <1>3, <2>1, Zenon DEF Socket!socketOpens, LeakInv
<1>4. ASSUME NEW s \in Sockets, Socket!onWebSocketClose(s) PROVE LeakInv'
  <2>1. s \in Alive
    BY <1>4, Zenon DEF Socket!onWebSocketClose, Alive
  <2>2. reconnect' = TRUE /\ UNCHANGED <<effect, missed>>
    BY <1>4, Zenon DEF Socket!onWebSocketClose
  <2>3. CASE wsProvider # NULL
    <3>1. /\ socket' \in [Sockets -> {"none", "connecting", "open", "closed"}]
          /\ wsProvider' = NULL
          /\ Alive' = Alive \ ({s} \cup {wsProvider})
      BY <1>4, <2>3, ClosedIsNotAlive, Zenon DEF Socket!onWebSocketClose
    <3> QED
      BY <2>1, <2>2, <3>1, Zenon DEF LeakInv
  <2>4. CASE wsProvider = NULL
    <3>1. socket' = [socket EXCEPT ![s] = "closed"] /\ wsProvider' = wsProvider
      BY <1>4, <2>4, Zenon DEF Socket!onWebSocketClose
    <3>2. missed
      BY <2>1, <2>4, Zenon DEF LeakInv
    <3> QED
      BY <2>2, <3>1, <3>2, Zenon DEF LeakInv
  <2> QED
    BY <2>3, <2>4
<1>5. CASE Socket!reconnects
  <2>1. PICK s \in Sockets : Socket!openWebSocket(s)
    BY <1>5, Zenon DEF Socket!reconnects
  <2> QED
    BY <1>5, <2>1, OpenIsAlive, Zenon DEF Socket!reconnects, LeakInv
<1>6. CASE UNCHANGED Socket!connection
  BY <1>6, Zenon DEF Socket!connection, LeakInv, Alive
<1> QED
  BY <1>1, <1>2, <1>3, <1>4, <1>5, <1>6, Zenon
  DEF Socket!Next, Socket!vars, Socket!onBlock, Socket!callListeners,
      Socket!storeListens, Socket!storeStops, Socket!askReceipt, Socket!receiptArrives,
      Socket!newBlock, Socket!catchUp

\* Opening, closing, reconnecting and refusals by the other side leave at most
\* one socket alive, and none after the page has called closeWebSocket, unless
\* that call came while only the reconnection timer was left.
THEOREM SocketsStayWithThePage ==
  ASSUME Socket!Assumptions
  PROVE Socket!Spec => []Socket!SocketsDoNotLeak
<1>1. Socket!Init => LeakInv
  BY Zenon DEF Socket!Init, LeakInv, Alive
<1>2. LeakInv /\ [Socket!Next]_(Socket!vars) => LeakInv'
  BY NextLeakInv
<1>3. LeakInv => Socket!SocketsDoNotLeak
  BY Zenon DEF LeakInv, Socket!SocketsDoNotLeak, Alive
<1> QED
  BY <1>1, <1>2, <1>3, PTL DEF Socket!Spec
-----------------------------------------------------------------------------
\* The strengthening of ReceiptIsFresh that is inductive: a receipt in hand is
\* that of a block that is not ahead of the chain, and one that was returned
\* was confirmed and not older than the block that was waited for.
WaiterInv ==
  /\ Socket!Assumptions
  /\ height \in Nat /\ behind \in Nat /\ behind <= height
  /\ txBlock \in Nat \cup {NULL}
  /\ seenBlock \in Nat /\ emitted \in [Socket!Sources -> Nat]
  /\ waiter \in [at : {"ask", "answer", "block", "done"}, latestBlock : Nat \cup {NULL},
                 receipt : Int \cup {NULL}, of : Nat]
  /\ waiter.receipt # NULL => /\ txBlock # NULL
                              /\ waiter.receipt = waiter.of - txBlock + 1
                              /\ waiter.of <= height
  /\ waiter.at = "done" => Socket!confirmed /\ ~Socket!glitch

\* A transaction that has a block keeps it, and the chain only grows.
LEMMA ChainKeeps ==
  ASSUME WaiterInv, Socket!newBlock \/ Socket!catchUp
  PROVE WaiterInv'
<1>1. /\ waiter' = waiter /\ UNCHANGED <<seenBlock, emitted>>
      /\ height' \in Nat /\ height <= height' /\ behind' \in Nat /\ behind' <= height'
      /\ txBlock' \in Nat \cup {NULL} /\ (txBlock # NULL => txBlock' = txBlock)
  BY DEF WaiterInv, Socket!newBlock, Socket!catchUp, Socket!blocks
<1>2. waiter.at = "done" => Socket!confirmed' /\ ~Socket!glitch'
  BY <1>1, Zenon DEF WaiterInv, Socket!confirmed, Socket!glitch
<1> QED
  BY <1>1, <1>2 DEF WaiterInv

\* What leaves the waiter and the chain alone, but for the blocks reported.
LEMMA ReportKeeps ==
  ASSUME WaiterInv, UNCHANGED <<waiter, Socket!node>>, seenBlock' \in Nat,
         emitted' \in [Socket!Sources -> Nat]
  PROVE WaiterInv'
BY Zenon DEF WaiterInv, Socket!node, Socket!confirmed, Socket!glitch

\* Every step keeps the receipt in hand true.
LEMMA NextWaiterInv == WaiterInv /\ [Socket!Next]_(Socket!vars) => WaiterInv'
<1> SUFFICES ASSUME WaiterInv, [Socket!Next]_(Socket!vars) PROVE WaiterInv'
  OBVIOUS
<1>1. ASSUME NEW s \in Sockets, Socket!socketOpens(s) PROVE WaiterInv'
  <2>1. UNCHANGED <<waiter, Socket!node, seenBlock>> /\ emitted' = [emitted EXCEPT ![s] = height]
    BY <1>1, Zenon DEF Socket!socketOpens
  <2>2. emitted' \in [Socket!Sources -> Nat] /\ seenBlock' \in Nat
    BY <2>1, Zenon DEF WaiterInv
  <2> QED
    BY <2>1, <2>2, ReportKeeps, Zenon
<1>2. ASSUME NEW src \in Socket!Sources, Socket!onBlock(src) PROVE WaiterInv'
  <2>1. PICK b \in (emitted[src] + 1 .. height) \cup ({MAX_BLOCK} \cap {height}) :
            emitted' = [emitted EXCEPT ![src] = b] /\ seenBlock' = b
    BY <1>2, Zenon DEF Socket!onBlock
  <2>2. b \in Nat
    BY DEF WaiterInv, Socket!Assumptions
  <2>3. UNCHANGED <<waiter, Socket!node>> /\ seenBlock' \in Nat /\ emitted' \in [Socket!Sources -> Nat]
    BY <1>2, <2>1, <2>2, Zenon DEF Socket!onBlock, WaiterInv
  <2> QED
    BY <2>3, ReportKeeps, Zenon
<1>3. CASE Socket!callListeners
  <2>1. UNCHANGED <<Socket!node, seenBlock, emitted>>
    BY <1>3, Zenon DEF Socket!callListeners
  <2>2. CASE "waiter" \in listeners
    <3>1. waiter' = [waiter EXCEPT !.at = "ask", !.latestBlock = seenBlock]
      BY <1>3, <2>2, Zenon DEF Socket!callListeners
    <3> QED
      BY <2>1, <3>1, Zenon DEF WaiterInv, Socket!node
  <2>3. CASE "waiter" \notin listeners
    BY <1>3, <2>1, <2>3, ReportKeeps, Zenon DEF Socket!callListeners, WaiterInv
  <2> QED
    BY <2>2, <2>3
<1>4. CASE Socket!askReceipt
  <2>1. PICK b \in {behind, height} :
            waiter' = [waiter EXCEPT !.at = "answer", !.receipt = Socket!Receipt(b), !.of = b]
    BY <1>4, Zenon DEF Socket!askReceipt
  <2>2. UNCHANGED <<Socket!node, seenBlock, emitted>>
    BY <1>4, Zenon DEF Socket!askReceipt, Socket!blocks
  <2>3. /\ Socket!Receipt(b) \in Int \cup {NULL}
        /\ Socket!Receipt(b) # NULL => txBlock # NULL /\ Socket!Receipt(b) = b - txBlock + 1
    BY DEF Socket!Receipt, WaiterInv
  <2>4. b \in Nat /\ b <= height
    BY DEF WaiterInv
  <2>5. /\ waiter' \in [at : {"ask", "answer", "block", "done"}, latestBlock : Nat \cup {NULL},
                       receipt : Int \cup {NULL}, of : Nat]
        /\ waiter'.at = "answer" /\ waiter'.receipt = Socket!Receipt(b) /\ waiter'.of = b
    BY <2>1, <2>3, <2>4, Zenon DEF WaiterInv
  <2> QED
    BY <2>2, <2>3, <2>4, <2>5, Zenon DEF WaiterInv, Socket!node
<1>5. CASE Socket!receiptArrives
  <2>1. UNCHANGED <<Socket!node, seenBlock, emitted>> /\ waiter.at = "answer"
    BY <1>5, Zenon DEF Socket!receiptArrives, Socket!blocks
  <2>2. \/ waiter' = [waiter EXCEPT !.at = "ask"]
        \/ waiter' = [waiter EXCEPT !.at = "block"]
        \/ waiter' = [waiter EXCEPT !.at = "done"] /\ Socket!confirmed /\ ~Socket!glitch
    BY <1>5, Zenon DEF Socket!receiptArrives
  <2>3. waiter'.at = "done" => Socket!confirmed' /\ ~Socket!glitch'
    BY <2>1, <2>2, Zenon DEF WaiterInv, Socket!confirmed, Socket!glitch, Socket!node
  <2>4. /\ waiter' \in [at : {"ask", "answer", "block", "done"}, latestBlock : Nat \cup {NULL},
                       receipt : Int \cup {NULL}, of : Nat]
        /\ waiter'.receipt = waiter.receipt /\ waiter'.of = waiter.of
    BY <2>2, Zenon DEF WaiterInv
  <2> QED
    BY <2>1, <2>3, <2>4, Zenon DEF WaiterInv, Socket!node
<1>6. CASE Socket!newBlock \/ Socket!catchUp
  BY <1>6, ChainKeeps, Zenon
<1>7. CASE UNCHANGED <<waiter, Socket!node, Socket!blocks>>
  BY <1>7, ReportKeeps, Zenon DEF Socket!blocks, WaiterInv
<1> QED
  BY <1>1, <1>2, <1>3, <1>4, <1>5, <1>6, <1>7, Zenon
  DEF Socket!Next, Socket!vars, Socket!effectOpens, Socket!effectCloses,
      Socket!onWebSocketClose, Socket!reconnects, Socket!storeListens, Socket!storeStops

\* waitForTransaction only returns a receipt that has the confirmations it was
\* asked for, and one no older than the last block it was told of, although its
\* questions are answered by nodes that are behind.
THEOREM ReceiptsAreFresh ==
  ASSUME Socket!Assumptions
  PROVE Socket!Spec => []Socket!ReceiptIsFresh
<1>1. Socket!Init => WaiterInv
  BY DEF Socket!Init, WaiterInv, Socket!Assumptions
<1>2. WaiterInv /\ [Socket!Next]_(Socket!vars) => WaiterInv'
  BY NextWaiterInv
<1>3. WaiterInv => Socket!ReceiptIsFresh
  BY DEF WaiterInv, Socket!ReceiptIsFresh, Socket!confirmed, Socket!glitch,
         Socket!Assumptions
<1> QED
  BY <1>1, <1>2, <1>3, PTL DEF Socket!Spec
=============================================================================
