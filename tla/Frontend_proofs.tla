-------------------------- MODULE Frontend_proofs --------------------------
(***************************************************************************)
(* What the pages show, for any stores, wallets, accounts and chains, any   *)
(* number of blocks, fetches and events: that a store holds the state of    *)
(* the block it names, that a read through it is near what stood there, and *)
(* that only a store that monitors is shown (BlockPolledLiquityStore); and  *)
(* that the pages belong to the wallet that is connected, are shown to      *)
(* accounts the whitelist allows and stay away after a disconnection        *)
(* (WalletConnector, as Wallet).                                            *)
(***************************************************************************)
EXTENDS BlockPolledLiquityStore, SequenceTheorems, TLAPS

CONSTANTS Software, Hardware, Accounts, Allowed, Chains, currentChainId
VARIABLES wallets, connecting, auto, asked, remembered, conn, checks, hasAccess,
          loading, config, events, left, crossed

Wallet == INSTANCE WalletConnector
-----------------------------------------------------------------------------
(* The store *)

\* A block with the fields that the store sees.
Blocks == [totalRedistributed : Nat, trove : [debt : Nat, snapshot : Nat]]

\* Block n of a chain, next to the ones before: no total is larger, the totals
\* above the snapshot of its trove are those of blocks with that trove, and the
\* trove without its pending share is what it was at some block.
Follows(c, n) ==
  /\ \A i \in 1..n :
       /\ c[i].totalRedistributed <= c[n].totalRedistributed
       /\ c[i].totalRedistributed > c[n].trove.snapshot => c[i].trove = c[n].trove
  /\ \E i \in 1..n :
       applyRedistribution(c[i].trove, c[i].totalRedistributed) = c[n].trove.debt + 0

Grown(c) == c \in Seq(Blocks) /\ Len(c) >= 1 /\ \A n \in 1..Len(c) : Follows(c, n)

\* A pending _get belongs to a store and asks for blocks that are there.
Asked(f, c) ==
  /\ f.store \in Stores
  /\ f.since \in 1..Len(c)
  /\ f.blockTag # NULL => f.blockTag \in 1..Len(c)

\* A state that was fetched: of one block if it has a block tag, and with a
\* total that some block had if it has none.
Fetched(base, extra, c) ==
  /\ extra.blockTag # NULL => /\ extra.blockTag \in 1..Len(c)
                              /\ base = c[extra.blockTag]
                              /\ extra.blockTimestamp = extra.blockTag
  /\ \E i \in 1..Len(c) : base.totalRedistributed = c[i].totalRedistributed

\* The fields of a store.
IsStore(x) ==
  x = [loaded |-> x.loaded, base |-> x.base, derived |-> x.derived, extra |-> x.extra,
       updateTimeout |-> x.updateTimeout, listening |-> x.listening, onLoaded |-> x.onLoaded]

\* A store that is loaded holds a state that was fetched, and what follows from it.
Holds(x, c) ==
  /\ IsStore(x)
  /\ x.loaded => /\ Fetched(x.base, x.extra, c)
                 /\ x.derived.trove = applyRedistribution(x.base.trove, x.base.totalRedistributed)

\* A read under way has the total of a block that was there when it was made.
ReadMade(r, c) ==
  r # NULL => /\ r.since \in 1..Len(c)
              /\ \E i \in 1..r.since : r.totalRedistributed = c[i].totalRedistributed

\* The strengthening of the three invariants that is inductive.
StoreIInv ==
  /\ Grown(chain)
  /\ \A f \in fetches : Asked(f, chain)
  /\ store = [s \in Stores |-> store[s]]
  /\ \A s \in Stores :
       /\ Holds(store[s], chain)
       /\ store[s].onLoaded => s = mounted /\ store[s].listening
  /\ loadedStore # NULL => /\ loadedStore \in Stores /\ loadedStore = mounted
                           /\ store[loadedStore].loaded
                           /\ store[loadedStore].listening
  /\ ReadMade(read, chain)
-----------------------------------------------------------------------------
(* The chain *)

\* What a block may be followed by: the same, a redistribution, or an operation
\* on the trove.
LEMMA SuccessorKinds ==
  ASSUME NEW block \in Blocks, NEW new \in Successors(block)
  PROVE /\ new \in Blocks
        /\ \/ new.trove = block.trove /\ new.totalRedistributed >= block.totalRedistributed
           \/ /\ new.totalRedistributed = block.totalRedistributed
              /\ new.trove.snapshot = block.totalRedistributed
<1>1. CASE new = block
  BY <1>1 DEF Blocks
<1>2. CASE new = redistributed(block)
  <2> DEFINE n == IF block.totalRedistributed < MAX_REDISTRIBUTED
                  THEN block.totalRedistributed + 1 ELSE block.totalRedistributed
  <2>1. n \in Nat /\ n >= block.totalRedistributed
    BY DEF Blocks
  <2> HIDE DEF n
  <2> QED
    BY <1>2, <2>1 DEF n, Blocks, redistributed
<1>3. ASSUME NEW repaid \in 0..1, repaid < block.trove.debt, new = operated(block, repaid)
      PROVE  /\ new \in Blocks /\ new.totalRedistributed = block.totalRedistributed
             /\ new.trove.snapshot = block.totalRedistributed
  <2> DEFINE d == applyRedistribution(block.trove, block.totalRedistributed) - repaid
  <2>1. d \in Nat
    BY <1>3 DEF applyRedistribution, Blocks
  <2>2. new = [block EXCEPT !.trove = [debt |-> d, snapshot |-> block.totalRedistributed]]
    BY <1>3 DEF operated
  <2> HIDE DEF d
  <2> QED
    BY <2>1, <2>2 DEF Blocks
<1> QED
  BY <1>1, <1>2, <1>3 DEF Successors

\* A new block keeps the blocks before it, and what holds of the last one.
LEMMA ChainGrows ==
  ASSUME Grown(chain), NEW new \in Successors(chain[Len(chain)]), chain' = Append(chain, new)
  PROVE /\ Grown(chain') /\ Len(chain') = Len(chain) + 1
        /\ \A i \in 1..Len(chain) : i \in 1..Len(chain') /\ chain'[i] = chain[i]
<1> DEFINE n == Len(chain)
           block == chain[n]
<1>1. n \in Nat \ {0} /\ chain \in Seq(Blocks) /\ block \in Blocks
  BY DEF Grown
<1>2. /\ new \in Blocks
      /\ \/ new.trove = block.trove /\ new.totalRedistributed >= block.totalRedistributed
         \/ /\ new.totalRedistributed = block.totalRedistributed
            /\ new.trove.snapshot = block.totalRedistributed
  BY <1>1, SuccessorKinds
<1>3. /\ chain' \in Seq(Blocks) /\ Len(chain') = n + 1 /\ chain'[n + 1] = new
      /\ \A i \in 1..n : chain'[i] = chain[i]
  BY <1>1, <1>2, AppendProperties
<1>4. \A i \in 1..n : chain[i] \in Blocks
  BY <1>1
<1>5. \A i \in 1..n + 1 : i = n + 1 \/ i \in 1..n
  BY <1>1
<1>6. /\ \A i \in 1..n : /\ chain[i].totalRedistributed <= block.totalRedistributed
                         /\ chain[i].totalRedistributed > block.trove.snapshot => chain[i].trove = block.trove
      /\ \E i \in 1..n :
           applyRedistribution(chain[i].trove, chain[i].totalRedistributed) = block.trove.debt + 0
  <2>1. n \in 1..Len(chain)
    BY <1>1
  <2> QED
    BY <2>1 DEF Grown, Follows
<1> HIDE DEF n, block
<1>7. \A i \in 1..n + 1 :
        /\ chain'[i].totalRedistributed <= new.totalRedistributed
        /\ chain'[i].totalRedistributed > new.trove.snapshot => chain'[i].trove = new.trove
  <2> TAKE i \in 1..n + 1
  <2>1. /\ block.totalRedistributed \in Nat /\ new.totalRedistributed \in Nat
        /\ new.trove.snapshot \in Nat
    BY <1>1, <1>2 DEF Blocks
  <2>2. CASE i = n + 1
    BY <1>3, <2>1, <2>2
  <2>3. CASE i \in 1..n
    <3>1. chain'[i] = chain[i] /\ chain[i].totalRedistributed \in Nat
      BY <1>3, <1>4, <2>3 DEF Blocks
    <3> QED
      BY <1>2, <1>6, <2>1, <2>3, <3>1
  <2> QED
    BY <1>5, <2>2, <2>3, Zenon
<1>8. \E i \in 1..n + 1 :
        applyRedistribution(chain'[i].trove, chain'[i].totalRedistributed) = new.trove.debt + 0
  <2>1. CASE new.trove = block.trove
    <3>1. PICK i \in 1..n :
            applyRedistribution(chain[i].trove, chain[i].totalRedistributed) = block.trove.debt + 0
      BY <1>6
    <3>2. i \in 1..n + 1 /\ chain'[i] = chain[i]
      BY <1>1, <1>3
    <3> QED
      BY <2>1, <3>1, <3>2, Zenon
  <2>2. CASE new.totalRedistributed = new.trove.snapshot
    <3>1. applyRedistribution(new.trove, new.totalRedistributed) = new.trove.debt + 0
      BY <1>2, <2>2 DEF applyRedistribution, Blocks
    <3>2. n + 1 \in 1..n + 1
      BY <1>1
    <3> QED
      BY <1>3, <3>1, <3>2
  <2> QED
    BY <1>2, <2>1, <2>2, Zenon
<1>9. Follows(chain', n + 1)
  BY <1>3, <1>7, <1>8 DEF Follows
<1>10. ASSUME NEW m \in 1..n PROVE Follows(chain', m)
  <2>1. Follows(chain, m)
    BY DEF Grown, n
  <2>2. \A i \in 1..m : i \in 1..n /\ chain'[i] = chain[i]
    BY <1>1, <1>3
  <2>3. chain'[m] = chain[m]
    BY <1>3
  <2> QED
    BY <2>1, <2>2, <2>3, Zenon DEF Follows
<1>11. Grown(chain')
  <2>1. Len(chain') >= 1 /\ Len(chain') = n + 1
    BY <1>1, <1>3
  <2> QED
    BY <1>3, <1>5, <1>9, <1>10, <2>1, Zenon DEF Grown
<1> QED
  BY <1>1, <1>3, <1>11 DEF n

\* What was fetched, asked and held is so of the longer chain.
LEMMA HeldByLongerChain ==
  ASSUME NEW c, NEW d, \A i \in 1..Len(c) : i \in 1..Len(d) /\ d[i] = c[i]
  PROVE /\ \A f : Asked(f, c) => Asked(f, d)
        /\ \A x : Holds(x, c) => Holds(x, d)
BY DEF Asked, Holds, Fetched

\* A read under way, too.
LEMMA ReadOfLongerChain ==
  ASSUME NEW c, NEW d, Len(c) \in Nat, \A i \in 1..Len(c) : i \in 1..Len(d) /\ d[i] = c[i],
         NEW r, ReadMade(r, c)
  PROVE ReadMade(r, d)
<1> SUFFICES ASSUME r # NULL
             PROVE /\ r.since \in 1..Len(d)
                   /\ \E i \in 1..r.since : r.totalRedistributed = d[i].totalRedistributed
  BY DEF ReadMade
<1>1. r.since \in 1..Len(c)
  BY DEF ReadMade
<1>2. PICK i \in 1..r.since : r.totalRedistributed = c[i].totalRedistributed
  BY DEF ReadMade
<1>3. i \in 1..Len(c)
  BY <1>1
<1> QED
  BY <1>1, <1>2, <1>3
-----------------------------------------------------------------------------
(* A store *)

\* A store with a new state, derived and scheduled.
LEMMA NewState ==
  ASSUME NEW z, IsStore(z), z.loaded, z.derived = derive(z.base),
         NEW c, Fetched(z.base, z.extra, c), NEW y, y = scheduleUpdate(z)
  PROVE Holds(y, c) /\ y.loaded /\ y.listening = z.listening /\ y.onLoaded = z.onLoaded
<1> DEFINE u == clock + UPDATE_PERIOD
<1>1. y = [z EXCEPT !.updateTimeout = u]
  BY DEF scheduleUpdate
<1>2. z.derived.trove = applyRedistribution(z.base.trove, z.base.totalRedistributed)
  BY DEF derive
<1> HIDE DEF u
<1>3. y = [loaded |-> z.loaded, base |-> z.base, derived |-> z.derived, extra |-> z.extra,
           updateTimeout |-> u, listening |-> z.listening, onLoaded |-> z.onLoaded]
  BY <1>1, Zenon DEF IsStore
<1> QED
  BY <1>2, <1>3 DEF Holds, IsStore

\* What a _get is answered with.
LEMMA AnswerIsFetched ==
  ASSUME NEW f, Asked(f, chain), Grown(chain), NEW answer \in Answers(f)
  PROVE /\ Fetched(answer.base, answer.extra, chain)
        /\ f.blockTag # NULL => answer.extra.blockTag # NULL
<1>1. Len(chain) \in Nat
  BY DEF Grown
<1>2. CASE f.blockTag # NULL
  <2>1. answer = [base |-> chain[f.blockTag],
                  extra |-> [blockTag |-> f.blockTag, blockTimestamp |-> f.blockTag]]
    BY <1>2 DEF Answers
  <2> QED
    BY <1>2, <2>1 DEF Asked, Fetched
<1>3. CASE f.blockTag = NULL
  <2>1. PICK b \in [1..4 -> f.since..Latest] :
           answer = [base |-> [trove |-> troveBeforeRedistribution(b[1], b[2]),
                               totalRedistributed |-> chain[b[3]].totalRedistributed],
                     extra |-> [blockTag |-> NULL, blockTimestamp |-> b[4]]]
    BY <1>3 DEF Answers
  <2>2. b[3] \in 1..Len(chain)
    <3>1. b[3] \in f.since..Latest /\ f.since \in 1..Len(chain)
      BY DEF Asked
    <3> QED
      BY <1>1, <3>1 DEF Latest
  <2> QED
    BY <1>3, <2>1, <2>2 DEF Fetched
<1> QED
  BY <1>2, <1>3

\* Either callback leaves a store that holds what it was given, or what it had.
LEMMA SettledHolds ==
  ASSUME StoreIInv, NEW f \in fetches, NEW answer \in Answers(f), NEW y,
         y = settled(f.store, f, answer)
  PROVE /\ Holds(y, chain) /\ (store[f.store].loaded => y.loaded)
        /\ y.listening = store[f.store].listening /\ y.onLoaded = store[f.store].onLoaded
<1> DEFINE x == store[f.store]
           b == answer.base
           e == answer.extra
<1>1. Asked(f, chain) /\ Grown(chain) /\ f.store \in Stores /\ Holds(x, chain) /\ IsStore(x)
  BY DEF StoreIInv, Asked, Holds
<1>2. Fetched(b, e, chain) /\ (f.blockTag # NULL => e.blockTag # NULL)
  BY <1>1, AnswerIsFetched
<1>3. CASE ~x.loaded
  <2> DEFINE h == derive(b)
             z == [x EXCEPT !.loaded = TRUE, !.base = b, !.derived = h, !.extra = e]
  <2>1. y = scheduleUpdate(z)
    BY <1>3 DEF settled, load
  <2>2. h = derive(b) /\ z = [x EXCEPT !.loaded = TRUE, !.base = b, !.derived = h, !.extra = e]
    OBVIOUS
  <2> HIDE DEF x, b, e, h, z
  <2>3. z = [loaded |-> TRUE, base |-> b, derived |-> h, extra |-> e,
             updateTimeout |-> x.updateTimeout, listening |-> x.listening, onLoaded |-> x.onLoaded]
    BY <1>1, <2>2, Zenon DEF IsStore
  <2>4. /\ IsStore(z) /\ z.loaded /\ z.base = b /\ z.derived = h /\ z.extra = e
        /\ z.listening = x.listening /\ z.onLoaded = x.onLoaded
    BY <2>3 DEF IsStore
  <2>5. z.derived = derive(z.base) /\ Fetched(z.base, z.extra, chain)
    BY <1>2, <2>2, <2>4
  <2>6. Holds(y, chain) /\ y.loaded /\ y.listening = z.listening /\ y.onLoaded = z.onLoaded
    BY ONLY <2>1, <2>4, <2>5, NewState
  <2> QED
    BY <2>4, <2>6 DEF x
<1>4. CASE x.loaded /\ f.blockTag # NULL
  <2> DEFINE g == reduceExtra(x.extra, e)
             h == derive(b)
             z == [x EXCEPT !.base = b, !.derived = h, !.extra = g]
  <2>1. y = scheduleUpdate(z)
    BY <1>4 DEF settled, update, reduce
  <2>2. g.blockTag = e.blockTag /\ g.blockTimestamp = e.blockTimestamp
    BY <1>2, <1>4 DEF reduceExtra
  <2>3. Fetched(b, g, chain)
    BY <1>2, <2>2 DEF Fetched
  <2>4. h = derive(b) /\ z = [x EXCEPT !.base = b, !.derived = h, !.extra = g]
    OBVIOUS
  <2> HIDE DEF x, b, e, g, h, z
  <2>5. z = [loaded |-> x.loaded, base |-> b, derived |-> h, extra |-> g,
             updateTimeout |-> x.updateTimeout, listening |-> x.listening, onLoaded |-> x.onLoaded]
    BY <1>1, <2>4, Zenon DEF IsStore
  <2>6. /\ IsStore(z) /\ z.loaded /\ z.base = b /\ z.derived = h /\ z.extra = g
        /\ z.listening = x.listening /\ z.onLoaded = x.onLoaded
    BY <1>4, <2>5 DEF IsStore
  <2>7. z.derived = derive(z.base) /\ Fetched(z.base, z.extra, chain)
    BY <2>3, <2>4, <2>6
  <2>8. Holds(y, chain) /\ y.loaded /\ y.listening = z.listening /\ y.onLoaded = z.onLoaded
    BY ONLY <2>1, <2>6, <2>7, NewState
  <2> QED
    BY <2>6, <2>8 DEF x
<1>5. CASE x.loaded /\ f.blockTag = NULL
  BY <1>1, <1>5 DEF settled
<1> QED
  BY <1>3, <1>4, <1>5
-----------------------------------------------------------------------------
(* The steps *)

\* The first state: one block, and no store that started.
LEMMA InitStoreIInv == Init => StoreIInv
<1> SUFFICES ASSUME Init PROVE StoreIInv
  OBVIOUS
<1> DEFINE b == [totalRedistributed |-> 0, trove |-> [debt |-> INITIAL_DEBT, snapshot |-> 0]]
<1>1. chain = <<b>> /\ b \in Blocks
  BY StoreAssumption DEF Init, Blocks
<1>2. b.totalRedistributed = 0 /\ b.trove.snapshot = 0
  OBVIOUS
<1>3. applyRedistribution(b.trove, b.totalRedistributed) = b.trove.debt + 0
  BY DEF applyRedistribution
<1> HIDE DEF b
<1>4. chain \in Seq(Blocks) /\ Len(chain) = 1 /\ chain[1] = b
  BY <1>1
<1>5. Grown(chain)
  BY <1>2, <1>3, <1>4 DEF Grown, Follows
<1>6. \A s \in Stores : store[s] = NewStore
  BY DEF Init
<1>7. IsStore(NewStore) /\ ~NewStore.loaded /\ ~NewStore.onLoaded
  BY DEF IsStore, NewStore
<1>8. \A s \in Stores : Holds(store[s], chain) /\ ~store[s].onLoaded
  BY <1>6, <1>7 DEF Holds
<1>9. /\ \A f \in fetches : Asked(f, chain)
      /\ store = [s \in Stores |-> store[s]]
      /\ loadedStore = NULL /\ ReadMade(read, chain)
  BY DEF Init, ReadMade
<1> QED
  BY <1>5, <1>8, <1>9 DEF StoreIInv

\* A block is mined, and the store that listens asks for it.
LEMMA NewBlockIInv == StoreIInv /\ newBlock => StoreIInv'
<1> SUFFICES ASSUME StoreIInv, newBlock PROVE StoreIInv'
  OBVIOUS
<1>1. PICK new \in Successors(chain[Len(chain)]) : chain' = Append(chain, new)
  BY DEF newBlock, Latest
<1>2. /\ Grown(chain') /\ Len(chain') = Len(chain) + 1 /\ Len(chain) \in Nat
      /\ \A i \in 1..Len(chain) : i \in 1..Len(chain') /\ chain'[i] = chain[i]
  <2>1. Grown(chain)
    BY DEF StoreIInv
  <2>2. Len(chain) \in Nat
    BY <2>1 DEF Grown
  <2> QED
    BY <1>1, <2>1, <2>2, ChainGrows
<1>3. /\ \A f : Asked(f, chain) => Asked(f, chain')
      /\ \A x : Holds(x, chain) => Holds(x, chain')
  BY <1>2, HeldByLongerChain
<1>4. \A f \in fetches' : Asked(f, chain')
  <2> TAKE f \in fetches'
  <2>1. CASE f \in fetches
    BY <1>3, <2>1 DEF StoreIInv
  <2>2. CASE f \notin fetches
    <3>1. PICK s \in Stores :
            f = [store |-> s, blockTag |-> Len(chain) + 1, since |-> Len(chain) + 1]
      BY <2>2 DEF newBlock, Latest
    <3> QED
      BY <1>2, <3>1 DEF Asked
  <2> QED
    BY <2>1, <2>2
<1>5. UNCHANGED <<store, mounted, loadedStore, read>>
  BY DEF newBlock
<1>6. ReadMade(read, chain')
  BY <1>2, ReadOfLongerChain DEF StoreIInv
<1> QED
  BY <1>2, <1>3, <1>4, <1>5, <1>6 DEF StoreIInv

\* A _get is answered.
LEMMA FetchedIInv == ASSUME StoreIInv, NEW f \in fetches, fetched(f) PROVE StoreIInv'
<1>1. PICK answer \in Answers(f) : store' = [store EXCEPT ![f.store] = settled(f.store, f, answer)]
  BY Zenon DEF fetched
<1> DEFINE y == settled(f.store, f, answer)
<1>2. /\ Holds(y, chain) /\ (store[f.store].loaded => y.loaded)
      /\ y.listening = store[f.store].listening /\ y.onLoaded = store[f.store].onLoaded
  BY SettledHolds
<1>3. f.store \in Stores
  BY DEF StoreIInv, Asked
<1>4. UNCHANGED <<chain, mounted, read>> /\ fetches' \subseteq fetches
  BY DEF fetched
<1>5. /\ store' = [store EXCEPT ![f.store] = y]
      /\ loadedStore' = IF store'[f.store].loaded /\ ~store[f.store].loaded /\ store[f.store].onLoaded
                        THEN f.store ELSE loadedStore
  BY <1>1, Zenon DEF fetched
<1> HIDE DEF y
<1>6. /\ store' = [s \in Stores |-> store'[s]] /\ store'[f.store] = y
      /\ \A s \in Stores : s # f.store => store'[s] = store[s]
  BY <1>3, <1>5 DEF StoreIInv
<1>7. /\ \A s \in Stores :
           /\ Holds(store'[s], chain)
           /\ store'[s].onLoaded => s = mounted /\ store'[s].listening
  BY <1>2, <1>6 DEF StoreIInv
<1>8. loadedStore' # NULL => /\ loadedStore' \in Stores /\ loadedStore' = mounted
                             /\ store'[loadedStore'].loaded
                             /\ store'[loadedStore'].listening
  BY <1>2, <1>3, <1>5, <1>6 DEF StoreIInv
<1> QED
  BY <1>4, <1>6, <1>7, <1>8 DEF StoreIInv

\* The timer derives again from what is held.
LEMMA UpdateTimeoutIInv == ASSUME StoreIInv, NEW s \in Stores, updateTimeout(s) PROVE StoreIInv'
<1> DEFINE x == store[s]
           e == derive(x.base)
           u == clock + UPDATE_PERIOD
           z == [x EXCEPT !.derived = e]
           y == [z EXCEPT !.updateTimeout = u]
<1>1. store' = [store EXCEPT ![s] = y] /\ UNCHANGED <<chain, fetches, mounted, loadedStore, read>>
  BY DEF updateTimeout, scheduleUpdate
<1>2. e.trove = applyRedistribution(x.base.trove, x.base.totalRedistributed)
  BY DEF derive
<1>3. Holds(x, chain)
  BY DEF StoreIInv
<1>4. z = [x EXCEPT !.derived = e] /\ y = [z EXCEPT !.updateTimeout = u] /\ x = store[s]
  OBVIOUS
<1> HIDE DEF x, e, u, z, y
<1>5. y = [loaded |-> x.loaded, base |-> x.base, derived |-> e, extra |-> x.extra,
           updateTimeout |-> u, listening |-> x.listening, onLoaded |-> x.onLoaded]
  BY <1>3, <1>4, Zenon DEF Holds, IsStore
<1>6. /\ Holds(y, chain) /\ y.loaded = x.loaded /\ y.listening = x.listening
      /\ y.onLoaded = x.onLoaded
  BY <1>2, <1>3, <1>5 DEF Holds, IsStore
<1>7. /\ store' = [t \in Stores |-> store'[t]] /\ store'[s] = y
      /\ \A t \in Stores : t # s => store'[t] = store[t]
  BY <1>1 DEF StoreIInv
<1>8. /\ \A t \in Stores :
           /\ Holds(store'[t], chain)
           /\ store'[t].onLoaded => t = mounted /\ store'[t].listening
  BY <1>4, <1>6, <1>7, Zenon DEF StoreIInv
<1>9. loadedStore # NULL => /\ loadedStore \in Stores /\ loadedStore = mounted
                            /\ store'[loadedStore].loaded
                            /\ store'[loadedStore].listening
  BY <1>4, <1>6, <1>7, Zenon DEF StoreIInv
<1> QED
  BY <1>1, <1>7, <1>8, <1>9 DEF StoreIInv

\* A store that is cleaned up keeps its state.
LEMMA CleanedUp ==
  ASSUME NEW x, NEW c, Holds(x, c), NEW y, y = cleanedUp(x)
  PROVE Holds(y, c) /\ y.onLoaded = FALSE
<1> DEFINE z == [x EXCEPT !.onLoaded = FALSE]
<1>1. z = [x EXCEPT !.onLoaded = FALSE] /\ y = [z EXCEPT !.listening = FALSE, !.updateTimeout = NULL]
  BY DEF cleanedUp, stopped
<1> HIDE DEF z
<1>2. z = [loaded |-> x.loaded, base |-> x.base, derived |-> x.derived, extra |-> x.extra,
           updateTimeout |-> x.updateTimeout, listening |-> x.listening, onLoaded |-> FALSE]
  BY <1>1, Zenon DEF Holds, IsStore
<1>3. y = [loaded |-> x.loaded, base |-> x.base, derived |-> x.derived, extra |-> x.extra,
           updateTimeout |-> NULL, listening |-> FALSE, onLoaded |-> FALSE]
  BY <1>1, <1>2, Zenon
<1> QED
  BY <1>3 DEF Holds, IsStore

\* The provider's effect stops one store and starts another.
LEMMA EffectIInv == ASSUME StoreIInv, NEW s \in Stores \cup {NULL}, effect(s) PROVE StoreIInv'
<1> DEFINE started == [NewStore EXCEPT !.listening = TRUE, !.onLoaded = TRUE]
<1>1. /\ UNCHANGED <<chain, read>> /\ mounted' = s /\ loadedStore' = NULL
      /\ fetches' = fetches \cup {get(t, NULL) : t \in {s} \ {NULL}}
  BY DEF effect
<1>2. \A f \in fetches' : Asked(f, chain')
  <2>1. Len(chain) \in 1..Len(chain)
    BY DEF StoreIInv, Grown
  <2>2. s # NULL => Asked(get(s, NULL), chain)
    BY <2>1 DEF Asked, get, Latest
  <2> QED
    BY <1>1, <2>2 DEF StoreIInv
<1>3. Holds(started, chain) /\ started.listening
  <2>1. started = [loaded |-> FALSE, base |-> NULL, derived |-> NULL, extra |-> NULL,
                   updateTimeout |-> NULL, listening |-> TRUE, onLoaded |-> TRUE]
    <3> DEFINE n == NewStore
    <3>1. n = [loaded |-> FALSE, base |-> NULL, derived |-> NULL, extra |-> NULL,
               updateTimeout |-> NULL, listening |-> FALSE, onLoaded |-> FALSE]
      BY DEF NewStore
    <3>2. started = [n EXCEPT !.listening = TRUE, !.onLoaded = TRUE]
      OBVIOUS
    <3> HIDE DEF n, started
    <3> QED
      BY <3>1, <3>2, Zenon
  <2> HIDE DEF started
  <2> QED
    BY <2>1 DEF Holds, IsStore
<1>4. /\ store' = [t \in Stores |-> store'[t]]
      /\ \A t \in Stores : store'[t] = IF t = s THEN started
                                       ELSE IF t = mounted THEN cleanedUp(store[t])
                                       ELSE store[t]
  BY DEF effect
<1> HIDE DEF started
<1>5. \A t \in Stores : /\ Holds(store'[t], chain)
                        /\ store'[t].onLoaded => t = s /\ store'[t].listening
  <2> TAKE t \in Stores
  <2>1. Holds(store[t], chain) /\ (store[t].onLoaded => t = mounted)
    BY DEF StoreIInv
  <2>2. CASE t = s
    BY <1>3, <1>4, <2>2
  <2>3. CASE t # s /\ t = mounted
    BY <1>4, <2>1, <2>3, CleanedUp, Zenon
  <2>4. CASE t # s /\ t # mounted
    BY <1>4, <2>1, <2>4
  <2> QED
    BY <2>2, <2>3, <2>4
<1> QED
  BY <1>1, <1>2, <1>4, <1>5 DEF StoreIInv

\* A read takes the total that the store holds, which is of a block that is there.
LEMMA GetTroveIInv == ASSUME StoreIInv, NEW s \in Stores, getTrove(s) PROVE StoreIInv'
<1>1. /\ UNCHANGED <<chain, store, fetches, mounted, loadedStore>> /\ store[s].loaded
      /\ read' = [totalRedistributed |-> store[s].base.totalRedistributed, since |-> Latest]
  BY DEF getTrove
<1>2. \E i \in 1..Len(chain) : store[s].base.totalRedistributed = chain[i].totalRedistributed
  BY <1>1 DEF StoreIInv, Holds, Fetched
<1>3. Len(chain) \in 1..Len(chain)
  BY DEF StoreIInv, Grown
<1>4. ReadMade(read', chain)
  BY <1>1, <1>2, <1>3 DEF ReadMade, Latest
<1> QED
  BY <1>1, <1>4 DEF StoreIInv

\* Every step keeps the strengthening.
LEMMA NextStoreIInv == StoreIInv /\ [Next]_vars => StoreIInv'
<1> SUFFICES ASSUME StoreIInv, [Next]_vars PROVE StoreIInv'
  OBVIOUS
<1>1. ASSUME NEW f \in fetches, fetchFails(f) PROVE StoreIInv'
  BY <1>1 DEF fetchFails, StoreIInv
<1>2. CASE tick
  BY <1>2 DEF tick, StoreIInv
<1>3. CASE UNCHANGED vars
  BY <1>3 DEF vars, StoreIInv
<1>4. CASE troveRead
  BY <1>4 DEF troveRead, StoreIInv, ReadMade
<1> QED
  BY <1>1, <1>2, <1>3, <1>4, NewBlockIInv, FetchedIInv, UpdateTimeoutIInv, EffectIInv,
     GetTroveIInv DEF Next

\* A trove of block d with the total of block i, no later than d, is the trove
\* as it stood at some block: at i if its operation came before, and else right
\* after that operation.
LEMMA EarlierTotal ==
  ASSUME Grown(chain), NEW d \in 1..Len(chain), NEW i \in 1..d
  PROVE \E b \in 1..d : TroveAt(b) = applyRedistribution(chain[d].trove, chain[i].totalRedistributed)
<1> DEFINE t == chain[d].trove
           total == chain[i].totalRedistributed
<1>1. i \in 1..Len(chain)
  BY DEF Grown
<1>2. chain[i] \in Blocks /\ chain[d] \in Blocks
  BY <1>1 DEF Grown
<1>3. total \in Nat /\ t.snapshot \in Nat
  BY <1>2 DEF Blocks
<1>4. /\ total > t.snapshot => chain[i].trove = t
      /\ \E b \in 1..d : TroveAt(b) = t.debt + 0
  BY DEF Grown, Follows, TroveAt
<1>5. CASE total > t.snapshot
  BY <1>4, <1>5 DEF TroveAt
<1>6. CASE ~(total > t.snapshot)
  <2>1. applyRedistribution(t, total) = t.debt + 0
    BY <1>6 DEF applyRedistribution
  <2> QED
    BY <1>4, <2>1
<1> QED
  BY <1>5, <1>6

\* Another snapshot changes the result by no more than the snapshots differ.
LEMMA OtherSnapshot ==
  ASSUME NEW debt \in Nat, NEW m \in Nat, NEW n \in Nat, NEW total \in Nat
  PROVE distance(applyRedistribution([debt |-> debt, snapshot |-> n], total),
                 applyRedistribution([debt |-> debt, snapshot |-> m], total)) <= distance(m, n)
BY DEF distance, applyRedistribution

\* The strengthening implies what the store promises.
LEMMA StorePromises ==
  StoreIInv => StoreHoldsItsBlock /\ CachedReadIsNearSomeTrove /\ ShownStoreIsMonitoring
<1> SUFFICES ASSUME StoreIInv
             PROVE StoreHoldsItsBlock /\ CachedReadIsNearSomeTrove /\ ShownStoreIsMonitoring
  OBVIOUS
<1>1. StoreHoldsItsBlock
  BY DEF StoreIInv, Holds, Fetched, StoreHoldsItsBlock, TroveAt
<1>2. ShownStoreIsMonitoring
  BY DEF StoreIInv, ShownStoreIsMonitoring
<1>3. ASSUME read # NULL, NEW d \in read.since..Latest, NEW e \in read.since..Latest
      PROVE \E b \in 1..Latest :
              distance(applyRedistribution(troveBeforeRedistribution(d, e),
                                           read.totalRedistributed), TroveAt(b))
                <= distance(chain[d].trove.snapshot, chain[e].trove.snapshot)
  <2> DEFINE total == read.totalRedistributed
  <2>1. /\ Grown(chain) /\ Len(chain) \in Nat /\ read.since \in 1..Len(chain)
        /\ \E i \in 1..read.since : total = chain[i].totalRedistributed
    BY <1>3 DEF StoreIInv, ReadMade, Grown
  <2>2. PICK i \in 1..read.since : total = chain[i].totalRedistributed
    BY <2>1
  <2>3. d \in 1..Len(chain) /\ e \in 1..Len(chain) /\ i \in 1..d /\ i \in 1..Len(chain)
    BY <2>1 DEF Latest
  <2>4. PICK b \in 1..d : TroveAt(b) = applyRedistribution(chain[d].trove, total)
    BY <2>1, <2>2, <2>3, EarlierTotal
  <2>5. chain[d] \in Blocks /\ chain[e] \in Blocks /\ chain[i] \in Blocks
    BY <2>1, <2>3 DEF Grown
  <2>6. /\ chain[d].trove = [debt |-> chain[d].trove.debt, snapshot |-> chain[d].trove.snapshot]
        /\ chain[d].trove.debt \in Nat /\ chain[d].trove.snapshot \in Nat
        /\ chain[e].trove.snapshot \in Nat /\ total \in Nat
    BY <2>2, <2>5 DEF Blocks
  <2>7. distance(applyRedistribution(troveBeforeRedistribution(d, e), total), TroveAt(b))
          <= distance(chain[d].trove.snapshot, chain[e].trove.snapshot)
    BY <2>4, <2>6, OtherSnapshot, Zenon DEF troveBeforeRedistribution
  <2>8. b \in 1..Latest
    BY <2>1, <2>3 DEF Latest
  <2> QED
    BY <2>7, <2>8, Zenon
<1> QED
  BY <1>1, <1>2, <1>3, Zenon DEF CachedReadIsNearSomeTrove

\* Whatever order the fetches are answered in, the state that a store holds is
\* that of the block whose tag it carries.
THEOREM StoresHoldTheirBlocks == Spec => []StoreHoldsItsBlock
BY InitStoreIInv, NextStoreIInv, StorePromises, PTL DEF Spec

\* For chains of any length and any timing of the node's two answers: another
\* owner's trove that is read with the total of a store that is behind, or has
\* gone back, is the trove as it stood at some block, up to what was
\* redistributed between the two snapshots.
THEOREM CachedReadsAreNearTroves == Spec => []CachedReadIsNearSomeTrove
BY InitStoreIInv, NextStoreIInv, StorePromises, PTL DEF Spec

\* A store that loads after it was replaced is not shown.
THEOREM ShownStoresMonitor == Spec => []ShownStoreIsMonitoring
BY InitStoreIInv, NextStoreIInv, StorePromises, PTL DEF Spec
-----------------------------------------------------------------------------
(* The wallet *)

\* The state of Connector is the primary wallet's; its provider too on the
\* chain of the pages.
ConnIsPrimary ==
  IF wallets = <<>> THEN conn = Wallet!NoWallet
  ELSE /\ conn = [provider |-> conn.provider, walletAddress |-> wallets[1].account,
                  chainId |-> wallets[1].chain]
       /\ wallets[1].chain = currentChainId => conn.provider = wallets[1].label

\* Access that is held is the account's own, loading or not.
AccessHeldIsOwn ==
  hasAccess /\ ~crossed /\ conn.chainId # NULL => conn.walletAddress \in Allowed

\* After a disconnection nothing is under way that brings a wallet back.
LeftForGood ==
  left => wallets = <<>> /\ auto = NULL /\ ~connecting /\ remembered = NULL

\* The strengthening of AppIsTheWallet, AccessIsOwn, LoaderIsWaiting and
\* DisconnectLasts that is inductive.
WalletIInv ==
  /\ Wallet!Assumptions
  /\ wallets \in Seq(Wallet!Wallets)
  /\ ConnIsPrimary
  /\ AccessHeldIsOwn
  /\ LeftForGood
  /\ loading => checks # {}
-----------------------------------------------------------------------------
\* The wallets but one are wallets.
LEMMA WithoutType ==
  ASSUME wallets \in Seq(Wallet!Wallets), NEW i \in DOMAIN wallets
  PROVE Wallet!without(i) \in Seq(Wallet!Wallets)
BY DEF Wallet!without

\* A wallet that connects comes first, before wallets.
LEMMA AddedType ==
  ASSUME wallets \in Seq(Wallet!Wallets), NEW w \in Wallet!Wallets
  PROVE /\ Wallet!added(w) \in Seq(Wallet!Wallets)
        /\ Wallet!added(w) # <<>>
        /\ Wallet!added(w)[1] = w
<1> DEFINE rest == IF \E i \in DOMAIN wallets : wallets[i].label = w.label
                   THEN Wallet!without(CHOOSE i \in DOMAIN wallets : wallets[i].label = w.label)
                   ELSE wallets
<1>1. rest \in Seq(Wallet!Wallets)
  BY WithoutType
<1>2. Wallet!added(w) = <<w>> \o rest
  BY DEF Wallet!added
<1> HIDE DEF rest
<1> QED
  BY <1>1, <1>2

\* What updateState does to the invariant, for wallets ws that a wallet or
\* web3-onboard reports.
LEMMA UpdateKeeps ==
  ASSUME WalletIInv, NEW ws \in Seq(Wallet!Wallets), Wallet!updateState(ws)
  PROVE wallets' \in Seq(Wallet!Wallets) /\ ConnIsPrimary' /\ AccessHeldIsOwn' /\ (loading' => checks' # {})
<1>1. wallets' = ws /\ conn' = Wallet!reducer(ws)
  BY DEF Wallet!updateState
<1>2. ws # <<>> => ws[1] \in Wallet!Wallets
  OBVIOUS
<1>3. ConnIsPrimary'
  BY <1>1 DEF ConnIsPrimary, Wallet!reducer
<1>4. AccessHeldIsOwn'
  <2>1. CASE ws = <<>>
    BY <1>1, <2>1 DEF AccessHeldIsOwn, Wallet!reducer, Wallet!NoWallet
  <2>2. CASE ws # <<>>
    <3>1. conn'.walletAddress = ws[1].account /\ conn'.walletAddress # NULL
      BY <1>1, <1>2, <2>2 DEF WalletIInv, Wallet!Assumptions, Wallet!reducer, Wallet!Wallets
    <3>2. CASE conn'.walletAddress # conn.walletAddress
      BY <3>1, <3>2 DEF Wallet!updateState, Wallet!checkAccess, AccessHeldIsOwn
    <3>3. CASE conn'.walletAddress = conn.walletAddress
      <4>1. hasAccess' = hasAccess /\ crossed' = crossed
        BY <3>3 DEF Wallet!updateState, Wallet!access
      <4>2. wallets # <<>>
        BY <3>1, <3>3 DEF WalletIInv, ConnIsPrimary, Wallet!NoWallet
      <4>3. conn.chainId # NULL
        <5>1. wallets[1] \in Wallet!Wallets
          BY <4>2 DEF WalletIInv
        <5>2. conn.chainId = wallets[1].chain
          BY <4>2 DEF WalletIInv, ConnIsPrimary
        <5> QED
          BY <5>1, <5>2 DEF WalletIInv, Wallet!Assumptions, Wallet!Wallets
      <4> QED
        BY <3>3, <4>1, <4>3 DEF WalletIInv, AccessHeldIsOwn
    <3> QED
      BY <3>2, <3>3
  <2> QED
    BY <2>1, <2>2
<1>5. loading' => checks' # {}
  BY Zenon DEF WalletIInv, Wallet!updateState, Wallet!checkAccess, Wallet!access
<1> QED
  BY <1>1, <1>3, <1>4, <1>5

-----------------------------------------------------------------------------
\* The page starts without a wallet.
LEMMA InitWalletIInv == Wallet!Assumptions /\ Wallet!Init => WalletIInv
BY DEF Wallet!Init, WalletIInv, ConnIsPrimary, AccessHeldIsOwn, LeftForGood

\* Every step of the page, the wallets and the whitelist keeps the invariant.
LEMMA NextWalletIInv == WalletIInv /\ [Wallet!Next]_(Wallet!vars) => WalletIInv'
<1> SUFFICES ASSUME WalletIInv, [Wallet!Next]_(Wallet!vars) PROVE WalletIInv'
  OBVIOUS
<1> USE DEF WalletIInv
<1>0. wallets \in Seq(Wallet!Wallets)
  OBVIOUS
<1>1. CASE Wallet!connectWallet
  BY <1>1 DEF Wallet!connectWallet, Wallet!access, ConnIsPrimary, AccessHeldIsOwn, LeftForGood
<1>2. CASE Wallet!disconnectWallet
  <2>1. wallets # <<>>
    BY <1>2 DEF Wallet!disconnectWallet, Wallet!isWalletConnected, ConnIsPrimary, Wallet!NoWallet
  <2>2. Tail(wallets) \in Seq(Wallet!Wallets)
    BY <2>1, <1>0
  <2>3. Wallet!updateState(Tail(wallets))
    BY <1>2 DEF Wallet!disconnectWallet
  <2>4. LeftForGood'
    BY <1>2, Zenon DEF Wallet!disconnectWallet, LeftForGood
  <2> QED
    BY <2>2, <2>3, <2>4, UpdateKeeps, Zenon
<1>3. CASE Wallet!reload
  BY <1>3 DEF Wallet!reload, ConnIsPrimary, AccessHeldIsOwn, LeftForGood
<1>4. ASSUME NEW w \in Wallet!Wallets, Wallet!walletConnects(w) PROVE WalletIInv'
  <2>1. Wallet!updateState(Wallet!added(w)) /\ connecting /\ left' = left
    BY <1>4 DEF Wallet!walletConnects, Wallet!notify
  <2>2. LeftForGood'
    BY <2>1 DEF LeftForGood
  <2> QED
    BY <2>1, <2>2, <1>0, AddedType, UpdateKeeps
<1>5. CASE Wallet!connectRefused
  BY <1>5 DEF Wallet!connectRefused, Wallet!access, ConnIsPrimary, AccessHeldIsOwn, LeftForGood
<1>6. ASSUME NEW w \in Wallet!Wallets, Wallet!autoConnects(w) PROVE WalletIInv'
  <2>1. Wallet!updateState(Wallet!added(w)) /\ auto # NULL /\ left' = left
    BY <1>6 DEF Wallet!autoConnects, Wallet!notify
  <2>2. LeftForGood'
    BY <1>6, <2>1 DEF LeftForGood
  <2> QED
    BY <2>1, <2>2, <1>0, AddedType, UpdateKeeps
<1>7. CASE Wallet!autoConnectFails
  BY <1>7 DEF Wallet!autoConnectFails, Wallet!access, ConnIsPrimary, AccessHeldIsOwn, LeftForGood
<1>8. ASSUME NEW i \in DOMAIN wallets, NEW a \in Accounts, NEW c \in Chains, Wallet!walletChanges(i, a, c)
      PROVE WalletIInv'
  <2> DEFINE ws == [wallets EXCEPT ![i].account = a, ![i].chain = c]
  <2>1. Wallet!updateState(ws) /\ left' = left
    BY <1>8 DEF Wallet!walletChanges, Wallet!notify
  <2>2. ws \in Seq(Wallet!Wallets)
    <3>1. [wallets[i] EXCEPT !.account = a, !.chain = c] \in Wallet!Wallets
      <4>1. wallets[i] \in Wallet!Wallets
        BY <1>0
      <4> QED
        BY <4>1, Zenon DEF Wallet!Wallets
    <3>2. ws = [wallets EXCEPT ![i] = [wallets[i] EXCEPT !.account = a, !.chain = c]]
      BY Zenon
    <3> QED
      BY <1>0, <3>1, <3>2
  <2>3. LeftForGood'
    <3>1. wallets # <<>>
      OBVIOUS
    <3> QED
      BY <2>1, <3>1 DEF LeftForGood
  <2> QED
    BY <2>1, <2>2, <2>3, UpdateKeeps
<1>9. ASSUME NEW i \in DOMAIN wallets, Wallet!walletLeaves(i) PROVE WalletIInv'
  <2>1. Wallet!updateState(Wallet!without(i)) /\ left' = left
    BY <1>9 DEF Wallet!walletLeaves, Wallet!notify
  <2>2. LeftForGood'
    <3>1. wallets # <<>>
      OBVIOUS
    <3> QED
      BY <2>1, <3>1 DEF LeftForGood
  <2> QED
    BY <2>1, <2>2, <1>0, WithoutType, UpdateKeeps
<1>10. ASSUME NEW label \in asked, Wallet!setChainRefused(label) PROVE WalletIInv'
  BY <1>10 DEF Wallet!setChainRefused, Wallet!access, ConnIsPrimary, AccessHeldIsOwn, LeftForGood
<1>11. ASSUME NEW c \in checks, Wallet!checkAnswers(c) PROVE WalletIInv'
  BY <1>11, Zenon DEF Wallet!checkAnswers, ConnIsPrimary, AccessHeldIsOwn, LeftForGood
<1>12. ASSUME NEW c \in checks, Wallet!checkFails(c) PROVE WalletIInv'
  BY <1>12 DEF Wallet!checkFails, ConnIsPrimary, AccessHeldIsOwn, LeftForGood
<1>13. CASE Wallet!getConfig
  BY <1>13 DEF Wallet!getConfig, Wallet!access, ConnIsPrimary, AccessHeldIsOwn, LeftForGood
<1>14. CASE UNCHANGED Wallet!vars
  BY <1>14 DEF Wallet!vars, ConnIsPrimary, AccessHeldIsOwn, LeftForGood
<1> QED
  BY <1>1, <1>2, <1>3, <1>4, <1>5, <1>6, <1>7, <1>8, <1>9, <1>10, <1>11, <1>12, <1>13, <1>14
     DEF Wallet!Next, Wallet!Check

\* What the invariant says of what is shown.
LEMMA IInvShows ==
    WalletIInv => /\ Wallet!AppIsTheWallet /\ Wallet!AccessIsOwn
                  /\ Wallet!LoaderIsWaiting /\ Wallet!DisconnectLasts
<1> SUFFICES ASSUME WalletIInv
             PROVE  /\ Wallet!AppIsTheWallet /\ Wallet!AccessIsOwn
                    /\ Wallet!LoaderIsWaiting /\ Wallet!DisconnectLasts
  OBVIOUS
<1>1. Wallet!AppIsTheWallet
  <2> SUFFICES ASSUME Wallet!Screen = "app"
               PROVE wallets # <<>> /\ conn = [provider |-> wallets[1].label,
                       walletAddress |-> wallets[1].account, chainId |-> currentChainId]
    BY DEF Wallet!AppIsTheWallet
  <2>1. conn.chainId = currentChainId
    BY DEF Wallet!Screen
  <2>2. wallets # <<>>
    BY <2>1 DEF WalletIInv, Wallet!Assumptions, ConnIsPrimary, Wallet!NoWallet
  <2> QED
    BY <2>1, <2>2 DEF WalletIInv, ConnIsPrimary
<1>2. Wallet!AccessIsOwn
  BY DEF Wallet!AccessIsOwn, WalletIInv, AccessHeldIsOwn, Wallet!mounted, Wallet!isWalletConnected
<1>3. Wallet!LoaderIsWaiting
  <2> SUFFICES ASSUME Wallet!Screen = "loader" PROVE checks # {} \/ (Wallet!mounted /\ ~config)
    BY DEF Wallet!LoaderIsWaiting
  <2>1. CASE loading
    BY <2>1 DEF WalletIInv
  <2>2. CASE ~loading
    <3>1. Wallet!mounted /\ conn.chainId = currentChainId /\ ~(config /\ conn.provider # NULL)
      BY <2>2 DEF Wallet!Screen
    <3>2. wallets # <<>>
      BY <3>1 DEF WalletIInv, Wallet!Assumptions, ConnIsPrimary, Wallet!NoWallet
    <3>3. wallets[1] \in Wallet!Wallets
      BY <3>2 DEF WalletIInv
    <3>4. conn.provider = wallets[1].label
      BY <3>1, <3>2 DEF WalletIInv, ConnIsPrimary
    <3> QED
      BY <3>1, <3>3, <3>4 DEF WalletIInv, Wallet!Assumptions, Wallet!Wallets
  <2> QED
    BY <2>1, <2>2
<1>4. Wallet!DisconnectLasts
  BY DEF Wallet!DisconnectLasts, WalletIInv, LeftForGood
<1> QED
  BY <1>1, <1>2, <1>3, <1>4

\* Whatever the wallets, the user and the whitelist service do, in whatever
\* order: the pages that Connector and LiquityProvider show are those of the
\* primary wallet on the right chain, WalletConnector shows them to accounts that
\* are allowed unless a late answer was for another account, the loader is only
\* shown while something is awaited, and a wallet that was disconnected stays
\* away until the user connects one.
THEOREM PagesBelongToTheWallet ==
  ASSUME Wallet!Assumptions
  PROVE Wallet!Spec => [](/\ Wallet!AppIsTheWallet /\ Wallet!AccessIsOwn
                          /\ Wallet!LoaderIsWaiting /\ Wallet!DisconnectLasts)
<1>1. Wallet!Init => WalletIInv
  BY InitWalletIInv
<1>2. WalletIInv /\ [Wallet!Next]_(Wallet!vars) => WalletIInv'
  BY NextWalletIInv
<1>3. WalletIInv =>
         /\ Wallet!AppIsTheWallet /\ Wallet!AccessIsOwn
         /\ Wallet!LoaderIsWaiting /\ Wallet!DisconnectLasts
  BY IInvShows
<1> QED
  BY <1>1, <1>2, <1>3, PTL DEF Wallet!Spec
=============================================================================
