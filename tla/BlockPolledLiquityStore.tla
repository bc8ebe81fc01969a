---------------------- MODULE BlockPolledLiquityStore ----------------------
(***************************************************************************)
(* The client-side store of the protocol's state: LiquityStore of lib-base, *)
(* BlockPolledLiquityStore and the cached reads of lib-ethers, and the       *)
(* LiquityStoreProvider component of lib-react that starts and stops it.     *)
(*                                                                         *)
(* A fetch asks the chain for every field of the state.  With a block tag   *)
(* all answers come from that block; the first fetch of a store has none,   *)
(* and each field is answered from whatever block is then the latest.       *)
(* Fetches are promises: they are answered in any order, some time after    *)
(* they are made, or fail.  Of the nineteen fields the model keeps the two  *)
(* that are combined with each other, the user's trove before               *)
(* redistribution and the total redistributed per unit of stake; one unit   *)
(* of stake is one unit of debt.  The trove itself takes two calls, one for *)
(* the debt and one for the snapshot of the total that it was applied at.   *)
(***************************************************************************)
EXTENDS Naturals, Sequences, FiniteSets

CONSTANTS Stores,        \* the stores that the page creates one after another
          UPDATE_PERIOD, \* the 30000 ms after which the state is derived anew
          MAX_BLOCKS,    \* bound: blocks of the chain
          INITIAL_DEBT,  \* the debt of the trove in the first block
          MAX_REDISTRIBUTED, \* bound: units redistributed
          MAX_TIME,      \* bound: ticks of the clock
          MAX_FAILURES,  \* bound: fetches that fail
          NULL           \* JavaScript's undefined

ASSUME StoreAssumption == INITIAL_DEBT \in Nat

VARIABLES chain,    \* the sequence of blocks
          clock,    \* the time that new Date() gives
          store,    \* the fields of each store
          fetches,  \* calls of _get whose promise is pending
          mounted,  \* the store whose effect LiquityStoreProvider last ran
          loadedStore, \* LiquityStoreProvider's state: the store its children see
          failures, \* how many fetches have failed
          read      \* a getTrove of another owner whose promise is pending, or NULL

vars == <<chain, clock, store, fetches, mounted, loadedStore, failures, read>>

Latest == Len(chain)

-----------------------------------------------------------------------------
(* The chain, as the fields of the store see it.                           *)

\* A slip: the subtraction does not stop at zero.
applySignedRedistribution(trove, totalRedistributed) ==
  trove.debt + totalRedistributed - trove.snapshot

\* Trove.subtract stops at zero.
applyRedistribution(trove, totalRedistributed) ==
  trove.debt + (IF totalRedistributed > trove.snapshot
                  THEN totalRedistributed - trove.snapshot ELSE 0)

\* An operation on the trove applies what is pending before it changes the debt.
operated(block, repaid) ==
  [block EXCEPT !.trove = [debt |-> applyRedistribution(block.trove, block.totalRedistributed) - repaid,
                           snapshot |-> block.totalRedistributed]]

\* A liquidation adds to the total per unit of stake.
redistributed(block) ==
  [block EXCEPT !.totalRedistributed = IF @ < MAX_REDISTRIBUTED THEN @ + 1 ELSE @]

Successors(block) ==
  {block, redistributed(block)}
    \cup {operated(block, repaid) : repaid \in {r \in 0..1 : r < block.trove.debt}}

TroveAt(b) == applyRedistribution(chain[b].trove, chain[b].totalRedistributed)

\* The call for the debt is answered by block d, that for the snapshot by block e.
troveBeforeRedistribution(d, e) ==
  [debt |-> chain[d].trove.debt, snapshot |-> chain[e].trove.snapshot]

-----------------------------------------------------------------------------
(* LiquityStore                                                            *)

NewStore == [loaded |-> FALSE, base |-> NULL, derived |-> NULL, extra |-> NULL,
             updateTimeout |-> NULL, listening |-> FALSE, onLoaded |-> FALSE]

\* The fees have the block's time in them, so that nothing depends on when
\* the state is derived.
derive(base) == [trove |-> applyRedistribution(base.trove, base.totalRedistributed)]

\* A slip: a field of the state is left out.
reduceAllButTotal(base, update) == [update EXCEPT !.totalRedistributed = base.totalRedistributed]

\* Every field takes the fetched value, or keeps the equal one that it has.
reduce(base, update) == update

reduceExtra(extra, update) ==
  [blockTag |-> IF update.blockTag # NULL THEN update.blockTag ELSE extra.blockTag,
   blockTimestamp |-> update.blockTimestamp]

scheduleUpdate(s) == [s EXCEPT !.updateTimeout = clock + UPDATE_PERIOD]

load(s, state) ==
  scheduleUpdate([s EXCEPT !.loaded = TRUE, !.base = state.base,
                           !.derived = derive(state.base), !.extra = state.extra])

update(s, state) ==
  scheduleUpdate([s EXCEPT !.base = reduce(@, state.base), !.derived = derive(reduce(s.base, state.base)),
                           !.extra = reduceExtra(@, state.extra)])

\* The stop function that start() returns.
stopped(s) == [s EXCEPT !.listening = FALSE, !.updateTimeout = NULL]

\* The timer of _scheduleUpdate: _update() without a fetched state.
updateTimeout(s) ==
  /\ store[s].updateTimeout = clock
  /\ store' = [store EXCEPT ![s] = scheduleUpdate([@ EXCEPT !.derived = derive(store[s].base)])]
  /\ UNCHANGED <<chain, clock, fetches, mounted, loadedStore, failures, read>>

-----------------------------------------------------------------------------
(* BlockPolledLiquityStore                                                 *)

\* What a pending _get may be answered with.
Answers(f) ==
  IF f.blockTag # NULL
    THEN {[base |-> chain[f.blockTag],
           extra |-> [blockTag |-> f.blockTag, blockTimestamp |-> f.blockTag]]}
    ELSE {[base |-> [trove |-> troveBeforeRedistribution(b[1], b[2]),
                     totalRedistributed |-> chain[b[3]].totalRedistributed],
           extra |-> [blockTag |-> NULL, blockTimestamp |-> b[4]]] : b \in [1..4 -> f.since..Latest]}

get(s, blockTag) == [store |-> s, blockTag |-> blockTag, since |-> Latest]

\* A new block: every listening store starts to fetch its state.
newBlock ==
  /\ Latest < MAX_BLOCKS
  /\ \E block \in Successors(chain[Latest]) : chain' = Append(chain, block)
  /\ fetches' = fetches \cup {[store |-> s, blockTag |-> Latest + 1, since |-> Latest + 1] :
                                s \in {t \in Stores : store[t].listening}}
  /\ UNCHANGED <<clock, store, mounted, loadedStore, failures, read>>

\* A slip: only the first fetch loads.
settledByFirstFetch(s, f, answer) ==
  IF store[s].loaded /\ f.blockTag # NULL THEN update(store[s], answer)
  ELSE IF ~store[s].loaded /\ f.blockTag = NULL THEN load(store[s], answer)
  ELSE store[s]

\* The two callbacks: the first fetch only loads, that of a block loads or updates.
settled(s, f, answer) ==
  IF ~store[s].loaded THEN load(store[s], answer)
  ELSE IF f.blockTag # NULL THEN update(store[s], answer)
  ELSE store[s]

\* A fetch is answered; a store that loads calls onLoaded, if it is set.
fetched(f) ==
  /\ fetches' = fetches \ {f}
  /\ \E answer \in Answers(f) : store' = [store EXCEPT ![f.store] = settled(f.store, f, answer)]
  /\ loadedStore' = IF store'[f.store].loaded /\ ~store[f.store].loaded /\ store[f.store].onLoaded
                      THEN f.store ELSE loadedStore
  /\ UNCHANGED <<chain, clock, mounted, failures, read>>

\* A fetch is rejected: neither callback runs.
fetchFails(f) ==
  /\ failures < MAX_FAILURES
  /\ failures' = failures + 1
  /\ fetches' = fetches \ {f}
  /\ UNCHANGED <<chain, clock, store, mounted, loadedStore, read>>

-----------------------------------------------------------------------------
(* The cached reads                                                        *)

\* getTrove of another owner, without a block tag: the total redistributed is
\* the store's, the trove is asked of the node.
getTrove(s) ==
  /\ read = NULL
  /\ store[s].loaded
  /\ read' = [totalRedistributed |-> store[s].base.totalRedistributed, since |-> Latest]
  /\ UNCHANGED <<chain, clock, store, fetches, mounted, loadedStore, failures>>

\* The node has answered.
troveRead ==
  /\ read # NULL
  /\ read' = NULL
  /\ UNCHANGED <<chain, clock, store, fetches, mounted, loadedStore, failures>>

-----------------------------------------------------------------------------
(* LiquityStoreProvider                                                    *)

\* A slip: onLoaded is left set.
cleanedUpKeepingCallback(s) == stopped(s)

\* The clean-up of the effect.
cleanedUp(s) == stopped([s EXCEPT !.onLoaded = FALSE])

\* The effect for a new store, after the clean-up of the one before; or the
\* clean-up alone, when the component is removed.
effect(s) ==
  /\ mounted # s
  /\ s # NULL => store[s] = NewStore
  /\ mounted' = s
  /\ loadedStore' = NULL
  /\ store' = [t \in Stores |-> IF t = s THEN [NewStore EXCEPT !.listening = TRUE, !.onLoaded = TRUE]
                                ELSE IF t = mounted THEN cleanedUp(store[t])
                                ELSE store[t]]
  /\ fetches' = fetches \cup {get(t, NULL) : t \in {s} \ {NULL}}
  /\ UNCHANGED <<chain, clock, failures, read>>

-----------------------------------------------------------------------------
\* Timers run when they are due.
tick ==
  /\ clock < MAX_TIME
  /\ \A s \in Stores : store[s].updateTimeout # clock
  /\ clock' = clock + 1
  /\ UNCHANGED <<chain, store, fetches, mounted, loadedStore, failures, read>>

Init ==
  /\ chain = <<[totalRedistributed |-> 0, trove |-> [debt |-> INITIAL_DEBT, snapshot |-> 0]]>>
  /\ clock = 0
  /\ store = [s \in Stores |-> NewStore]
  /\ fetches = {}
  /\ mounted = NULL
  /\ loadedStore = NULL
  /\ failures = 0
  /\ read = NULL

Next ==
  \/ newBlock
  \/ tick
  \/ \E s \in Stores : updateTimeout(s)
  \/ \E s \in Stores \cup {NULL} : effect(s)
  \/ \E f \in fetches : fetched(f)
  \/ \E f \in fetches : fetchFails(f)
  \/ \E s \in Stores : getTrove(s)
  \/ troveRead

\* Blocks keep coming and the node answers in the end.
Fairness ==
  /\ WF_vars(newBlock)
  /\ WF_vars(\E f \in fetches : fetched(f))

Spec == Init /\ [][Next]_vars

FairSpec == Spec /\ Fairness

-----------------------------------------------------------------------------
(* Properties                                                              *)

\* The state a store holds, and with it what the cached reads return for the
\* block tag that _blockHit compares, is the state of that very block, however
\* late and in whatever order the fetches were answered.
StoreHoldsItsBlock ==
  \A s \in Stores :
    store[s].loaded /\ store[s].extra.blockTag # NULL =>
      /\ store[s].base = chain[store[s].extra.blockTag]
      /\ store[s].extra.blockTimestamp = store[s].extra.blockTag
      /\ store[s].derived.trove = TroveAt(store[s].extra.blockTag)

distance(m, n) == IF m > n THEN m - n ELSE n - m

\* getTrove of another owner puts together three answers: the total
\* redistributed of the store, which may be blocks behind (or have gone back),
\* and from the node the debt and its snapshot, of one block or of two.  The
\* result is the trove as it stood at some block, up to what was redistributed
\* between the two snapshots; exactly that, when the owner did nothing between
\* the node's two answers.
CachedReadIsNearSomeTrove ==
  read # NULL =>
    \A d, e \in read.since..Latest :
      \E b \in 1..Latest :
        distance(applyRedistribution(troveBeforeRedistribution(d, e), read.totalRedistributed), TroveAt(b))
          <= distance(chain[d].trove.snapshot, chain[e].trove.snapshot)

\* The children of LiquityStoreProvider only see a store that is loaded and
\* still monitoring; a store that loads after it was replaced is not shown.
ShownStoreIsMonitoring ==
  loadedStore # NULL => /\ loadedStore = mounted
                        /\ store[loadedStore].loaded
                        /\ store[loadedStore].listening

\* A store that is mounted while blocks are still to come is shown in the end,
\* even when its first fetches fail (fewer than there are blocks to come).
MountedStoreIsShown ==
  \A s \in Stores :
    (mounted = s /\ Latest + MAX_FAILURES <= MAX_BLOCKS) ~> (loadedStore = s \/ mounted # s)

=============================================================================
