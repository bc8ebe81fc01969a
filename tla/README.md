# Zero: a TLA+ verification of the protocol

Zero is a lending protocol on RSK. Borrowers lock collateral (called ETH in the
code) in a *trove* and draw the stablecoin ZUSD against it. Troves below the
minimum ratio are liquidated, ZUSD can be redeemed for collateral at face value,
and depositors of the Stability Pool absorb liquidated debt. This directory models
the Solidity contracts under `src/packages/contracts/contracts` and the parts of the
TypeScript client that have state of their own (`lib-base`, `lib-ethers`, `providers`,
`lib-react`, `dev-frontend`), checks the models with TLC on small instances, and proves
most of their safety properties with TLAPS for instances of every size.

In what follows *BO* is `BorrowerOperations.sol`, *TM* `TroveManager.sol`, *Base*
`Dependencies/TroveManagerBase.sol`, *RedeemOps*
`Dependencies/TroveManagerRedeemOps.sol`, *SP* `StabilityPool.sol`; the NICR is the
nominal collateral ratio (collateral / debt without the price), the ICR that of one
trove at the current price, the TCR that of the whole system. Below a TCR of CCR
(150%) the system is in Recovery Mode; MCR (110%) is the least ICR of a healthy
trove.

## 1. Inventory

| part | state | operations that change it | modelled by |
|---|---|---|---|
| SortedTroves | doubly linked list of troves by NICR, size, capacity | insert, reInsert, remove, setParams | `SortedTroves`, abstractly `SortedList` |
| TroveManager, troves | debt, collateral, stake, status, index, reward snapshots; owners array; total stakes and snapshots; reward accumulators and their rounding errors | everything below | `TroveManagerBase` |
| TroveManager, liquidation | the loops' locals | liquidate, liquidateTroves, batchLiquidateTroves | `TroveManager` |
| TroveManager, redemption | the loop's locals | redeemCollateral | `TroveManagerRedeemOps` |
| BorrowerOperations | none of its own | open, adjust, close, claim | `BorrowerOperations` |
| ActivePool, DefaultPool, CollSurplusPool, GasPool | ETH, ZUSD debt, claims, reserves | called by all of the above | `TroveManagerBase` |
| StabilityPool, CommunityIssuance | deposits, product P, sums S and G, scale, epoch, front ends, issuance | provide, withdraw, move gains, offset, register | `StabilityPool`; its total in `ZeroSystem` |
| DLLR variants, MyntLib | none of their own | the operations above, paid in DLLR | `NueTroves`, abstractly `TrovePurse` |
| ZUSDToken | balances, allowances | mint, burn, transfer, permit | balances by kind of holder |
| PriceFeed | two oracles, last good price | fetchPrice, setAddress | `PriceFeed`; in `ZeroSystem` a price that moves |
| base rate and fees | baseRate, lastFeeOperationTime | borrowing, redemption, time | `BaseRate`; rates are inputs of the core |
| ZEROStaking, FeeDistributor | stakes, fee accumulators, shares | stake, unstake, distribute | `ZEROStaking`, `FeeDistributor` |
| lib-base: numbers, troves, fees | none | pure functions | `Decimal`, `Trove`, parts of `ClientFees` |
| LiquityStore, BlockPolledLiquityStore, LiquityStoreProvider | the client's copy of the state, listeners, timers | block events, answers, mounting | `BlockPolledLiquityStore` |
| populated transactions | fees and limits read earlier | populate, send | `ClientFees` |
| BatchedProvider | the batch, its timer | call, dispatch, answers | `BatchedProvider` |
| WebSocketAugmentedProvider | sockets, listeners, reconnection | open, close, block, wait | `WebSocketAugmentedProvider` |
| front end: validation of an edit | none | pure functions | `TroveValidation`, beside the contracts in `MCTroveValidation` |
| front end: wallet | wallets, account, chain, whitelist check, page | connect, change, leave, answers | `WalletConnector` |
| front end: views, editors, followed transaction | view, edit, dialog | buttons, store updates, receipts | not modelled |
| ObservableEthersLiquity, useAsyncValue | debouncers, reads under way | events, answers | not modelled: no caller in the shipped interface |
| HintHelpers, MultiTroveGetter | none | read-only | any hint is accepted |

How they interact: BorrowerOperations and TroveManager are the only writers of
troves, and call the pools, the token and the list in the course of one transaction.
A transaction is atomic, so concurrency is the interleaving of whole transactions of
different people. What makes it hard is that each of them is prepared against an
older state: hints name nodes that have moved, prices have changed, a liquidation
has redistributed debt to every trove without touching any of them. The transactions
that loop over troves change the very list they follow, keep running totals of
their own, and settle with the pools only at the end.

On the client nothing is atomic but the run of one callback. Fetches, receipts, wallet
answers and timers come in any order, some never; the chain goes on meanwhile, and
so does the user, who changes accounts and leaves pages with work under way. A callback
that was started for one state of the component ends in another. And the client
repeats rules of the contracts in another language, on numbers it read some blocks ago.

What has to hold, in words: no ZUSD without debt and no debt without ZUSD; the
pools hold what troves, claims and reserves say they hold, through all roundings;
list, array, index and status agree on which troves exist; liquidations and
redemptions pick the troves they are allowed to and no others; the last trove stays;
nothing that has begun fails to end. `PROJECT.json` lists the hazards line by line
with the properties that would notice them.

## 2. Plan

*Done*: the sorted list with the proof that it implements a sequence; the core (troves,
pools, liquidation, redemption, adjustment) with proofs of its structure, of its accounts
and of what its checks on ratios protect; the Stability Pool with issuance and front ends;
base rate and fees; staking and fee distribution; the price feed; the calls in DLLR with
the proof that they implement the plain ones; on the client, the store, the two providers,
fees and limits of transactions, the validation of a change against the contracts, and the
wallet connection.

What would come next:

1. A bound, with proof, on how far rounding takes the deposits of the Stability Pool above
   its ZUSD, and the list out of order.
2. The Stability Pool inside `ZeroSystem` in place of its total.
3. The retry of calls for blocks not seen yet in `WebSocketAugmentedProvider` (99-116).
4. The views of trove and deposit, with the transaction they follow.

## 3. Modules

The contracts:

- `SortedTroves` is `SortedTroves.sol`. `data` is the struct `Data`, with the mapping
  of nodes kept as one function per field. `nicr` is what `getNominalICR` would answer. The
  walks `_descendList` and `_ascendList` take a step per loop iteration; `call`
  holds their two cursors. All other operations are one step. `redistribute` moves
  all NICRs at once, in order, or in any way if `ReordersNICRs`.
- `SortedList` is what callers may rely on: a sequence in descending order. The linked
  list implements it with `order` being the nodes met from the head (`FromHead`).
- `LiquityBase` has the parameters and the ratio arithmetic (integer division rounds
  down, as in the code).
- `TroveManagerBase` has the state of the core and what all operations on troves
  share: pending rewards, stakes, closing, reverting. The list is the sequence
  `sortedTroves`; an insertion takes any valid position, which is what
  `SortedTroves` is shown to do.
- `BorrowerOperations`, `TroveManager`, `TroveManagerRedeemOps` have one action per
  operation, or, where the operation loops, one per kind of iteration, one for the
  end and one for the revert. `tx` holds the locals; while it is not `Idle` nothing
  else runs. `tx.saved` is what a revert goes back to.
- `ZeroSystem` composes them with depositors and a price that may change between
  any two transactions, and states the properties.
- `MCSortedTroves`, `MCZeroSystem` add symmetry and, for the latter, a bound on the
  number of transactions.
- `StabilityPool` is `StabilityPool.sol` with the issuance of ZERO: what a liquidation
  does to all deposits through P, S and G, with scales, epochs and carried errors, and
  the deposits, withdrawals and front ends that take snapshots of them. A call is one
  action. SafeMath subtractions and the assertion on P are guards: the call reverts.
  Whether a trove is below MCR is an input here and computed in `ZeroSystem`; that the caller
  of `withdrawETHGainToTrove` has a trove (SP 385) is left open, so that the model has more calls.
  `MCStabilityPool` adds the bound on calls and three history variables: `peak`, the most the
  pool held, `covered`, whether deposits have so far stayed within the pool, and `missed`, the
  ZERO issued while there were no deposits.
- `LiquityMath` has `_decMul` and `_decPow`. `BaseRate` has the base rate: its decay, its
  increase by a redemption, the floors and the cap, and the operations that touch
  `lastFeeOperationTime`.
- `TrovePurse` is one account's dealings in ZUSD with the plain operations; `NueTroves`
  has each of them beside its form in DLLR. Mynt's manager is external and exchanges one
  for one, as the contracts use it. Collateral ratios are not in these two modules: a call
  that the ratio rules refuse is a call not made.
- `ZEROStaking` and `FeeDistributor` are the contracts of these names, `FeeDistributor`
  composing them with the operations that pay fees.
- `PriceFeed` is the contract over two oracles behind adapters that fail in different
  ways; `seen` is the history of prices that a working oracle in use had.

The client:

- `Decimal` and `Trove` are the fixed-point numbers and the algebra of changes of
  `lib-base`, with their roundings (`divCeil` when the fee is taken off a debt).
  `TroveValidation` is `validateTroveChange.tsx`. `MCTroveValidation` puts both beside
  `ZeroSystem` and compares what the front end says with what the contracts do. The branches
  for DLLR are left out: the balance that a repayment is compared with
  (`validateTroveChange.tsx` 324 and 381) and the three calls of `TroveAction.tsx` 34-50. In
  the interface as shipped they are dead, since `useNueToken` starts as false, nothing sets it
  to true, and `NueCheckbox` is commented out where it was used.
- `ClientFees` extends `BaseRate` with the SDK's own computation of the rates and the
  highest rates it puts into transactions. `getFees` makes several reads without a block
  tag; the model lets blocks pass between them. The floors and the cap, which the SDK has
  as constants (5%, 7.5%, 1.9% in `constants.ts`) and the contracts as parameters
  (initially 0.5%, 5%, 0.5%), are taken to be set to the same values, and so is the supply
  of which a redemption is a fraction.
- `BlockPolledLiquityStore` has the store, its fetches and timer, the cached reads and the
  provider component. Of the fields it keeps the two that are combined with each other. The
  trove of another owner is not in the store: `getTrove` takes the total redistributed from
  the store when it is called (`read`) and the trove from the node by two calls, `Troves`
  and `rewardSnapshots`, neither with a block tag, so that the debt and its snapshot may be of
  different blocks (`troveRead`). The first fetch of a store, untagged too, splits in the
  same way (`Answers`). The fees that are derived from a fetch are left to `ClientFees`.
- `BatchedProvider` batches calls; an answer carries the call and the block it is of.
- `WebSocketAugmentedProvider` has the sockets with the reconnection timer, where block
  listeners are kept, and `waitForTransaction` over nodes of which one may be behind.
- `WalletConnector` has the subscription to wallets, the reducer, the whitelist check and
  the page shown. A dispatch and the effects it causes are one action, as under React 17
  with events from outside React. `crossed` remembers that an answer of the whitelist was
  for another account. ENS names and the pages that bypass the check are left out;
  `switchAccounts` has no caller.

The theorems are in `SortedTroves_proofs`; in `ZeroSystem_proofs`, `ZeroAccounts_proofs`,
`ZeroLiquidations_proofs` and `ZeroRatios_proofs`, each of which extends the one before;
in `Periphery_proofs` (base rate, Stability Pool, staking and fee distribution, price feed,
calls in DLLR), `Providers_proofs` (the two providers) and `Frontend_proofs` (store and
wallet). Where one module of proofs is about several components, it extends one of them and
has the others as instances (`Pool`, `Split`, `Feed`, `Nue`, `Socket`, `Wallet`).

Operators commented as *slips* are plausible wrong versions of the definition that
follows them: a guard left out, a forgotten pointer, a missing reset. No
specification uses them; put in place of the right one, each makes the property
it is meant for fail (`mutants` in `PROJECT.json`).

Abstractions of the core, and why they are harmless to what is checked:

- All holders of ZUSD other than the GasPool and the Stability Pool share one purse,
  `zusd.users`; tokens may change hands between any two transactions anyway. Fees
  in ZUSD go to that purse.
- Collateral sent to depositors, liquidators, redeemers and fee recipients leaves the
  model.
- Borrowing and redemption rates are inputs (they are computed in `BaseRate`); a caller's
  limit on the fee only makes more transactions fail.
- The bootstrap period, in which redemptions fail, is over.
- A partial redemption's hint for the new NICR matches or does not; the model lets
  either happen (`redeemPartOfTrove`, `cancelPartial`).
- The variants that convert to or from DLLR are in `NueTroves`.
- Reverts by a `require` at the start of an operation are transactions that do not
  happen. Underflows are not guarded in the model: `TypeOK` shows that none occurs in the
  runs; `NothingIsOverdrawn` and, under its hypothesis, `PendingDebtIsCovered` prove that
  none occurs at all.
- Sizes are small, but the proportions are those of the code: `DECIMAL_PRECISION`
  is larger than the total stakes, so that every redistribution raises both
  accumulators.

## 4. Runs

| run | checks | result |
|---|---|---|
| `sorted_troves` | the list stays in descending order and implements `SortedList`; 4 borrowers, 3 NICRs, every hint | holds |
| `sorted_drift` | with NICRs reordered at will: no node is lost, walks stay in the list and end | holds |
| `zero_liquidation` | accounting, owners, reserves, surplus; last trove, mode switches, which liquidations may be undone, deposits | holds |
| `zero_redemption` | accounting, pending rewards, minimum debt, order up to rounding under adjustment, closing and redemption; the lowest trove is redeemed first; borrowers and the TCR | holds |
| `zero_termination` | every looping transaction ends | holds |
| `zero_batch_tcr` | a trove is liquidated only below the TCR that accounts for preceding liquidations | violated |
| `zero_list_order` | the list is in exact order of current NICRs | violated |
| `pool_solvency` | deposits, collateral gains and ZERO stay covered; no call changes what others own | holds |
| `client_fees` | the SDK's default limits suffice in later blocks; fee operations do not stop the decay of the base rate | holds |
| `trove_validation` | what the front end lets through is mined as shown, what it refuses would revert | holds |
| `store_updates` | the store holds the state of its block, cached reads are near some block's trove, the mounted store is shown in the end | holds |
| `batched_provider` | every call gets its own answer, once, and gets one | holds |

The two violations are disagreements between comments and code:

- *Batch liquidation*. TM 276 speaks of the "current TCR (accounting for the preceding
  liquidations in the current sequence)". `liquidateTroves` subtracts the
  collateral surplus of each liquidated trove (TM 520-523), `batchLiquidateTroves`
  does not (TM 719-721). Collateral 46, 47 and 52 with debt 26 each, the price
  falling from 1000 to 700, 52 ZUSD deposited: a batch of two liquidates a trove
  at or above the TCR that the first one leaves behind. `SequenceLiquidatesBelowTCR`
  holds for the sequence.
- *Order of the list*. The header of `SortedTroves.sol` says that liquidations
  maintain the order of NICRs. Pending rewards are rounded down per trove, so two
  neighbours may swap by the last digit. Everything that takes the list for sorted
  is therefore checked up to that rounding: `ListInOrderUpToRounding`,
  `RedeemsLowestFirst`, `DepositsStayForLiquidations`; and `sorted_drift` shows that
  a list out of order does no harm to insertions.

What the client and pool runs say exactly:

- *Pool.* `DepositsCoveredUpToRounding` allows deposits to exceed the pool by 1e-18 of
  the most it held, plus one unit: the error of a loss is given back to a pool that others
  have left or joined in between. `GainsCovered` and `IssuanceCovered` are stated for as
  long as deposits were covered (`covered`), since a deposit that outgrew the pool takes
  its share of later gains too. `IssuanceCovered` does not count what was issued while
  there were no deposits: `_updateG` drops it (SP 436-440), and nobody may be paid from it later.
- *Fees.* `QuotedBorrowingIsMined` and `QuotedRedemptionIsMined` say that a transaction
  with the SDK's default limit passes the contract's check in whatever later block it is
  mined, unless others redeemed since the fees were read, a fee operation fell between
  the reads, or (for a borrowing) the mode changed. The decimal arithmetic of the SDK and
  that of the contracts are both in the model, but the tolerances in the default limits are
  one unit in the run: it does not show whether the two round alike to the last unit.
- *Validation.* Every edit of every trove in every reachable state: `ValidChangeIsMined`
  compares with the contract's action (`ENABLED`, with the trove it leaves), so that a rule
  missing on either side shows.
- *Store.* `MountedStoreIsShown` holds although fetches fail, because later blocks fetch
  again. A store that is removed and one that is replaced go through the same clean-up, so
  one store that is mounted, unmounted and mounted again covers both.
  `CachedReadIsNearSomeTrove` allows a read to be off by what was redistributed between the
  two snapshots that the node's two answers may come from. When the owner did nothing between
  those answers that is zero, however far the store is behind.
- *Undone liquidations.* `NoRevertAfterLiquidation` says when a transaction that has
  liquidated a trove may still revert. One case is a batch in Recovery Mode that goes on in
  Normal Mode (TM 731-737) and comes to the last trove, which nothing in that branch spares.
  The batch's own account of the system leaves the gas compensation in it (TM 719-721), so it may
  find the system out of Recovery Mode when it is not. Two troves with collateral 42 and
  180 and debt 26 and 110, a price of 650 and 110 ZUSD deposited reach it. The other is a
  redistribution when no stakes are left, because they rounded to zero.

*Bounds.* Four nodes give the list a head, a tail and two inner nodes, so that every
branch of `_insert` and `_remove` meets every position and a walk takes several
steps; three NICRs give ties, strict order and room between. Three borrowers are the
least for a swap in the owners array that involves neither the first nor the last
trove of the list, and for a sequence that liquidates two and leaves one. Six or seven
transactions suffice to open three troves, redistribute one, and act on the rewards
of the others, twice. The prices put the same troves above CCR, between MCR and
CCR, and below MCR (and below 100% with less collateral); amounts are chosen such
that divisions leave remainders, deposits cover one trove and not two, troves owe
unequal amounts, so that one liquidation may end Recovery Mode and the next one meet
the last trove, and a redemption closes one trove and takes part of the next. Symmetry in the borrowers is
used for safety only, never with a liveness property.

The pool has two depositors and a front end, seven calls, and liquidations that take
little of it, most of it, all of it, and enough to cross a scale; with a precision of 100
and a scale factor of 10 each rounding and each change of scale happens within two or
three calls. The fee model's minute is two seconds long, and a block may take half a
minute or three minutes, so that parts of minutes are dropped and several decay at once;
fractions redeemed are on both sides of the rounding. The edits that are validated are
values around each threshold (reserve, minimum debt, MCR, CCR, balance, nothing at all).
Three blocks, one failure and a timer of two ticks let the first fetch of a store, which
has no block tag, overlap with fetches of two blocks, in any order, and a read with both; for
longer chains the invariants are proved (section 5). Three calls of a batch give equal, different and
late block tags.

*Deadlock* is checked where the system can always move (the price, the list's capacity,
the troves beside the pool). In the runs of the fees, the store and the batches the chain
ends at its last block, and then everything may have been done.

*Fairness.* Weak fairness is assumed of the steps of a transaction that has
begun (`Continue`; `descend`, `ascend`, `finishWalk`): the EVM runs it to its end. Nobody
is assumed to start one. Gas is not modelled, so that *ends* means *ends
given enough gas*. In `BatchedProvider` promises are resolved, the timer fires, and the node
answers a request or it fails: JavaScript's event loop and the time limit of the
underlying provider. In `BlockPolledLiquityStore` blocks come, up to the bound, and the node
answers some fetch that is pending; that a particular one is answered is not assumed, and
nobody is assumed to mount a store.

## 5. Proofs

`SortedTroves_proofs`, for every finite set of borrowers, every bound on the NICRs, every
sequence of operations and hints:

- `TypeCorrect`, `WellLinked` (links agree, one chain, size counts the nodes),
  `StaysDescending`, `WalksStayInList`.
- The inductive invariant `IInv` joins the type invariant, the well-formedness of the
  list (`GoodList`: links and a numbering of the nodes along the chain), the order, and
  `WalkGood`, what the cursors of a walk know: the node on the cursor's side exists
  and bounds the NICR. The order alone is not inductive: that a found position keeps
  it follows from the numbering and the links, and that a walk finds one follows
  from `WalkGood`. Lemmas treat `link` and `unlink` once, for every branch; each action
  then cites them.
- `ListImplementsSequence`: as long as redistributions keep the order of the NICRs, the
  list implements `SortedList`. The sequence is `FromHead(data)`, the nodes met from the
  head. `ListTraversed` says that following the links meets every node once, and
  `FromHeadFollows` that there is no other way to follow them, so that a sequence which is
  shown to follow the links is the one `FromHead` stands for. With this, `link` is an
  insertion at a position (`LinkInserts`), `unlink` a removal (`UnlinkRemoves`), and every
  step is a step of `SortedList` or a stutter: a walk's iteration is a stutter, and its end
  adds or moves an entry.

`ZeroSystem_proofs`, for every set of borrowers, all inputs, prices and parameters:

- `OwnersStayIndexed`, `ReserveStaysPerTrove`, `LastTroveAlwaysStays`.
- `RecoveryModeKeepsWork`, the part of `NoRevertAfterLiquidation` about liquidations that
  begin in Recovery Mode. A sequence stands at an active trove and has not passed the head, so
  it closes no last trove (`SequenceEndsAtHead`); what remains is the batch above, and a
  redistribution without stakes.
- `IInv` has the books (`Books`: array and index are inverse to each other, the list
  holds every active trove once, closed troves owe nothing), the reserves, and one case
  for each state of `tx`. A liquidation in progress remembers that a sequence in
  Recovery Mode stands at an active trove and ends at the head, which stays (else it could
  visit a closed trove); a redemption stands at an active trove or at the end. Both
  remember that the saved state satisfies the books as well, which is what a
  revert needs. Lemmas on inserting, moving and removing in a list and on
  swap-and-pop carry the argument; one lemma per action follows.
- Cardinalities come from a bijection between positions and active troves.

`ZeroAccounts_proofs` (sums, the invariant, and the operations of borrowers, depositors and
redeemers) and `ZeroLiquidations_proofs` (liquidations, and the theorems), for the same:

- `ZUSDIsOwed`, `PoolStaysWithTroves`, `StakesAddUp`, `PendingETHIsCovered`,
  `ClaimsAreBacked`, `DebtStaysAboveMinimum`, `NothingIsOverdrawn`: the accounts, in every
  state between the steps of a transaction, not only at its end.
- Sums come first. `SumFunction` is a fold that picks one element after the other.
  `SummingExists` shows that the fold defines a function on the subsets of a finite set,
  and `SumUpdate` that the sum changes by what one entry changes by, whatever the order of
  the picks. Both argue about a smallest set, or least number, for which the claim would
  fail (`SmallestSet`), so that no induction over an operator is needed.
- The inductive invariant `AInv` says for the present state, and for the state a revert goes
  back to, that the pools hold the sums of the troves (`Accounts`). During a liquidation the
  totals of the loop are split whole between depositors, redistribution, owner and liquidator
  and fit the pool's ZUSD (`Split`, `Tallied`); during a redemption the redeemer has
  what the loop will burn (`Affordable`). `SharesCovered` is the form in which the coverage of
  pending collateral is inductive: stakes times what the accumulator grew since their
  snapshots, plus the error carried over, is at most the DefaultPool's collateral, before any
  division. A redistribution adds to the sum exactly what it moves, a trove that applies
  its rewards takes at most its share, and every operation that changes one trove is an
  instance of one lemma (`AccountsAfter`).
- `SequencesStayBelowTCR`. The locals `entireSystemColl` and `entireSystemDebt` of
  `liquidateTroves` are what the system is left with once the liquidations so far are
  settled (`Tracked`, part of the invariant `TInv`). Batches do not track it: that is the run
  `zero_batch_tcr`.

`ZeroRatios_proofs`, for the same:

- `PendingDebtIsCovered`, the counterpart of `PendingETHIsCovered` for debt. It has a
  hypothesis: `hasPendingRewards` (Base) compares L_ETH alone with a trove's snapshot, so a
  redistribution so small that it adds to L_ZUSDDebt and not to L_ETH would leave debt
  pending at a trove that applies nothing and may change its stake. The theorem is about
  behaviours in which the accumulators grow together (`RewardsGrowTogether`). With the
  precision of the code such a redistribution takes collateral of less than a
  billionth of a billionth of the total stakes.
- `BorrowersKeepRatio`, under the same hypothesis: at a fixed price borrowers neither bring
  about Recovery Mode nor lower the ratio of the system in it by more than a rounding. The
  checks in Normal Mode are on the ratio itself. In Recovery Mode they are on one trove, and
  the argument is arithmetic: a trove opened above the system's ratio raises it
  (`RatioOfTwo`); more collateral and less debt raise it (`RatioOfLess`); and new debt that
  does not lower the trove's own ratio, which is at least CCR afterwards, costs the system
  at most one unit, because the old ratio was rounded down (`RatioOfPart`). That the trove's
  debt with its pending rewards is part of the system's (`PartOfSystem`) needs the accounts
  and the coverage of pending debt.

`Providers_proofs`:

- `AnswersAreOwn` and `CallbacksCalledOnce`, for any number of calls and blocks. Answers are
  handed out by position, so the invariant says that calls and callbacks of a request
  have the same positions, that all its calls are pending and ask for its block, and that no
  call is part of two requests.
- `BlocksComeFromTheSource` (listeners hang on the present source, and only while somebody
  listens), `SocketsStayWithThePage` (at most one socket alive, none after the page has
  closed), `ReceiptsAreFresh`. Each has its own strengthening: the socket in use is alive,
  and so is whatever is attached to; a timer and a socket exclude each other; a receipt's
  confirmations are counted from the block of the node that gave it.
  `closeWebSocket` cancels the reconnection timer only inside `if (this._wsProvider)`
  (64-73), so a page that closes while just the timer is left gets a socket later;
  `SocketsStayWithThePage` excuses exactly that case (`missed`).

`Frontend_proofs`:

- `StoresHoldTheirBlocks`, `CachedReadsAreNearTroves`, `ShownStoresMonitor`, for chains of any
  length and any number of stores and fetches. The invariant `StoreIInv` says of the chain
  that the total redistributed only grows and that at every block a trove's snapshot is the
  total of that block or of an earlier one; of a read under way that its total is of a block
  no later than the node's answers will be; of a fetch under way that its parts are from the block it was tagged with,
  or, without a tag, from blocks since it was sent; of a store that it holds what some fetch
  brought. A callback that waits for a store to load belongs to the mounted one.
- `PagesBelongToTheWallet`. The connection in the reducer is the primary wallet, access that
  is held was given to the account it is used for unless `crossed`, and the loader is shown
  only while a check is pending.

`Periphery_proofs`:

- `OthersStayUndisturbed`: for any number of depositors and front ends, and any precision,
  what a user does in the Stability Pool leaves the deposits and the collateral of all others
  exactly as they were, and their ZERO is not made less. The calls leave P, S, scale and
  epoch alone and only add to G; the invariant has P and its snapshots positive, and the tag
  of a deposit registered, since a registration sets the kickback rate by which the gain is
  shared.
- `DecayIsNotPostponed`: of the time since the last redemption at least half has
  counted for the decay of the base rate, up to a minute, however borrowings are timed.
- `FeesAreSplitWhole` and `GainsAreKept`. The invariant has snapshots at or below the
  accumulators, which only grow.
- `FetchedPriceIsGood`. The last good price was seen as soon as there are feeds.
- `NueImplementsPlain` is a refinement. With ZUSD and DLLR counted together, each call in
  DLLR is a call of `TrovePurse`, and no ZUSD stays in the contract. `NueCallsSpareZusd`: such
  a call takes none of the caller's ZUSD, except that `closeNueTrove` converts the debt it
  read before rewards were applied (BO 618), so that the pending debt is taken in ZUSD,
  and without it the call reverts.

`WebSocketAugmentedProvider`, `WalletConnector`, `FeeDistributor`, `PriceFeed` and `NueTroves`
have no run of their own: their properties are invariants that are nearly inductive, and the
proofs cover every instance.

The proofs rest on the named assumptions on constants in `SortedTroves`, `LiquityBase`,
`LiquityMath`, `TroveManagerBase`, `ZeroSystem`, `BaseRate`, `BatchedProvider` and
`BlockPolledLiquityStore`, which TLC evaluates in the runs. For the instances the definition
`Assumptions` is a hypothesis of the theorem instead: special values are not members of the
sets, and amounts are natural numbers.

Most leaves without arithmetic name Zenon. tlapm's translation to SMT slows down with every
leaf a module sends through it and gives up after five seconds. In the long modules only the
leaves that need the solver go there, and the slowest took under two.

## 6. Only model-checked

- By their form: the liveness properties (`WalkTerminates`, `TransactionsEnd`,
  `MountedStoreIsShown`, `EveryCallIsSettled`), and `ValidChangeIsMined` and
  `RefusedChangeReverts`, which use `ENABLED`.
- The limits of the SDK (`QuotedBorrowingIsMined`, `QuotedRedemptionIsMined`): that decay does
  not raise a rate is a claim about the recursion of `_decPow` for every number of
  minutes, which takes an induction over data.
- Bounds on accumulated rounding. The coverage of deposits, gains and issuance in the Stability
  Pool (`DepositsCoveredUpToRounding`, `GainsCovered`, `IssuanceCovered`) and the order of the
  list up to rounding (`ListInOrderUpToRounding`), with `RedeemsLowestFirst` and
  `DepositsStayForLiquidations`, which rest on it, bound an error by a small constant. In
  runs of a few transactions the bound holds; for every number of transactions the error may
  add up, and the bound that then holds is not known.
- `NoRevertAfterLiquidation` for liquidations that begin in Normal Mode. That they do not come to
  the last trove rests on the ratio of the system against those of the troves, and the pools
  and the troves differ by what redistributions rounded off. In Recovery Mode it is proved
  (`RecoveryModeKeepsWork`).
- `TypeOK` of `ZeroSystem` as a whole. `NothingIsOverdrawn` has all of it but the debt of the
  DefaultPool, which needs the hypothesis of `PendingDebtIsCovered`, and the range of the
  locals.
- That all stakers' gains together are covered by what ZEROStaking received is stated
  nowhere.

## 7. Known disagreements without a run

Met while modelling, visible in the guards and comments of the modules:

- SP 345: deposit and front end stake are rounded apart. The last depositor of a tag may
  find the stake a unit below the deposit; withdrawing "all" (the comment of
  `withdrawFromSP`) then reverts and a smaller amount does not.
- SP 595: after two offsets that each nearly empty the pool P is 1, and a third one computes 0
  and reverts at `assert(newP > 0)`.
- RedeemOps 310: `assert(newBaseRate > 0)` fails when the base rate has decayed to zero and
  the part of the supply that is redeemed, divided by BETA, rounds to zero.
- `BlockPolledLiquityStore.ts` 179-188: the first fetch has no block tag and may mix blocks,
  and a late answer puts the store back to an earlier block.
- `PopulatableEthersLiquity.ts` 811: `withdrawZusdAndConvertToDLLR` without a highest rate
  sends zero, which the contract refuses.

## 8. Not modelled

The parts marked so in `PROJECT.json`, with reasons. Among them are gas, ownership and
wiring (`setAddresses`), access control by caller, proxies and upgrades, ERC-20 allowances
and permits, events, deployment, and the layout of the user interface.

Most lines of the repository are not code of the system. `hardhatAccountsList100k.js` and
`hardhatAccountsList2k.js` are generated lists of test accounts, over 100,000 lines, and no
model can stand for them; the vendored USB transport, the fuzzer and the deployment scripts
make up much of the rest. Of the contracts, every operation that moves troves, pools,
deposits, stakes or fees is an action of a module.
