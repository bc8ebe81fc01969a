------------------------------ MODULE PriceFeed ------------------------------
(***************************************************************************)
(* The PriceFeed contract over its main and its backup oracle, each behind  *)
(* an adapter: MoCMedianizer passes on whether the medianizer had a price,  *)
(* RskOracle calls every answer a success, so its oracle can only fail by   *)
(* reverting, and with it the transaction.                                  *)
(***************************************************************************)
EXTENDS Naturals

CONSTANTS MoCMedianizers, RskOracles,  \* adapters that were deployed
          Prices,                      \* a set of positive prices
          NONE

VARIABLES oracle,         \* what the oracle behind each adapter has to say
          priceFeeds,     \* the adapters in use: 0 the main one, 1 the backup
          lastGoodPrice,
          fetched,        \* the price that fetchPrice last returned, NONE if it reverted
          seen            \* prices that working oracles in use had at some call

vars == <<oracle, priceFeeds, lastGoodPrice, fetched, seen>>

Adapters == MoCMedianizers \cup RskOracles

\* An oracle has a price or not; the medianizer's value is then whatever it last was, or 0.
States == [price : Prices \cup {0}, works : {FALSE}] \cup [price : Prices, works : {TRUE}]

reverts(f) == f = NONE \/ (f \in RskOracles /\ ~oracle[f].works)

latestAnswer(f) ==
  [price |-> oracle[f].price, success |-> f \in RskOracles \/ oracle[f].works]

works(f) == ~reverts(f) /\ latestAnswer(f).success

\* The contract looks at the feeds that are in use after the call.
look ==
  seen' = seen \cup {oracle[f].price : f \in {g \in {priceFeeds'[0], priceFeeds'[1]} \ {NONE} : oracle[g].works}}

oracleChanges(f) ==
  /\ oracle' \in {[oracle EXCEPT ![f] = s] : s \in States}
  /\ UNCHANGED <<priceFeeds, lastGoodPrice, fetched, seen>>

\* setAddress: the owner puts a working feed in place, and its price is not stored.
setAddress(i, f) ==
  /\ works(f)
  /\ priceFeeds' = [priceFeeds EXCEPT ![i] = f]
  /\ look
  /\ UNCHANGED <<oracle, lastGoodPrice, fetched>>

setAddresses(main, backup) ==
  /\ works(main) /\ works(backup)
  /\ priceFeeds' = [i \in 0..1 |-> IF i = 0 THEN main ELSE backup]
  /\ lastGoodPrice' = latestAnswer(main).price
  /\ look
  /\ UNCHANGED <<oracle, fetched>>

storePrice(price) ==
  /\ lastGoodPrice' = price
  /\ fetched' = price

\* The main feed first, then the backup, then the price that was stored last.
fetchPrice ==
  LET main == priceFeeds[0]
      backup == priceFeeds[1]
      failed(f) == ~reverts(f) /\ ~latestAnswer(f).success
  IN  /\ \/ works(main) /\ storePrice(latestAnswer(main).price)
         \/ failed(main) /\ works(backup) /\ storePrice(latestAnswer(backup).price)
         \/ failed(main) /\ failed(backup) /\ fetched' = lastGoodPrice /\ UNCHANGED lastGoodPrice
         \/ /\ reverts(main) \/ (failed(main) /\ reverts(backup))
            /\ fetched' = NONE
            /\ UNCHANGED lastGoodPrice
      /\ UNCHANGED <<oracle, priceFeeds>>
      /\ look

Init ==
  /\ oracle \in [Adapters -> States]
  /\ priceFeeds = [i \in 0..1 |-> NONE]
  /\ lastGoodPrice = 0
  /\ fetched = NONE
  /\ seen = {}

\* The deployment calls setAddresses first; setAddress replaces a feed.
Next ==
  \/ \E f \in Adapters : oracleChanges(f)
  \/ \E i \in 0..1, f \in Adapters : priceFeeds[i] # NONE /\ setAddress(i, f)
  \/ \E main, backup \in Adapters : setAddresses(main, backup)
  \/ fetchPrice

Spec == Init /\ [][Next]_vars

-----------------------------------------------------------------------------
\* fetchPrice: "If both fail return the last good price seen."  Every price it
\* returns is one that a working oracle in use had when the contract looked.
FetchedPriceWasSeen == fetched # NONE => fetched \in seen

=============================================================================
