# TLA+ models of the 0x API

This directory holds specifications of the logic in `src/src` that runs
concurrently, survives failures, or decides over several steps; the TLC models
that check them on small instances; and proofs, checked by TLAPS, for every
instance. Paths below are relative to `src/src` unless they start with `src/`.

## 1. The system

The repository serves the 0x API: quotes and swaps, an orderbook (SRA) fed by a
0x Mesh node, staking reports, and a *meta-transaction relay* that signs and
broadcasts users' meta-transactions with keys of its own. The runners in
`runners/` start each of them as a process; the processes share one PostgreSQL
database and talk to an Ethereum node.

| Component | Source | State it keeps | Operations | Hard behaviour |
|---|---|---|---|---|
| Transaction watcher and signer | `services/transaction_watcher_signer_service.ts`, `runners/transaction_watcher_signer_service_runner.ts` | table `transactions` (shared with the API), copies of rows during a pass, balances | a *pass*: sign unsubmitted rows, track broadcast rows, replace stuck rows, confirm included rows; heartbeat | broadcast and save are two steps; copies of rows go stale during a pass; passes overlap at startup; reorgs; evictions; exceptions end a pass |
| Signer | `utils/signer.ts` | none (keys) | nonce lookup, sign and broadcast, transfer to self | pending nonce read and used in different steps; lost answers |
| Meta-transaction API | `handlers/meta_transaction_handlers.ts`, `services/meta_transaction_service.ts` | rows of `transactions` | submit; quote, status, signer status | duplicate concurrent submissions; 100 s timeout against a late broadcast; a row reinserted over a live one |
| Rate limiters | `utils/rate-limiters/` | counts over `transactions` | `isAllowedAsync` | check-then-insert races; window boundaries |
| Signer status | `_updateSignerStatusAsync`, `isSignerLiveAsync` | one row of the key-value table | heartbeat, liveness check | staleness; an exception in the heartbeat |
| Order watcher | `services/order_watcher_service.ts`, `utils/order_utils.ts` | table `signed_orders` | sync with Mesh, subscription events | sync from an older snapshot while events write; reconnects |
| Mesh client | `utils/mesh_client.ts`, `utils/mesh_utils.ts` | none | post orders in chunks, map results | one chunk of several fails |
| Orderbook service | `services/orderbook_service.ts`, `utils/pagination_utils.ts` | none (reads `signed_orders`) | asset pairs, orderbook, orders, post order | sorting, pagination boundaries, a filter's second argument |
| Websocket service | `services/websocket_service.ts` | subscriptions per request id | subscribe, order events, close, ping and pong, stop | client-chosen ids collide; close during a broadcast; clients that vanish |
| Result cache | `utils/result_cache.ts` | last result and its expiry | get or refresh | concurrent refreshes, stale results |
| Swap service | `services/swap_service.ts`, `handlers/swap_handlers.ts`, `utils/service_utils.ts` | none (the caches) | quote and price, ETH wrapping | many cases of who fills, who pays, what is rounded; external failures |
| Market depth | `utils/market_depth_utils.ts` | none | buckets of a price range | boundaries of buckets, pools of one source |
| Staking data service | `services/staking_data_service.ts`, `queries/staking_queries.ts`, `utils/staking_utils.ts`, `handlers/staking_handlers.ts` | none (tables of an event pipeline) | epochs, pools, one pool, one delegator, events | epochs begin inside a block; answers of several queries |
| HTTP layer, health, metrics | `app.ts`, `runners/`, `schemas/`, ... | none | routing, parsing, serving | |
| `src/lib`, `src/react-material-dashboard` | | | | generated code; a user-interface template |

How they interact: the API inserts a row with status `unsubmitted` and polls it
until a transaction hash appears. The watcher finds the row in its next pass,
broadcasts a transaction through a signer and saves hash and status; later passes
move the row on. The API reports the row's status, and reads the heartbeat that
the watcher writes; limiters of both processes count the rows. The order watcher
writes `signed_orders`, which the orderbook service reads; the websocket service
listens to Mesh itself. The swap service asks caches for balances of gas tokens and
decimals. The staking service only reads what the event pipeline writes.

What makes each of them correct:

- *Watcher*: what it puts on the network is in the table, once; what the table
  says of the chain is true; final states stay; every row is decided in the end.
- *Submission and rate limiters*: one relayed transaction per meta-transaction, an
  answer for each request that names the row's transaction, no request past a dead
  watcher, limits overshot by no more than what was under way at once.
- *Order watcher and Mesh client*: when nothing is under way the table holds what
  Mesh says; a failure loses no live order; reconnecting repairs what a failure broke.
- *Websockets*: an update reaches exactly the open subscriptions it matches; the
  maps hold nothing of a client that is gone, and a client that vanished is dropped.
- *Caches*: no result older than its expiry, and one refresh, is served as fresh.
- *Swaps*: the buyer gets what was asked, up to the error of a sum of doubles; a quote can be executed by who asked.
- *Orderbook and depth*: sorted, complete and disjoint pages; a depth between what is
  surely there and what is there at most.
- *Staking*: figures that several queries compute in different ways agree, and what
  is said of the next and of past epochs stays true.

## 2. Plan

Done, in this order: the watcher with its node and the ledger its clients see; the
submission API with limiters and heartbeat; the order watcher with the Mesh client;
the websockets; the caches, swaps, orderbook, depth and chunks; the staking queries.
Then the proofs: types and truth of the watcher's table, submission API, websockets,
cache and affiliate fee; then what the watcher guarantees while its passes take turns,
up to the refinement of the ledger; the order watcher; the swap quotes; sums over
finite sets; the staking queries; and the lists, depths and chunks that other endpoints
answer with. Every safety property that a run checks is a theorem.

Left, in order of what each would add:

1. `MetaTxnApi` composed with `TransactionWatcher` in the place of its abstract
   watcher (both state machines are there; the product needs smaller bounds).
2. What still holds of rows that no fault touched after a crash between a broadcast
   and its save: the theorems about broadcasts assume that there is none.
3. The quote endpoint of the relay and the token prices of the swap service.

## 3. Modules

| Module | Content |
|---|---|
| `EthereumNode` | External node: mempool, mined transactions, head, gas price; mining, reorgs, evictions. |
| `TransactionWatcher` | The watcher; extends the node. |
| `MetaTxnLedger`, `TransactionWatcherRefinement` | What a client that polls the status is promised, and the mapping of the watcher's state to it. |
| `TransactionWatcherProofs` | Type correctness; what the table says of the chain is true, with any overlap of passes. |
| `TransactionWatcherRelayProofs` | What holds while passes take turns: records of broadcasts, final states, the refinement. |
| `MetaTxnApi` | Submission requests, limiters, heartbeat, beside an abstract watcher. |
| `MetaTxnApiProofs` | Types, single relay, answers, gate; the overshoot of the limits. |
| `MeshClient` | End states of orders, Mesh's answers to posted orders, chunks that fail. |
| `OrderWatcher`, `OrderWatcherProofs` | Subscription callbacks and sync, extending the client; their theorems. |
| `WebsocketService`, `WebsocketServiceProofs` | Connections and subscriptions; their theorems. |
| `ResultCache` | A cache under concurrent callers. |
| `SwapService` | Swap quotes as they are put together; extends the cache. |
| `OrderbookService`, `MarketDepth`, `Chunks` | Reads of the orderbook; the depth of a market; the chunking of posted orders. |
| `ApiRequests`, `ApiRequestsProofs` | The endpoints without a database row of their own, composed; their theorems: age of cached results, affiliate fee, soundness of quotes, lists and their pages, depth, chunks, types. |
| `StakingData`, `StakingDataProofs` | Staking queries over a log of chain events, and the requests that use several of them; their theorems. |
| `SumTheorems` | Sums over finite sets: what the proofs about staking, depth and chunks need of the community modules' `SumFunction`. |
| `MC...` | Values of the constants for TLC. |

### TransactionWatcher and the code

`rows` is the table, one row per primary key (`ref_hash`): a meta-transaction's
hash or, for the transfer to self that replaces a stuck transaction, its own
transaction hash. A pass `p` has a program counter `pc[p]`, the entities it has
loaded and not handled (`todo[p]`, and `doomed[p]` for those to abort), the entity
in its hands (`item[p]`) and the number it has read from outside (`mark[p]`).
`StartupPass` are the passes started once (by the constructor, through
`setAsyncExcludingImmediateInterval`, and by the runner); `IntervalPass` is
repeated by the polling interval, which excludes itself but not the others.

| Code (`transaction_watcher_signer_service.ts`) | Actions |
|---|---|
| 267-316 cancel or sign | `StartPass`, `Cancel`, `PrepareMetaTxn`, `SigningFails`, `BroadcastMetaTxn`, `BroadcastRefused`, `SaveSigned` |
| 177-246 track | `FindBroadcasted`, `Track`, `SaveTracked`, `SaveIncluded` |
| 248-262 abort | `FindSameNonce`, `Abort`, `SaveAborted` |
| 356-414 unstick | `FindStuck`, `PriceUnstick`, `SkipUnstick`, `UnstickThrows`, `Unstick`, `BroadcastReplacement`, `ReplacementRefused`, `SaveReplacement` |
| 415-472 confirm | `ReadLatestBlock`, `FindIncluded`, `Confirm`, `ConfirmThrows`, `SaveConfirmed`, `FinishPass` |
| exceptions | `BroadcastReplyLost`, `ReplacementReplyLost`, `ReadFails`, `SaveFails`; `Restart` for the process |

Rows of a result are handled in any order (the queries have no `ORDER BY`). A save
writes the whole row from the copy in hand, as TypeORM's `save` of a loaded entity
does.

Abstractions:

- A transaction is its content and its own hash. `from` and `nonce` are columns
  always written together with `txHash` and are read off it.
- `expectedAt` is reduced to whether it has passed (`late`). The code compares it
  with the wall clock before signing and with the latest block's time when
  tracking; one flag stands for both.
- Reads of one entity's handling that nothing else can tell apart are one step: the
  latest block's time and the lookup of the hash (`Track`; lateness only grows, so
  that an older reading is the same as a later `ExpectedAtPasses`), the count of
  pending rows and the nonce (`PrepareMetaTxn`; the count only prefers a signer).
- The balances that break ties between signers are any. Gas limits, gas used, call
  data and the receipt's status are left out.
- The unsticking multiplier (1.1) is "one level above the gas station's price", and
  the node takes a replacement that pays more than what it replaces.
- `RateLimiting` lets any row be over the limit. The runner configures no limiter;
  the integration tests and other deployments may.

### MetaTxnApi and the code

`pc[r]` is the await at which request `r` is suspended, `limiter[r]` the limiter
whose counts it waits for, `rows` the table. The watcher is reduced to what the API
can see of it: it gives an unsubmitted row a hash (`Broadcast`) or cancels it
(`Cancel`), and writes the heartbeat (`Heartbeat`).

| Code | Actions |
|---|---|
| `meta_transaction_handlers.ts` 209-269: key, lookup, gate, validation, answer | `Receive`, `FindTransaction`, `Validate`, `CheckLive` |
| `utils/rate-limiters/*` | `CheckLimit`, one step for each limiter of the composition |
| `meta_transaction_service.ts` 284-330: insert and poll | `Save`, `Poll` |
| `meta_transaction_service.ts` 380-410: the 100 s timer, which leaves the polling behind | `TimesOut` |
| watcher 520-560: `_updateSignerStatusAsync` | `Heartbeat` |

Four history variables serve the properties: `broadcasts` per meta-transaction,
`overlapped` (two requests of it were between lookup and save at once), `peak` (the
most requests of a key or taker that were past the gate at once) and `lastLive`.
Failures of the database are left out: they answer an error and change nothing.

### OrderWatcher, MeshClient and the code

`table[o]` and `mesh[o]` are the fillable amount of an order, 0 for none. A
notification changes `mesh` and starts a callback with its events; a callback that
has not taken its first step also stands for a notification on its way. Callbacks
that are free are alike, so that `FreeCallback` picks one.

| Code | Actions |
|---|---|
| `order_watcher_service.ts` 16-66 `syncOrderbookAsync` | `Find`, (`SplitOrdersByPinning`), `GetOrders`, `Post` for each class, `RemoveRejected`, `SaveMeshOrders` |
| 70-122: the subscription | `HandleEvents`: removals, additions, updates, each in its awaits; rows are deleted in chunks |
| `onReconnected`, the runner's start | `Connect`, `Disconnect`, `Crash` |
| exceptions | `CallbackFails`, `SyncFails`, a chunk whose post fails in `Post` |
| `mesh_client.ts` 20-82, `mesh_utils.ts` | `ValidationResults`, `CategoryOf` |

`inDoubt` is a history variable: the orders whose news overlapped with other news or
with a sync, or were lost, since the last sync that ran undisturbed.

### WebsocketService and the code

| Code (`websocket_service.ts`) | Actions |
|---|---|
| the server's `connection`, `_processConnection` | `Connect` |
| `_handleSubscribe`, `_handleError` | `Subscribe`, `BadMessage` |
| `_handleClose`, `pong`, `_cleanupConnections` | `Close`, `Pong`, `CleanupConnections` |
| `orderUpdate` and the matching of options | `OrderUpdate` (`Matches`) |
| `destroyAsync` | `Destroy` |
| the network | `PeerCloses`, `PeerVanishes` |

`idToSocket` and `idToOpts` are the service's two maps, `requestIds` what a socket
remembers. `wanted` is a history variable: what a client asked for last under an id.

### ApiRequests and what it composes

A behaviour of `ApiRequests` exercises one endpoint; the parts share no state but
the cache, which the swap service uses.

| Module | Code | Actions |
|---|---|---|
| `ResultCache` | `result_cache.ts` | `GetResult`, `Fetches`, `FetchFails`, `Take`; `CacheTick` is time |
| `SwapService` | `swap_handlers.ts`, `swap_service.ts`, `service_utils.ts` | `Receive`, `ServeWeth`, `Quoted`, `QuoterFails`, `Lookup`, `UseBalance`, `EstimateGas`, `UseDecimals`, `ServeQuote` |
| `OrderbookService` | `orderbook_service.ts`, `pagination_utils.ts`, `order_utils.ts` | `AskPage`; `TableWrite` and `ClockTick` around it |
| `MarketDepth` | `market_depth_utils.ts` | `CalculateDepth` |
| `Chunks` | `utils.ts` 50-74 | `ChunkItem`, `LastChunk` |

Abstractions: the asset-swapper library and the node answer anything of a set; a
percentage is a number of parts of `FeeBase`, and what the program gets for 1 plus a
percentage, a sum of two doubles, is a function of it, `OnePlus`, of which only a bound
on the error is assumed (`MaxSumError`, for the fees up to one that pass the checks); a price is an
integer scaled by `Scale`;
the clock stands still while swaps are exercised (how caches age is explored with the
cache by itself, where any caller may come at any time). A query returns its rows in
any order, and a list is sorted to any arrangement in which nothing comes before what it
compares as greater than, and what compares as equal stays in the order of the rows.
Samples of the depth grow, the distribution of buckets has base 1, and a market with no price at all, for
which the code computes `NaN`, is left out.

### StakingData and the code

`events` is the log of chain events, each with the position (block and transaction)
it was emitted at; the tables and views of the pipeline, which is not part of the
repository, are defined over it from how `staking_queries.ts` uses them. Each query
is an operator; `request` is one request with the answers of the queries it has
made. `Ask` and `Query` are the code's steps (one for each query it awaits); the
others are the chain's: `CreatePool`, `JoinPool`, `Stake`, `Unstake`, `MoveStake`,
`Fill`, `PayReward`, `EndEpoch`. The next event falls into the transaction of the
last one, the next transaction, or the next block. `MaxEvents` bounds the
log; no request comes once it is full, and nothing happens after an answer. Left out: a delegator's earned
rewards and the operator's share (both computed by views of the pipeline), ratios and
averages per ZRX (with their divisions by zero), metadata of pools. An average is
modelled as the sums and the number it is taken of.

## 4. Runs

| Run | Instance | Shows |
|---|---|---|
| `watcher_single` | 2 meta-transactions, 1 signer, nonces 0-1, interval pass only, one fault out of failing read, reorg, eviction | every broadcast is recorded or about to be (`BroadcastIsRecorded`); a meta-transaction is relayed once (`RelayedAtMostOnce`); rows do not deny what is on the network (`UnsubmittedIsNotOnNetwork`) |
| `watcher_chain` | the same, two faults out of failing read and eviction | `AbortedCannotBeMined` where meta-transactions and replacements compete for nonces; the watcher implements `MetaTxnLedger` (`ImplementsLedger`) |
| `watcher_faults` | 2 signers of which a restart may rotate, 1 meta-transaction and its replacements, up to three crashes, failing saves and reads, lost answers, evictions | `IncludedIsMined`, `AbortedCannotBeMined`, `ConfirmedIsBuried`, `SettledStaysSettled` |
| `watcher_live` | 1 meta-transaction, 1 nonce, 2 gas prices, one failing read or eviction | `ImplementsFairLedger` (the queue is emptied), `IncludedIsResolved`, `MinedIsNoticed`, `StuckIsReplaced` |
| `relay_api` | 3 requests, two of them for one meta-transaction; a daily limit of 1 on the key and a rolling limit of 1 on the taker; liveness window 1; two instants; two broadcasts per meta-transaction | `OvershootIsBounded`; `RelayedOnceUnlessConcurrent`; `AnswerNamesTheTransaction`; `LetThroughWhileLive`; `RequestsAreAnswered` |
| `order_feed` | 2 orders, one of them pinned and expiring, one ignored; amount 0 or 1; 2 changes of Mesh, 1 fault, 2 callbacks, 1 sync; posts and deletions in chunks of 1 | `TypeInvariant`; `MirrorsMesh`; `LiveRowsAreKept`; `RepairedByReconnecting` |
| `websocket` | 2 clients, 2 request ids, 3 orders (one ignored, one a bundle), 4 kinds of subscription, one client may vanish | `EntriesAreCurrent`; `RelevantOrdersAreSent`; `VanishedIsDropped` |
| `api_requests` | 2 callers with 8 kinds of swap request, four with a fee, whose sums with 1 are multiples of 4 of 40 parts; the cache over 4 instants; 4 orders, 3 filters, pages of 1, 2, 5 and 6, three instants; 300 markets in 4 buckets; up to 4 items in chunks | `TypeInvariant`; `ServedIsRecent`; `BuyerGetsWhatWasAsked`; `QuoteIsSound`; `ListingIsExact`; `DepthIsBetween`; `ChunksPartitionTheItems` |
| `staking` | 2 pools, 2 stakers, 1 maker; a log of two epochs and any three more events, each anywhere relative to the one before | `TypeInvariant`; `BooksAgree`; `AmountsAreCountedOnce`; `EventsExplainBalances`; `NextEpochComesTrue`; `EpochsAreSettled` |
| `staking_answers` | a log of one epoch, every request, and any three events between its queries | `AnswersFitTogether`; `ListedPoolsHaveStats` |

The type invariants of the watcher, the submission API and the websockets are
theorems, which no run repeats. `SettledStaysSettled`, the refinement and the
properties of `watcher_single` need passes that take turns, which these runs have by
having one; what holds of overlapping passes is proved for every set of them, as is,
for any number of rows and signers, what holds while they take turns (section 5).

Why the bounds are enough.

- *Watcher*: two nonces and two meta-transactions give a nonce gap, a replacement that
  competes with its original, and a second meta-transaction behind a stuck one;
  `MaxTxnBlock` below `MaxHead` leaves blocks for confirming what is mined;
  `MaxGasPrice` levels are needed only where replacements are replaced. One required
  confirmation distinguishes "included", "not deep enough" and "deep enough"; the
  theorems cover every number.
- *Relay*: a repeated meta-transaction, another one under the same key, and a limit
  that one row exhausts are what the races need; with window and day 1 the second
  instant is both past the window and another day. The theorems cover every number.
- *Orders*: an overtaking needs a change before and a change after a snapshot; two
  orders distinguish classes and chunks; a fault can be the sync's or a callback's.
- *Websockets*: two clients under one id are the collision; a bundle has assets that
  are not the order's own. The theorems cover every number.
- *Staking*: three events reach a boundary event before, in and after the transaction
  that starts an epoch, and the end of that epoch; the first two epochs of the log
  have fees, and a maker who changes pools, in them.
- *The rest*: the two sides of each comparison (an order that expires now, within the
  buffer and after it), an empty and an oversized page, a pool of one source in the same
  and in another bucket, a sum with a fee that is too small, too large and exact.

Deadlock is not checked where a system comes to rest: clients that have been
answered, orders that do not change any more, a log at its bound.

Runs that are expected to be violated state what a comment says and the
code does not do:

| Run | Statement | What happens |
|---|---|---|
| `watcher_disabled` | signing is off when `META_TXN_SIGNING_ENABLED` is (`config.ts:225`) | line 155 negates a promise, so that the check never fails |
| `order_sync_race` | the watcher persists discovered orders and syncs the database with Mesh (`runners/order_watcher_service_runner.ts:53`) | Mesh rejects an order that the sync has posted, then accepts it and notifies; the row that the notification has written is deleted by the sync (`order_watcher_service.ts:55`), and nothing saves it again |

### Fairness

- *Watcher*: `FairSpec` assumes that the event loop runs the continuation of every
  pass and the interval starts the next one (`WF(PassStep(p))`, Node's timers and
  promises), that the chain grows, within the bound, and that a row's `expectedAt`
  comes. It does not assume that signing succeeds, that anything is mined, or that
  faults end other than by the bound `MaxFaults`. Fairness is on a pass's steps as a
  whole: which rows are signed or fail is left open. With reorgs
  `IncludedIsResolved` fails, see the known limits.
- *Relay*: once a request is received its next step, or its timer, is taken. Nothing
  is assumed of the clients, the watcher or the clock, so that `RequestsAreAnswered`
  rests on the timer alone.
- *Orders*: the event loop runs each callback and each step of the sync, and the
  websocket client reconnects (its own retry). Events of Mesh are not assumed.
- *Websockets*: the ping interval fires, and a terminated socket emits `close`.
- The others state safety only.

### Known limits that no run states

Behaviour met while modelling. The models have it, and the properties are stated
around it.

- A pass that overlaps another (the constructor starts one,
  `utils/utils.ts:99-106`, and `runners/transaction_watcher_signer_service_runner.ts:75`
  a second) may save its older copy of a row as cancelled after the other has broadcast it.
- For an included transaction that a reorg has undone and the node has forgotten,
  the lookup throws (the watcher's line 231 says so) and nothing at line 434
  catches it: the row stays included, against the comment at line 436, and the rows
  after it are not looked at in any later pass.
- A row that is aborted because its replacement was mined may be saved as dropped by
  the same pass, from the copy it loaded before (`types.ts:588` and
  `src/integration-test/transaction_watcher_service_test.ts:177` expect aborted).
- The orderbook passes `isFreshOrder` to `filter`, whose second argument, the element's
  index, becomes the expiration buffer (`services/orderbook_service.ts:88`): the first
  order found is listed until it expires, the n-th is dropped n - 1 seconds before. The
  comment at `config.ts:155` and the default at `order_utils.ts:132` say that orders
  which expire within `SRA_ORDER_EXPIRATION_BUFFER_SECONDS` are left out.
  `ListingIsExact` does not hide this: it demands an order only if it outlives both the
  buffer and as many seconds as the table has rows, and excludes one only if it has
  expired; of those in between it says nothing.
- An affiliate's fee is added to 1 as a double (`swap_service.ts:521`,
  `service_utils.ts:220`), and the rounded sum scales what is bought: for 100 units and a
  fee of 0.14 (sum 1.1400000000000001) the buyer is offered 101, for 10^18 and 0.57 (sum
  1.5699999999999998) 999999999999999800. The test "can add a buy token affiliate fee to
  a buy quote" (`test/swap_test.ts:326`) draws a fee and expects the amount of the quote
  without one. `BuyerGetsWhatWasAsked` bounds the difference by the error of the sum.
- The sync saves (`order_watcher_service.ts:63`) what Mesh answered first (line 27): an
  order that a notification has removed in between is put back, until the next sync.
- A failure between the save of an included row and those of its siblings (line 210)
  leaves the siblings pending; no later pass aborts them.
- A stuck row of a key that was rotated out ends every pass before the confirming stage
  (line 407), as long as the row pays too little.
- A meta-transaction whose broadcast was answered by nobody is relayed again, or
  cancelled once its `expectedAt` has passed, although it may be mined.
- When a later chunk of posted orders fails, all are taken for rejected and lose their
  rows (`utils/mesh_client.ts:66`), until the next reconnection.
- A delegator without stake is answered with one entry of stake in pool `null`, from
  an outer join (`queries/staking_queries.ts:675`), although `types.ts:308` declares
  the pool as a string.

- A crash, or a failing save, between a broadcast and the save that records it
  makes the next pass relay the row again under another nonce; a replacement
  transaction broadcast so is watched by nobody.
- The depth of a confirmed row is computed from the block number stored before a reorg.
- The heartbeat is never written when metrics are disabled: the gauge is undefined and
  the call throws before the entry is saved, so that the API refuses every request.
- Requests that overlap with another for the same meta-transaction may queue a row
  again that was broadcast already.
- Two clients with the same request id share one subscription: the later one takes
  it over, and the earlier one's close ends it for both.
- An item longer than the chunk size makes the chunking loop push empty chunks for ever.
- A failing lookup of a token's decimals is cached as 18 for a day.
- A fill in the very transaction that starts an epoch counts for the pools (`>=`) and
  not for the epoch (`>`).
- An epoch in which only other pools were paid is missing from a pool's rewards.
- Answers made of several queries mix epochs when one ends in between.

## 5. Proofs

All proofs are for arbitrary constants under the named assumptions of their modules
(`NodeAssumption`, `WatcherAssumption`, `ApiAssumption`, `WebsocketAssumption`,
`CacheAssumption`, `SwapAssumption` and so on), which TLC evaluates in each run, and
rest on nothing else.

*Watcher.* `TypeCorrect` (`TransactionWatcherProofs`): `TypeOK` is not inductive: that
a row with an on-chain status has a hash, that what a pass is about to save has a key,
that `mark` is a price while unsticking, and that a pass only tracks pending rows are
needed as well (`TypeInv`). `StepFrame` states once what every step of a pass has in
common: it touches no other pass, saves only the row in its hands and broadcasts only
the transaction in its hands. `IncludedRowsAreMined`, `AbortedRowsAreDead` and
`ConfirmedRowsAreBuried` assume `"reorg" \notin Faults`. The table's truth alone is not inductive, as a pass saves
copies it made earlier. `ChainInv` requires every copy in a pass's memory to be true
too, every row picked for aborting to have lost its nonce, and the block number a
pass compares with to be no later than the head. `ChainGrows` and `TruthLasts` carry
the argument: without reorgs, what is true of a copy stays true, so that it does no
harm to save it late.

*Watcher, one pass at a time* (`TransactionWatcherRelayProofs`). Saving a whole row
from an old copy is only safe if nothing else has written the row since. These
theorems therefore have the hypothesis `[]PassesTakeTurns`: no pass runs while another
does. The polling interval guarantees it for its own passes (`SinglePassTakesTurns`);
the two passes at startup may break it, and section 4 says what goes wrong then.
`TurnInv` compares every copy that a pass holds with the row it will be written over,
label by label: a row to be signed is still unsubmitted and equal to its copy, one that
is tracked has the same hash and is not final, and so on.
`BroadcastsAreRecorded`, `EachIsRelayedAtMostOnce` and `UnsubmittedRowsAreNotOnNetwork`
assume `BroadcastsAreSaved`: none of the faults that separate a broadcast from its
row (a crash, a failing save, a lost answer). Failing reads, evictions and reorgs are
allowed. `RecordedInv` says that every transaction ever sent is in its own row or
in the hands of the pass that will save it there, so that two transactions of one
meta-transaction would have to be the same. `SettledRowsStaySettled` allows those
faults and excludes reorgs; `FinalInv` adds to the chain's invariant that a nonce is
used once (`SlotsUsedOnce`), that nothing pending has lost its nonce (`PoolIsOpen`),
and that no pass is about to overwrite a final row (`SavesNothingStale`).
`WatcherImplementsLedger` has both assumptions and maps each step to one of
`MetaTxnLedger` or a stutter; `LedgerInv` is the conjunction of the two invariants.

*Order watcher* (`OrderWatcherProofs`). `MirrorsMesh` speaks of a watcher at rest, so
`IInv` says how every piece of news under way relates to Mesh and the table, for any
number of overlapping callbacks and syncs and any faults: callbacks and snapshots do
not contradict Mesh or each other for an order out of doubt (`NewsAgree`); a row
without news under way is right, or a sync has deleted it and will write it again
(`RowsFit`); and an order that nothing disturbed since a sync began is either one of
the rows the sync found or is right, and is rejected by Mesh if Mesh does not watch it
(`UndisturbedFit`). The last part is what lets a sync that ends take an order out of
doubt again.

*Submission.* `RelayedOnce` and `AnswersNameTheTransaction` (`MetaTxnApiProofs`)
follow from `RelayInv`: a meta-transaction whose requests never overlapped has at most
one request between the lookup and the save, and no row as long as that one is under
way (`AloneInWindow`), so that the save inserts and never queues again; a row that was
broadcast is not queued (`BroadcastIsNotQueued`), one that is absent was not broadcast
(`AbsentIsUntouched`), and a row's hash was broadcast (`HashWasBroadcast`).
`GateIsSound` needs that the heartbeat, when it says live, is the last live one.
`OvershootBounded` is the subtle one: the limiters bound the
rows, and nothing bounds the requests past a limiter that have not saved yet.
`LimitInv` counts the two together: a request joins when its limiter saw fewer rows
than the limit, and turns from a request into a row when it saves. Days and windows
that pass only lower the counts, since no row is from the future (`CreatedBefore`).

*Websockets.* `EntriesStayCurrent` is inductive with the types. `OnlyRelevantOrdersAreSent`
also needs the converse, that a subscription has its entry as long as nobody else
uses its id (`SoleUserHasEntry`), which rests on what sockets remember
(`WantedIsRecorded`, `NewHasNoIds`).

*Cache.* `ServedRecently`: an entry is written at most a refresh after its result was
sampled (`SampledBeforeWritten`) since no refresh lasts longer (`FetchingInTime`);
which of two overlapping refreshes writes last does not matter.

*Affiliate fee.* `BuyersGetWhatTheyAsk` rests on `RoundingsCancel`: the amount times a
factor, rounded down, less the fee's share of it, rounded down too, differs from the
amount by less than one unit and the share by which the factor differs from 1 plus the
fee, whichever way it does. `FeeAssumption` bounds that share and no more is assumed of
the sum. Where it is exact the offer is within less than one unit of an integer, and so
equal to it. `SwapInv` carries the amounts through the steps, and that larger fees than
one have been refused.

*Swap quotes.* `QuotesAreSound`: what a quote promises its taker is fixed in several
places along the request (the sources to exclude, the balance of gas tokens, the
estimate that replaces the library's, the rounding of fees). `RequestsFit` says at each
await what has been established so far and that what is read from the shared cache
has the shape the rest relies on (`ResultsFit`, `LookupsFit`), for every answer of
the library and the node and every amount.

*Lists and their pages.* `ListingsAreExact`: the walk through the pages reads every page
from another arrangement of the rows. `BookInv` says that what a client has got is the
first part (`First`) of one list: of a book in which the order of the rows makes no
difference, of *the* book, which is unique (`BookIsUnique`, by the first place where
two sorted arrangements of one set differ); after one page, of any sorting of the rows
that were kept (`FreshRows` bounds them whatever their indices were). `PageIs`
continues a first part by the next page, and a complete one is everything
(`ShownInFull`). That the two comparisons of the code sort best first is
`ComparedBids` and `ComparedAsks`, over ratios of any natural numbers.

*Depth.* `DepthIsBounded`: prices of buckets never get better from one to the next
although each is rounded by itself (`PricesAreALadder`), so that a sample falls into a
bucket no later than one whose price it reaches (`ReachedBuckets`). A bucket gets of a
pool no more than can be reached at its price (`AllocatedIsReachable`), and some bucket
up to it gets all that can be reached if the samples grow (`ReachableIsAllocated`);
the sum over pools and the maximum over buckets keep both bounds (`DepthBounds`). The
hypothesis on growing samples is that of the property.

*Chunks.* `ChunksAreExact`: `ChunkInv` says that closed chunks, current chunk and what
is left are the items in their order, that the counted length is that of the current
chunk, and that no chunk is closed empty if every item fits. `FlattenSeq` is defined by
recursion; that it appends (`FlattenOfAppended`) is proved from the existence and the
agreement of the functions it chooses, by an induction over a set instead of a predicate
(`NaturalInduction`).

`TypesAreCorrect` puts the parts together. The invariant of all endpoints but the swaps
is `AnswersInv`.

*Sums* (`SumTheorems`). `SumFunction` is a fold, defined by a choice of a recursive
function. That such a function exists, is unique and has the usual laws (sums of
unions, of parts, of differences, of one sum by another's values) is proved from the
library's facts about finite sets, by contradiction with a smallest set that breaks the
law (`SmallestSubset`), which takes no induction theorem with an operator parameter.

*Staking* (`StakingDataProofs`), for every log, every number of pools, stakers and
makers. `LogInv` says that the log is typed, in order and has an epoch. The proofs turn
on what one more event adds: it comes after all others, so the rows of a begun epoch
(`EpochRowsAfter`) and the fills of an ended one do not change any more
(`ReportsAreSettled`), and an event that starts an epoch finds before it exactly the
rows that were announced (`AnnouncementsComeTrue`). `HistoryExplainsBalances` and
`ListsAreCovered` need no more. The others hold of logs that the staking contracts
could have written, and assume it of the log a behaviour starts with:
`LawfulStakes` (stake moves between created pools, nobody takes more from a pool than
is there or stakes more than is deposited, at any prefix of the log) and
`LawfulPayments` (no fill before the first epoch, one reward for a pool in an epoch and
none before the second). `LawfulStakesHold` and `LawfulPaymentsHold` show that every
step keeps them, and `FirstEpochIsLawful` that a log which begins with an epoch has
them, so that the assumption is only about how a behaviour may start. With them
`StatisticsAreSound` and `BothBooksAgree` follow from sums over stakers and pools
(`StakeOfEach`, `StakeInEach`) and from `RowsBeforeEpoch`: the rows before an epoch are
a prefix of the log, and those between it and the snapshot are of the transaction
that starts the epoch. `NothingIsCountedTwice` rests on `EpochsPartitionFills`: the
epochs partition the fills outside the boundary transactions.
`AnswersAreCoherent` is about the requests: while no epoch ends, what was read of the
current one stays as it was (`OneEpochInv`), and what was counted for a pool stays
counted, or is of a boundary transaction (`PoolPart`, `CountedRowsStay`), so that a
part read later is never less than one read before.

Checked by TLC only. All liveness properties (`ImplementsFairLedger`,
`IncludedIsResolved`, `MinedIsNoticed`, `StuckIsReplaced`, `RequestsAreAnswered`,
`RepairedByReconnecting`, `VanishedIsDropped`) rest on fairness and `ENABLED`, which are
out of the prover's reach.

## 6. Not modelled

- *Value limiter* (`utils/rate-limiters/`): the factory in `app.ts` throws for it, so
  that no process runs it.
- *Gas price cache* (`utils/gas_station_utils.ts`): the price may change at any step
  of the model, which covers a price that is a minute old.
- *Quote, price and status endpoints of the relay; token prices and token list of the
  swap service; orders by hash; fee recipients*: reads that change nothing, or
  arithmetic on answers of libraries that are not in the repository.
- *HTTP layer, health checks, metrics*: wiring, parsing, formatting and pure I/O.
- *Generated and static code*: `src/lib` and `src/lib/src` are two compiled copies of
  `src/src`; the token tables, ABIs, types, schemas and migrations are data; the
  dashboard is a template. They are most of the repository's lines, which is why the
  share of all lines that the models cover is small although the state machines of
  the services are covered nearly throughout.
