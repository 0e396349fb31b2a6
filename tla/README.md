# OrdoFi: TLA+ models, model checking and proofs

OrdoFi is an order-flow auction for an EVM chain with a fast sequencer. Users send
transactions to a *gateway*; the *auction* service holds each one for a short window while
*searchers* bid for the right to run behind it, closes the round at the second price,
publishes a signed receipt, sends the transaction, and charges the winner's bond in the
*OrdoSettlement* contract. Receipts are kept in a log whose Merkle roots are anchored in
*OrdoReceiptLog*. Beside it, a *batcher* collects signed limit orders and settles them at one
price per token through the *OrdoBatch* contract.

This directory models the parts of the system that decide who pays what, and checks and
proves what the code promises about them. Paths below are relative to `src/`.

## 1. The system

| Component | State | Operations | Talks to |
|---|---|---|---|
| **OrdoSettlement** `contracts/src/OrdoSettlement.sol` | bonds, claims, charged opportunities, withdrawal requests, owner, auctioneer, treasury, split, lock | deposit, requestWithdraw, cancelWithdraw, withdrawBond, settle, claim, role setters | searchers, auction, beneficiaries (paid by call, may re-enter) |
| **Auction** `apps/auction/src/{main,auctioneer,bonds,settle}.ts` | open rounds, collateral cache, holds, settlement records | submit an order, bid over a websocket, close a round, dispatch, settle | gateway, searchers, OrdoSettlement, receipts |
| **Receipt audit** `packages/core/src/receipt.ts` | none | auditReceipt, auditClearingPrice, Merkle proofs | run by searchers on receipts and acknowledgements |
| **Receipt log** `apps/auction/src/receipts.ts` | receipts in memory, an append-only file, `lastCommittedCount`, `committing` | publishReceipt, maybeCommitRoot, syncAnchorState, hydrate | disk, OrdoReceiptLog |
| **OrdoReceiptLog** `contracts/src/OrdoReceiptLog.sol` | commitments (root, count) | commit, verify | auctioneer key of OrdoSettlement |
| **OrdoBatch** `contracts/src/OrdoBatch.sol` | used nonces, escrow per order and in total, roles, fee cap | depositOrder, refund, cancel, settle, role setters, sweep | traders, solver, Uniswap pools |
| **Batcher** `apps/batcher/src` | orders map (a life cycle in memory), `inFlight`, per-tick lock, send pause | intake over HTTP, tick, solve, dry run, send, wait for the receipt | OrdoBatch, RPC nodes |
| **Gateway order flow** `apps/gateway/src/orderflow.ts` | one call per transaction | post to the auction, wait, send directly | auction, RPC nodes |
| **Gateway fast path** `apps/gateway/src/{fastpath,main}.ts` | response cache with the call in flight, slots per address and the line for them, hedge timer | answer a read, join a call, hedge it | upstream nodes, head watcher |
| **Gateway subscriptions** `apps/gateway/src/{subscribe,ws}.ts` | hub of subscribers, `last`, chain of log queries | subscribe, drop, tick, announce, deliver logs | upstream node, cache of the fast path |
| **Stakes** `contracts/src/OrdoStakes.sol` | shares and liquidity; staked shares and a reward stream | deposit, withdraw, harvest, stake, claim, zap, compound | Uniswap position |
| **Watcher** `apps/watcher/src` | next block, calls of a chunk, `checkpoint.json`, the V4 walk | process a block, commit, walk back, resume | RPC nodes, store |
| **Store** `packages/store/src/index.ts` | SQLite: candles, pools, trades, metadata | upserts and queries | watcher, web |
| **Ladders, routers, stealth sends, SDK, bots, web** | little or none shared | — | — |

`PROJECT.json` lists every component with its status and, for those not modelled, the reason.

**What is hard here.** The auction is a single Node process whose handlers interleave at
every `await`: two bids are checked before either takes its hold, a check finishes after its
round has closed, a cached reading of the chain is older than the decision it supports. The
contracts interleave with everything: a bond moves between reading and charging it, a paid
account re-enters. The receipt log survives crashes, torn lines and RPC calls whose outcome
is unknown. OrdoBatch trusts neither its solver nor its owner with the ether deposited in
it, and the batcher has to tell users the fate of orders whose settlement it may never see.
The gateway shares one call among requests that time out, hedge and give up, and one poller
among subscribers that come and go in the middle of its ticks. The watcher indexes blocks
concurrently, retries while calls of the failed attempt still run, and may die between two
checkpoints. `PROJECT.json` lists each hazard at its line, with the properties that would catch it.

**What makes each part correct.**
- OrdoSettlement: it holds what it owes; a bond falls only by a charge its owner signed, once
  per opportunity, or by a matured withdrawal; credits are not lost; withdrawals end.
- Auction: what it sells it can collect, but for the stakes its checks overlook; what it
  acknowledged is in the receipt; what is charged is what was published; holds end; every order
  is sent once.
- Receipt log: a commitment fixes the whole history before it; the count never falls; a
  failure costs little and is not reported as anchored.
- OrdoBatch: waiting deposits are covered whatever the solver and owner do; a trader's money
  changes only by filled orders at no worse than their limits; deposits come back; an order
  has one fate.
- Batcher: what a user is told agrees with the chain; every order ends.
- Gateway: a transaction is always sent by somebody or its sender told; slots are neither lost
  nor doubled; answers are as fresh as promised; heads and logs arrive in order
  and once while the watcher runs, none passed over for a failed read.
- Stakes: the farm can pay what was earned; no call takes back earnings or lowers a share's
  worth.
- Watcher: no block is passed over, no pool missed, candles independent of the order of
  arrival; it reaches the head again and again.

## 2. The modules

```
OrdoSettlement ──┬── CollateralQuote ─────────┬─ AuctionHouseProofs  (of the contract, the reading,
SecondPrice ─────┴── AuctionHouse ── OrderFlow ─┘                      the auction, the order flow)
AnchoredHistory ◄─── ReceiptLog ── ReceiptLogProofs          (◄ is "implements")
OrderLifecycle ◄──── OrdoBatch ── OrdoBatchProofs
      └───────────── Batcher ── BatcherProofs   (over OrderLifecycle in place of OrdoBatch)
ReadPath ─────────── HeadFeed ── GatewayProofs
Candles ──────────── Watcher ── WatcherProofs
OrdoStakes ───────── OrdoStakesProofs
SumTheorems (sums over finite sets, cited by the proofs of the three contracts with money and
             of the auction; least elements, cited by those of the watcher)
```
`MC<module>` gives each specification its small instances; a `.cfg` belongs to each run.

**OrdoSettlement** — one action per external function that does not revert. `withdrawBond`
and `claim` pay an account before they return: such an action makes its effects and the
payment and takes the lock, anything that is not `nonReentrant` may be called meanwhile, and
`CallReturns` ends it. An account in `Rejecting` refuses ETH, so a payment to it reverts.
`wallet` and `balance` are the chain's ETH outside and inside the contract. Signatures are
the set `SignedBids`; `settled` holds the `Settled` event, of which the contract's own flag
is the projection. `Splits` are bounded by 10000 as the constructor and `setSplit` demand.

**CollateralQuote** — adds a reading of `collateral()` (`bonds.ts`, `collateralOf`) and what
has been charged since. It states what the auction's checks rest on.

**SecondPrice** — `Auction.close` and the audit. Both sort with
`(a, b) => b > a ? 1 : -1`, which answers -1 both ways for equal bids, so the result is what
V8's sort does with an inconsistent comparison: its run detection sees `cmp(a[1], a[0]) < 0`
and reverses the pair, its binary insertion goes to the left of an equal element, and the
later of two equal bids ends up first. Auction and audit run the same sort on the same order,
and that is what makes them agree; `HonestReceiptPasses` depends on it. `AuditReceipt` has the
three findings of the audit: the acknowledged amount, the signature of every listed bid, the
winner and the price.

**AuctionHouse** — the auction service composed with OrdoSettlement (it EXTENDS it: the
chain's actions are its environment). An action is a stretch of a handler between two
awaits. An `await` of something already known continues in the same turn of the event loop,
so a new turn (message, RPC reply, timer) waits until the process is `Idle`; the messages of
one network read arrive together and their continuations do interleave (`Receiving`). A bid
goes *cached* or *asked* → *collectable* or *refused* → *answered*; what a node answers to an
asked one is read at one instant (`NodeReads`) and arrives up to `Latency` later, is cached with
the time of its arrival, or never arrives. A round goes *open* → *closed* →
*published* → *dispatched* → *done* (or *failed*, *lost*). RPC failures, a failing disk and
crashes share the budget `Failures`. Signing is local and cannot fail; the auctioneer key
and the contract address are configured (without them the service runs without collateral
checks, which is not modelled). Users' addresses may fail to be recovered (`zero`). Addresses
are in canonical form: the spelling of an address is not modelled (see hazards). `overlooked` is
history: the searchers with a stake that neither the holds nor the reading of an accepted
check showed, until nothing of theirs is at stake.

**AnchoredHistory** — what the log and its contract promise: a growing list of issued
receipts, and commitments to some of them whose counts are right and never fall.

**ReceiptLog** — `receipts.ts` and OrdoReceiptLog. Every place keeps receipts in the order of
issue, so a receipt is its issue number, a list is a set, and a root is the set it was built
over (hashes do not collide). A write may leave nothing, part of a line, or all but the
newline; the next line then runs into it. A process may die or take an unreadable file for a
new one, a call's answer may be lost after it was sent, commits execute in nonce order and
may revert, and another key may be made auctioneer.

**OrdoBatch** — one action per external function. The solver picks any set of orders, any
prices and any interactions, which come to a swap: what they spend and return of each token in
all, in an order that lets each be paid. `Prepared` is `_prepare` with all its reverts,
`Expected`/`Checked` the balance check, `purse` and `held` the tokens outside and inside the
contract. The paying functions hold the lock. What an account that is paid ether may still call
is `cancel`, which could as well come before or after, and, if it is the owner, the setters, of
which the same holds, and `sweep`: `escrowTotal` has been reduced by then, so the owner takes
what the settlement left over and the check may still pass, with no fee (`Sweeps`, `After`).
A transfer to the contract from inside a payment is left out. `simulate` always reverts.
Receivers are accounts (the contract resolves 0 to the owner; a receiver that is the
contract itself is left out), orders differing in `appData` only are not distinguished.
`Donate` is a plain transfer to the contract, `Tick` a later block.

**OrderFlow** — `routeOrderFlow` over AuctionHouse (EXTENDS). The gateway posts the order,
waits at most `Patience`, and without an answer sends the transaction itself; an auction that
throws, dies, is unreachable or slow gives no answer, one that answers "not sent" is believed.

**OrderLifecycle** — what an order goes through on the chain: signed or deposited, then
filled, cancelled or refunded, at most one order per owner and nonce. `OrdersLiveOnce` is the
refinement: OrdoBatch, with escrow, nonces and fills projected to a state per order, takes
only steps of it.

**Batcher** — `main.ts` and what `chain.ts` asks the chain. A POST is three awaits long, so
two of the same order can both find no entry; the timer's tick is locked; a tick expires,
looks for deposits, and takes the pending orders of each pair through solve, dry run, send
and receipt. Whether an order is signed is a matter of the request: posted without its
signature, it waits for a deposit, and a later POST with the signature is answered from the map.
A transaction may be refused, sent although the call threw, revert for whatever has changed
since the dry run, land after the 15 s of `Chain.receipt`, or never. A restart forgets the map. Prices are not modelled: the solver
returns any set of pending orders of the pair, or none.

**ReadPath** — how one address reads the head: `MicroCache` with its shared loads,
`InflightCap` with its queue, `hedged` with both orders of its two answers. Block *t* is the
head at instant *t*, so staleness is a distance. The hedge budget is a free choice at the
moment the hedge would fire. **HeadFeed** extends it with `Hub`, `settle` and `HeadWatcher`:
the poller starts with the first subscriber and stops with the last, in the middle of a tick
perhaps; missed blocks are read together and announced in order; logs are asked for at once and
delivered through a chain of promises, which `stop` leaves alone, to whoever is subscribed when
they come. `gone`, `raced` and `stops` are history.

**OrdoStakes** — vault, farm and zap. The position is its liquidity and its fees, a deposit
the liquidity it adds; share and reward arithmetic is the contract's, with its roundings,
over a small `Precision`. `FarmStorage` is the farm's
state and its functions are operators on it, so that a call made of several is their
composition. The zap's calls happen in one transaction and are one action each.

**Candles** — `upsertCandles`, as functions of the row and the points of a block. **Watcher** —
the live loop (`Start`, `FetchHead`, `BeginChunk`, `BlockReturns`, `BlockThrows`,
`FinishChunk`, `FinishPass`), the calls that a failed chunk leaves running (`StrayEnds`), the
V4 walk, whose windows a lagging node may answer short (`short`), and `Crash`, also in the middle of a block's writes or of a commit. A block is
processed in one action at its end: its reads come first and all writes of `processBlock`
follow the last await. The file `checkpoint.json` is written in place and may be left torn.

**Names ending in `_Bug`** are mistakes the definition that follows could contain. Each breaks
one property under its run:

| Run | Property ← mistake |
|---|---|
| settlement | TypeOK ← `Lesser_Bug` (pays the request, not what is left of the bond); Solvent ← `Shares_BugRounding`; QuoteBacked ← `ReadyAt_Bug` (a second request keeps the first one's date); DebitsAccounted ← `Chargeable_BugReplay` (charges an opportunity twice); UserFloor ← `Shares_BugAbsentApp`; ClaimsKept ← `SetProtocolTreasury_Bug` (moves the credit along); WithdrawalsEnd ← `Matured_BugLate` |
| order_flow | ReceiptComplete ← `Accepts_Bug` (takes bids after the close); HonestReceiptPasses ← `ReceiptOf_Bug` (publishes the first price); ChargedAsPublished ← `ChargeOf_Bug`; HoldsReleased ← `HoldsAfterClose_Bug` (losers are not released); EveryOrderSent ← `NoAnswer_Bug` (no fallback when the auction gives no answer) |
| sales | CollectableUnlessOverlooked ← `Collateral_Bug` (counts the pending withdrawal) |
| receipt_log | LogTypeOK ← `CommitCall_Bug`; WholeHistory, LossBounded ← `Hydrated_Bug` (drops the last line); AnchoredCountWhenIntact ← `Committed_Bug` (records the current count, not the one sent); KeepsHistory ← `Committable_Bug` (no check of the count) |
| batch_escrow | BatchTypeOK ← `FeeAllowed_Bug`; EscrowCovered ← `Watched_Bug` (WETH watched only when priced); NonceFillsOnce ← `NonceFree_Bug` (remembers orders, not nonces); BooksBalance ← `Pulls_Bug` (a signed order is pulled although deposited); EscrowReturned ← `Refundable_Bug` (no refund once the nonce is used); OrdersLiveOnce ← `Refundable_BugEarly` (refunds an order that can still be filled) |
| batcher | ToldAsItIs ← `Expirable_BugAny` (expires what is being settled or is filled); EveryOrderEnds ← `Expirable_BugPending` (orders that wait for a deposit never expire) |
| gateway_reads | SlotsKept ← `CountAfter_Bug` (a slot handed over is also given back); AnswersFresh ← `Fresh_Bug` (no expiry); HeadsInOrder ← `LastMeanwhile_Bug` (`last` moves before the missed blocks are read); StartsAtHead ← `Forgotten_Bug` (`stop` keeps `last`); LogsInOrder ← `Deliverable_Bug` (log queries are not chained); EveryRequestEnds ← `HedgeDecides_Bug` (a call ends undecided when its hedge fails after its primary) |
| stakes | StakesTypeOK ← `Slice_Bug`; RewardsBacked ← `Leftover_Bug` (counts the stream from the last update); EarnedKept ← `Unstaked_Bug` (does not credit first); WorthKept ← `Minted_Bug` (shares one to one) |
| watcher | IndexComplete ← `Retrying_Bug` (a failed chunk is stepped over); PoolsComplete ← `ScannedAt_Bug` (the loop moves the walk's checkpoint before they met); CandlesExact ← `Upserted_Bug` (the last arrival closes); CatchesUp ← `CaughtUp_Bug` (waits at the head) |

## 3. The runs

Every run is finite by the bounds its cfg gives; each module names them with `bound:` in its
CONSTANTS. Times are ticks: only their order matters to the code. Deadlock checking is off
where the bounded system really stops: all orders done, all receipts issued, the last instant
reached.

| Run | Shows | Bounds and why they are enough |
|---|---|---|
| settlement | the contract's money under reentrancy and role changes; credits survive rotations; matured withdrawals end; a reading of `collateral()` stays backed | a searcher who is also user, payee and at times owner, auctioneer or treasury, and a second account that holds roles, bids without a signature and refuses ETH; two signed bids on two opportunities, one of them also bid on unsigned; a split in halves, which rounds a charge of one wei; delay 1, two instants: a request can mature, be replaced and be overtaken by a charge inside one quote |
| order_flow | acknowledgement, receipt, audit and charge agree; holds end; every order is sent | one round; two bids of three, by one searcher or two, equal or not, one of them unsigned; a user who cannot be recovered; one failure or crash; a window shorter than a tick, a landing and a gateway's patience of one (200 ms and 3 s by default), two instants, the second of which outdates a cached reading and a hold: checks, close, publication, submission and the gateway's time-out interleave |
| sales | a settlement is turned away only after an accepted check overlooked a stake | one searcher with a bond of one and a bid of it in each of two rounds, both open or one after the other; it asks its bond back, cancels, withdraws and pays in; replies a tick late, a cache of one tick, one failure or crash, withdrawal delay three, four instants: a reading can be late and cached, its hold replaced or released, its charge under way, and a withdrawal mature |
| receipt_log | the history is anchored whole, damage is bounded, AnchoredHistory is implemented | five receipts, a commit every two, four failures, one revoked key: two torn writes in a row, a lost answer and a restart fit together |
| batch_escrow | escrow and traders' books under an adverse solver and owner; OrderLifecycle is implemented | five orders: two of one owner sharing a nonce, one from an account that refuses ETH, two for ETH out, one of those paid to a possible owner, who may sweep meanwhile; fair prices, prices that leave a fee, prices without WETH; swaps that are fair, too small to notice, or give money away; two privileged accounts; three instants |
| batcher | what users are told agrees with the chain; every order ends | a signed order and a deposit of one pair that can share a batch, two POSTs (the second may repeat the first order, with or without the signature), one failure that is counted (a restart, a refused or ambiguous send, a failed dry run, an owner who cancels or moves the tokens), any number of reverts, failed reads and receipts given up, four instants (one after the last deadline): a late settlement, a retry, an expiry and a pause fit together |
| gateway_reads | slots, freshness, and the order of heads and logs; every request ends | three requests for one slot (one runs, one is handed the slot, one gives up or shares) or two subscriptions of two sockets, four ticks, an upstream one block behind; the two workloads run apart, since they share only the cache, which `head_goes_back` exercises |
| stakes | rewards backed, earnings and worth kept | two accounts (symmetric), one unit per claim or move, liquidity up to 6, two overlapping streams of length two |
| watcher | the index is complete, candles exact, the head reached | four blocks in two minutes, one block without swaps and one whose price moves inside it, three calls at a time, batches of three, a commit every two blocks, a checkpoint resumed up to three behind; two failures: a chunk that fails with a straggler and a torn checkpoint fit together; a window answered short counts as one |
| bond_backs_twice, sold_uncollected, head_goes_back | the findings below | the smallest instance that shows each |

In **sales** the auction's claim is checked for all that the code takes care of. That it
"never sells something it can't collect" (`README.md:334-335`) is not true without a condition:
`sold_uncollected` is a run of two sales in which every clock is kept and nothing fails.
`CollectableUnlessOverlooked` says that the ways there are of selling too much are the four of
`Overlooks`: a bid found collectable whose hold is not taken yet, a settlement sent and not
executed (or executed after the reading), an own hold replaced while the check waited, a higher
bid in the same round whose hold this one replaces. A searcher to whom none of these has happened
since it last had nothing at stake is charged what it was sold for, whatever it asks back,
withdraws, rebids or is refused, and however old the reading was.
`SaleConditions`, which TLC evaluates, are the four conditions it rests on. `DelayCovers`: the
withdrawal delay is longer than the age of a reading (its latency and its time in the cache), the
window and the landing together; the deployment chooses it
(`contracts/script/DeploySettlementV2.s.sol` takes the delay as a parameter; cache 5 s, window
200 ms by default). `HoldsOutlast`: a hold does not expire in the window it was taken in, or in
the settlement it was narrowed for. `BidsAreSigned`, `UsersAreKnown`: the contract has no other
reason to revert.

**Fairness.** `Fairness` of OrdoSettlement: blocks keep coming, a call that was started
returns, and a searcher whose request has matured calls `withdrawBond` when it can be called
again and again (strong, because another account's call holds the lock now and then).
`HouseFairness`: the runtime runs ready continuations and timers and settles promises, and
the sequencer executes what it was sent; strong for the stages of an order, because each waits
for an idle event loop. Bids, new orders, failures and bond movements are never assumed.
`BatchFairness`: blocks keep coming and somebody asks for each refund that is due (anybody
may). `FlowFairness` adds the gateway's timer and its direct send. `BatcherFairness`: the
interval timer fires, each pair's promise settles, time passes (so an order reaches its
`validTo`); nothing is assumed of the chain, which may never execute a settlement.
`GatewayFairness`: timers fire, the runtime runs some ready continuation, and upstream calls
end by answer or abort; reads only. The watcher's `Fairness`: a supervisor restarts the process and its
promises settle; the number of failures is bounded, so in the end nodes answer. The V4 walk is
not assumed to progress. ReceiptLog states no liveness: the code promises none. OrdoStakes
has none worth stating: every call is its caller's choice.

### Findings

Each is a run that violates what a comment or document says; `PROJECT.json` quotes the line.

1. **bond_backs_twice** — `main.ts:425-427`: one bond cannot back two concurrent wins. The hold
   is taken after the `await` of the check; two bids on two open rounds that arrive together
   and find the collateral cached are both accepted against one bond.
2. **head_goes_back** — `gateway/src/main.ts:209-211`: a cached answer is kept for as long as it
   can be exact. `onBlock` caches every block it is given; after a tick that stepped over
   blocks, the older ones overwrite the head.
3. **sold_uncollected** — `README.md:334-335`: the auction never sells something it can't
   collect. The winner's hold is released when its settlement has been submitted
   (`auction/src/main.ts:235`), while `collateral()` still counts what it will take; a bid in the
   next round is found collectable against it, and the later settlement reverts.

### Remarks

Narrower disagreements met while modelling. They are stated as the conditions under which the
properties above hold, and have no run of their own.

- *What an honest receipt fails.* `receipt.ts:22-24` calls a mismatch proof of misconduct.
  `auditReceipt` compares with the searcher's first bid in the receipt (line 334), so of two
  acknowledgements one fails against an honest receipt. And every listed bid must carry its
  searcher's signature (lines 345-348, `README.md:186-190`), while the auction accepts and lists
  bids without one, or with a wrong one. `HonestReceiptPasses` is about searchers acknowledged
  once in a round whose bids are signed.
- *Orders that the auction does not send.* `orderflow.ts:20-22` promises the direct path also
  when the auction "fails to dispatch". Lines 70-75 answer with the auction's error in that
  case and send nothing; `EveryOrderSent` allows for it.
- *A hold counted after it was replaced.* `checkBond` reads the searcher's own hold before it
  awaits the collateral and adds it back afterwards (`bonds.ts:106-107`). When several bids of
  one searcher on one opportunity are checked together, a decision on one may have replaced that
  hold by a smaller one meanwhile, and the next is found collectable beyond the bond. A bid
  below an earlier one in its round replaces the hold of the higher one for good
  (`auction/src/main.ts:437`), while the higher one may win. `Overlooks` names both.
- *A damaged receipt file.* A file that cannot be read is taken for that of a new auction
  (`receipts.ts:70`), and the next commit anchors another history over the old count;
  `WholeHistory` excludes it.
- *The anchored count.* `receipts.ts:296-297` speaks of the prefix on the chain. It is only a
  number (line 227); after a damaged file and a restart it covers receipts no root covers.
  `AnchoredCountWhenIntact` excludes that.
- The winner is charged also when the user's own transaction is refused by the node
  (`auction/src/main.ts:256-274`), and is not charged when the user's address could not be
  recovered, since `OrdoSettlement.sol:231` reverts on the zero address although
  `auction/src/main.ts:199` says it still settles.
- *What batch users read.* `swap-page.ts:821` tells the owner of an expired order that nothing
  moved. The two exceptions in `ToldAsItIs` are the ways in which something may have: an order
  taken in twice, whose second entry replaced the first (`batcher/src/main.ts:175-199`), and a
  settlement whose receipt was given up (`chain.ts:164`) or never asked for.
- *An order posted without its signature* is kept as one that waits for a deposit
  (`batcher/src/main.ts:178-186`), and the signed POST is answered from that entry (line 175):
  the signed order is not settled unless it is deposited.
- *Owner paid by a settlement.* Nothing stops the owner from sweeping while it is paid
  (`OrdoBatch.sol:548`); `treasury` then gets no fee of that token. No property depends on it.
- *The first price of a minute.* `store/src/index.ts:728-729` says that the body of a candle is
  the first and last swap of its minute. `p.block <= g.first` (line 691) lets each later swap of
  the first block replace the open. `Candles` models it so.
- *Subscriptions.* A tick that is awaiting the node when the last subscriber leaves writes `last`
  again (`subscribe.ts:282`), so a later subscriber is sent the blocks between; `StartsAtHead`
  excludes watchers stopped in the middle of a tick. A missed block that is answered null is
  skipped for good (line 275), although `README.md:166-168` says a subscriber "is not quietly
  skipped past" it and `subscribe.test.ts:182` that it is "owed every block"; `HeadsInOrder`
  allows for it. Logs are "chained so they still arrive in block order" (line 300), but a log
  query outlives the stop of the watcher, which forgets its head: a socket that leaves and comes
  back at the same head is sent that block's logs twice, and with a lagging node an older
  block's after a newer one's. `LogsInOrder` compares what was asked for between two stops.
- *Stakes.* Anyone's harvest restarts the seven days of the stream for what is left of it;
  what is streamed while nobody stakes stays in the farm.
- *Watcher.* `main.ts:150-152` says an Initialize is not best effort, but a node that answers
  null for a block (line 121) makes it skipped for good; `IndexComplete` and `PoolsComplete`
  allow for those blocks. A window of the V4 walk is marked scanned whatever the node answered
  (`v4.ts:146-148`), also by one that has not seen its last blocks; `PoolsComplete` allows for
  windows answered short. `main.ts:39` says inserts are idempotent; `addSwaps`, candle volumes
  and the NDJSON files are not. A checkpoint left torn is taken for none, and the loop starts
  at the head minus `ORDO_BACKFILL` without the blocks in between (`since` in the model).

## 4. The proofs

`*Proofs.tla` hold for every value of the constants that satisfies the modules' named
assumptions (`SettlementConstants`, `HouseConstants`, `LogConstants`, `BatchConstants`,
`PatienceIsNat`, `BatcherConstants`, `AbsentIsNoEntry`, `ReadConstants`, `FeedConstants`,
`CandleConstants`, `WatcherConstants`, `StakesConstants`), which only type the parameters, keep
shares within 10000 basis points and the farm's scale, duration and locked shares above zero,
and say that accounts (20 bytes), opportunities (32 bytes) and orders (fixed-width fields) are
finitely many. TLC evaluates them in every run. What a theorem assumes beyond them stands in
its statement: `BackfillIsShort` of the watcher's.

| Theorem | States | Argument |
|---|---|---|
| `TypeCorrect` | `Spec => []TypeOK` | inductive; the hard part is `SharesAreNat`: two rounded-down shares of at most 10000 basis points leave a natural remainder |
| `ChargesAreSigned` | `Spec => []NoOvercharge` | every event was written by a `Settle` whose guard is the signed maximum; TLC sees it through `DebitsAccounted`, whose `ChargedFor` asks for the same bid |
| `NoReplay` | `Spec => SettledOnce` | action property: only `Settle` writes an event, and only an absent one |
| `BondsFallTwoWays` | `Spec => DebitsAccounted` | action property, by cases of `Next` under `TypeOK` |
| `AlwaysSolvent` | `Spec => []Solvent` | inductive with `TypeOK`: every call changes bonds, claims and the contract's ether by amounts that cancel; a charge credits shares that add up to it, payees that coincide included |
| `CreditsAreKept` | `Spec => ClaimsKept` | action property: credits only add, and only `claim` takes, from its caller and all of it |
| `UsersGetTheirPart` | `Spec => UserFloor` | action property: the user has what two rounded-down shares leave, and the share of an absent app |
| `QuotesAreBacked` | `QuoteSpec => []QuoteBacked` | `QuoteBacked` is not inductive: a withdrawal that matures inside the quote would break it. `PendingBehindQuote` says that such a withdrawal was requested before the reading and therefore was not in it; the conjunction is inductive over `TypeOK` |
| `AuctionKeepsContract` | `HouseSpec => Spec` | refinement: a step of the service is a step of the contract or leaves it alone; a charge that lands is a `Settle` by its auctioneer |
| `AuctionNeverOvercharges` | `HouseSpec => []NoOvercharge /\ SettledOnce /\ DebitsAccounted` | what is proved of the contract alone, carried over by `AuctionKeepsContract` |
| `ReceiptsAreComplete` | `HouseSpec => []ReceiptComplete` | `HouseInv` below: `BidsAreAcks`, the bids of a round are its acknowledgements in the order in which they were given |
| `HonestReceiptsPass` | `HouseSpec => []HonestReceiptPasses` | `ReceiptFollows`: a published receipt is the close of the round's bids, and the audit repeats the same sort on them; the first bid of a searcher acknowledged once is the acknowledged one, and the signatures are what the condition says |
| `ChargesAreAsPublished` | `HouseSpec => []ChargedAsPublished` | `ChargeFollows`: a charge names the winner and price of its round's receipt, from submission to the chain |
| `HoldsAreReleased` | `HouseSpec => []HoldsReleased` | `HoldsFollow`: a hold belongs to a bidder of an open round, or to the winner of one not yet settled |
| `LogTypes` | `LogSpec => []LogTypeOK` | every commit carries the number of its receipts, which needs the finiteness of what was issued |
| `WholeHistoryAnchored` | `LogSpec => []WholeHistory` | `WholeEverywhere`: while nothing was damaged, memory, file, the call, what is in flight and what is on the chain are all complete up to their count |
| `LogKeepsHistory` | `LogSpec => KeepsHistory` | refinement: publications map to `Issue`, landing commits to `Anchor`, all else to stuttering; the contract's own check is what makes `Anchor` legal |
| `LossIsBounded` | `LogSpec => []LossBounded` | the bound is not inductive: a torn line costs later, when another runs into it. `LossPaid` counts with the loss what the line without a newline still `Owed` |
| `AnchoredIsAnchored` | `LogSpec => []AnchoredCountWhenIntact` | `AnchoredIsSent`: what the process takes for anchored was sent or read from the chain, and a commit that has not landed is still pending behind it; with `WholeEverywhere` |
| `EscrowSafe` | `BatchSpec => []EscrowCovered` | `EscrowInv` (inductive with the types of what it compares); the settlement step rests on WETH being watched whether priced or not |
| `OneFillPerNonce` | `BatchSpec => []NonceFillsOnce` | `NonceInv`: a filled order has used its nonce; a batch has none used and no two alike |
| `OrdersHaveOneFate` | `BatchSpec => OrdersLiveOnce` | refinement: under `NonceInv` and types, each call maps to the action of OrderLifecycle with its name, a settlement of prices above zero to `Fill`, a later block to `Expire`, everything else to stuttering |
| `BatchTypes` | `BatchSpec => []BatchTypeOK` | inductive: no transfer takes more than is there, because `_prepare` and the balance check said so |
| `BooksAlwaysBalance` | `BatchSpec => []BooksBalance` | `BooksInv`: the account's wealth, its deposits included, is the balance of its filled orders for every token, and `escrowTotal` is the sum of the deposits; a settlement is split into what each owner sells and buys in it (`SumOfParts`), and an order is filled once (`NonceInv`) |
| `BatcherInvariant` | `BatcherSpec => []BatcherInv` | inductive; its parts are described below |
| `FillsAreTold` | `BatcherSpec => []ToldAsItIs` | `BatcherInv` below: `FillsTold`, a settlement whose receipt was read has told its orders, and they stay told, whatever reverts; `TickKept` and `PairsKept`, what is being settled is not expired |
| `SlotsAreKept` | `GatewaySpec => []SlotsKept` | `Reads` below: `LineKept`, the line holds each waiting request once and nobody else, so that a hand-over changes one holder for another |
| `AnswersAreFresh` | `GatewaySpec => []AnswersFresh` | `ReadTypes`: a cached answer is from within its call's life of its expiry, and a call from within `Timeout` of now |
| `HeadsComeInOrder`, `SubscribersStartAtHead`, `LogsComeInOrder` | `GatewaySpec => []HeadsInOrder`, `[]StartsAtHead`, `[]LogsInOrder` | `Feed` below: `WatchKept`, the watcher runs while somebody is subscribed and has forgotten its head when it rests; `Served`, what each socket was sent lies before `last`; the ranges asked for are those of successive stops, between two stops disjoint and ascending, and those delivered come before those waiting, whoever receives them |
| `StakesTypes` | `StakesSpec => []StakesTypeOK` | inductive with `Backed` below: the farm's shares cover its stakes, of which no account has more than all; a minted share is a part of the liquidity rounded down, a burnt one gives back no more |
| `RewardsAreBacked` | `StakesSpec => []RewardsBacked` | `Backed` below, and `EarnedIsBacked`: brought up to date, it is the property times the precision |
| `EarningsAreKept` | `StakesSpec => EarnedKept` | action property: an update changes nobody's earnings (`UpdatedEarned`), after it the stake and the stream may change without effect on them (`StakeMoves`, `NotifiedKeeps`), a claim pays what it takes, and time only adds (`TickStep`) |
| `WorthIsKept` | `StakesSpec => WorthKept` | action property: the divisions of `deposit` and `withdraw` both round for the holders who stay (`AddsKeeps`, `BurnsKeeps`); the first deposit finds no liquidity, since the supply never returns to zero |
| `IndexIsComplete` | `BackfillIsShort => (Spec => []IndexComplete)` | `WatcherInv`: all before the loop's next block is processed (`LoopIndexed`), and of the chunk all that is not waited for, so `FinishChunk` may commit; a call cut short, a stray one or a crash only adds to the store (`StoreGrows`) |
| `PoolsAreComplete` | `BackfillIsShort => (Spec => []PoolsComplete)` | the same invariant: while the walk runs its position is the V4 checkpoint and the loop has the pools of all behind the walk's end, so the two meet without a gap (`WalkMeetsLoop`) |
| `CandlesAreExact` | `Spec => []CandlesExact` | `TapeInv` below: each candle is the one of the blocks written so far (`CandleOf`), for any order, repetition or replay (`UpsertJoins`) |

`BackfillIsShort` says that `ORDO_BACKFILL` (0 by default) is at most the 500 000 blocks within
which a checkpoint is resumed. With a longer one the loop, refusing a checkpoint that is too
old, would begin behind it, and the checkpoint on disk would claim blocks of the new stretch
that are still to be processed until the first commit replaces it.

**The auction** (`HouseInv` of AuctionHouseProofs) is the contract's `TypeOK`, the service's
types, and for each opportunity the four relations named above between the round, the
acknowledgements its bidders got, its receipt, its charge and its holds. None is inductive
alone: the charge follows the receipt only because the receipt follows the bids, and holds
are released by the outcome of the charge.

**The batcher** (`BatcherInv` of BatcherProofs). `ToldAsItIs` compares what the map says with
what the chain did, two records that meet only when a receipt is read. `EntriesAccepted` ties the
map to the requests; `TickKept` and `PairsKept` say in which state the orders are that a tick
and a pair hold across their awaits; `ReceiptsAwaited` gives every settlement sent and waited for
its pair, and back; `FillsTold` says of every settlement, also of earlier ticks, what its orders
show; `PostsLate` is about the request that read the nonce before a fill and writes after it.
Each part has the two excuses of the property itself: an order accepted twice, and a settlement
whose receipt was not seen.

**Candles** (`TapeInv` of WatcherProofs). A block's points are folded into a group by a
function over their number, of which it is shown that it exists and that it yields the bounds of
the points so far (`BoundsAreExact`). The induction is by the least number without the
property (`LeastNatural` of SumTheorems), so it needs no theorem with an operator for a
parameter. A group joined to a candle gives the candle of the blocks of both, whichever came
first and whether or not it was there before.

**The gateway** (`GatewayInv` of GatewayProofs) is `Reads` and `Feed`. They meet in the cache,
which the watcher writes: an answer of the watcher is as old as its tick, one of a call as its
call.

**The farm** (`StakesInv` of OrdoStakesProofs) is the types with `Backed`. `RewardsBacked` is
not inductive: it counts earnings rounded down to a wei, and the fractions it leaves out of
several accounts may become whole wei at the next tick. `Backed` counts them scaled by the
precision, before the division, up to the last update, and with them all of the stream since
then, credited or not. An update then moves part of the stream to the stakes, at most all of
it, because `rewardPerToken` is rounded down and is the same for every share
(`UpdatedBacked`).

**Sums.** `Solvent`, `EscrowCovered`, `BooksBalance` and the properties of OrdoStakes speak of
sums over accounts and orders, and the auction's holds (`HeldBy`) are one over opportunities: the community modules' `SumFunctionOnSet`, defined by a
recursive function that takes one chosen element out at a time. SumTheorems shows that this
function exists (`SumsExist`), that the choices do not matter (`SumTakesOut`), and what
follows: sums over changed values (`SumOfChanged`, `SumOfSums`, `SumOfMultiples`), over parts
(`SumOfPart`, `SumOfParts`), monotony. Its induction is over a *set* of subsets
(`SubsetInduction`: a family that holds the empty set and grows by one element has the
whole), so no theorem with an operator for a parameter is needed.

**Model-checked only.** All invariants and action properties of the passing runs are proved but
`CollectableUnlessOverlooked`, whose invariant speaks of the sum of a searcher's stakes over its
rounds in all their phases (§6). Liveness and `ENABLED` stay with TLC (`WithdrawalsEnd`, `EveryOrderSent`, `EscrowReturned`,
`EveryOrderEnds`, `EveryRequestEnds`, `CatchesUp`), and so do the counterexamples.

## 5. What is not modelled

Cryptography (hashes are injective, signatures are sets), encodings, gas and its price, HTTP
pages, logging. In the auction: hint simulation and the rebate ledger, which change nothing
the properties read, and the service without a contract address or key. In the receipt log:
the `byId` cache, which is the tail of what is modelled. In OrdoBatch: decoding of swap paths,
fee-on-transfer tokens (`_pull` is taken to move what it says), overflow of 256-bit products
(they revert). In the batcher: prices and the search of `solver.ts`. In the gateway: checks of
a transaction before it is routed (`protect.ts` and the like: pure functions of simulation
results), limits per minute, eviction, filters and quotas of subscriptions, and everything
served to browsers. In the stakes: TickMath and token amounts (256-bit fixed point), and the V4
vault. In the watcher: detection and decoding of logs. In the store: all tables except those
the watcher's correctness rests on; they are single SQL statements read by pages.

Ladders, swap routers, stealth sends, SDK, bots, web application and scripts are not modelled;
`PROJECT.json` gives the reason for each. Most of the repository's lines are among them: pages,
quotes, price lists and their I/O, without state shared by concurrent actors. The modelled
part is the code that keeps state across messages, transactions, failures and restarts, and
the map's small share of all lines reflects that.

## 6. Plan

1. A proof of `CollectableUnlessOverlooked`. `QuotesAreBacked` is its part about one reading; the
   rest is that a searcher who was not overlooked has a bond of at least the sum of its stakes,
   and a hold for every stake that a reading still counts.
2. `Merkle`: proofs of `receipt.ts` against `OrdoReceiptLog.verify` over bounded trees, as a
   reference for the hash abstraction of ReceiptLog.
3. `LadderManager`: open bins, fees before principal, and the owner's call between the fee
   split and the decrease of liquidity.
4. `BatchSolver`: netting and the clearing price against a reference definition; the last round
   moves the price after the accepted simulation (`batcher/src/main.ts:326-333`), which the dry
   run must catch.
5. Spellings of addresses in AuctionHouse (the one hazard without a property): holds are keyed
   by lower case, the release loop compares strings.
