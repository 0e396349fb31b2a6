---------------------------- MODULE AuctionHouse ----------------------------
(***************************************************************************)
(* The auction service, apps/auction/src: main.ts (submission, the bid     *)
(* socket, dispatch), auctioneer.ts (the round), bonds.ts (collateral      *)
(* cache and holds) and settle.ts, composed with OrdoSettlement.           *)
(*                                                                         *)
(* The service is one Node process.  An action is a stretch of a handler   *)
(* between two awaits:                                                     *)
(*   - a bid: arrival; collateral known and holds summed; decision; and    *)
(*     in between the node reads the collateral and its reply travels;     *)
(*   - an order: submission; window closed; receipt signed; dispatch;      *)
(*     settlement transaction submitted.                                   *)
(* An await of something already there (a cached reading, a local          *)
(* signature) continues within the same turn of the event loop, so a new   *)
(* turn (a message, an RPC reply, a timer) waits until the process is      *)
(* Idle; but the messages of one network read arrive together and their    *)
(* continuations interleave.  The chain moves between any two actions.     *)
(* now, block.timestamp in OrdoSettlement, is also the service's clock.    *)
(***************************************************************************)
EXTENDS OrdoSettlement, SecondPrice

CONSTANTS
    Searchers,        \* accounts that bid
    Leavers,          \* bound: the searchers that ask for their bond back
    Users,            \* what recovering the user's address may give, ZeroAddress if it fails
    UnsignedBids,     \* bids sent without bidSig
    Window,           \* ORDO_AUCTION_WINDOW_MS
    CacheTTL,         \* ORDO_BOND_CACHE_MS
    Latency,          \* ticks from a node's reading until its reply is used or has failed
    HoldTTL,          \* ORDO_BOND_HOLD_TTL_MS
    Landing,          \* ticks from dispatch until the settlement executes
    MaxBids,          \* bound: bids sent in a run
    OpenRounds,       \* bound: rounds in progress at a time
    Failures          \* bound: RPC failures, disk failures and crashes in a run

ASSUME HouseConstants ==
    /\ IsFiniteSet(Opportunities)
    /\ Searchers \subseteq Accounts
    /\ Leavers \subseteq Searchers
    /\ \A bid \in Bids : bid.searcher \in Searchers
    /\ Users \subseteq Payees \cup {ZeroAddress}
    /\ UnsignedBids \subseteq Bids \ SignedBids
    /\ {Window, CacheTTL, Latency, HoldTTL, Landing, MaxBids, OpenRounds, Failures} \subseteq Nat

VARIABLES
    round,            \* [Opportunities -> round], activeAuctions and what follows
    checks,           \* sequence of bid messages and how far their check has come
    cache,            \* [Searchers -> collateral reading], bonds.ts cache
    holds,            \* [Searchers -> [Opportunities -> hold]], bonds.ts holds
    receipts,         \* [Opportunities -> published receipt]
    acks,             \* bids acknowledged
    charge,           \* [Opportunities -> settlement transaction]
    userSends,        \* [Opportunities -> Nat]: times the user's transaction was taken
    overlooked,       \* history: searchers with a stake that a check did not count
    failed            \* failures so far

bookkeeping == <<cache, holds>>
outcomes == <<receipts, charge, userSends>>
houseVars == <<round, checks, bookkeeping, acks, outcomes, overlooked, failed>>
vars == <<settlementVars, houseVars>>

None == [at |-> -1, wei |-> 0]

\* A reading of collateral().  charged is history: what had been charged when it was taken.
Unread == [at |-> -1, wei |-> 0, charged |-> {}]
NoRound == [phase |-> "absent", biddable |-> FALSE, openedAt |-> 0, bids |-> <<>>]
NoReceipt == [bids |-> <<>>, winner |-> "unpublished", clearingPriceWei |-> 0]
NoCharge == [state |-> "none"]

-----------------------------------------------------------------------------
(* bonds.ts *)

FreshReading(reading) == reading.at >= 0 /\ now - reading.at < CacheTTL
Fresh(s) == FreshReading(cache[s])

Expired(h) == now - h.at > HoldTTL

\* heldBy sums a searcher's holds and drops every expired one on the way.
SweptHolds == [s \in Searchers |-> [o \in Opportunities |->
                 IF Expired(holds[s][o]) THEN None ELSE holds[s][o]]]
HeldBy(s) == SumFunction([o \in Opportunities |-> SweptHolds[s][o].wei])

Charged == {o \in Opportunities : settled[o] # NotSettled}

\* What a node answers now, and how the answer is cached when it arrives.
Reading(s) == [at |-> now, wei |-> Collateral(s), charged |-> Charged]
Cached(reading) == [reading EXCEPT !.at = now]

\* A bounded failure of the RPC, the disk or the process.
Fail ==
    /\ failed < Failures
    /\ failed' = failed + 1

-----------------------------------------------------------------------------
(* The event loop *)

\* A continuation that runs before the turn ends.
Running(c) == c.stage \in {"cached", "collectable"}

NoOrderRunning == \A o \in Opportunities : round[o].phase \notin {"closed", "published"}

\* The next turn may begin.
Idle == NoOrderRunning /\ \A i \in DOMAIN checks : ~Running(checks[i])

\* The network read goes on: no continuation of its messages has run yet.
Receiving == NoOrderRunning /\ \A i \in DOMAIN checks : checks[i].stage # "collectable"

-----------------------------------------------------------------------------
(* The bid socket *)

Biddable(o) == round[o].phase = "open" /\ round[o].biddable

\* A bid for a live round arrives; the searcher's own hold and the cached reading
\* are taken at once, before the first await.  Without one the node is asked.
BidArrives(bid) ==
    LET s == bid.searcher
    IN  /\ Receiving
        /\ Biddable(bid.opportunityId)
        /\ Len(checks) < MaxBids
        /\ checks' = Append(checks,
             [bid |-> bid, own |-> holds[s][bid.opportunityId].wei,
              stage |-> IF Fresh(s) THEN "cached" ELSE "asked",
              seen |-> IF Fresh(s) THEN cache[s] ELSE Unread])
        /\ UNCHANGED <<settlementVars, round, bookkeeping, acks, outcomes, overlooked, failed>>

\* A node executes the eth_call of a check.
NodeReads(i) ==
    /\ checks[i].stage \in {"asked", "refused"}
    /\ checks[i].seen = Unread
    /\ ~locked
    /\ checks' = [checks EXCEPT ![i].seen = Reading(checks[i].bid.searcher)]
    /\ UNCHANGED <<settlementVars, round, bookkeeping, acks, outcomes, overlooked, failed>>

InRound(s, o) == {i \in DOMAIN round[o].bids : round[o].bids[i].searcher = s}

\* s may be charged for something that is not settled.
Engaged(s) ==
    \/ \E i \in DOMAIN checks : checks[i].stage = "collectable" /\ checks[i].bid.searcher = s
    \/ \E o \in Opportunities :
          \/ round[o].phase \in {"open", "closed", "published"} /\ InRound(s, o) # {}
          \/ charge[o].state \in {"submitting", "pending"} /\ charge[o].bid.searcher = s

\* What the sum of the holds and the reading of check i do not show: a bid found
\* collectable whose hold is not taken yet; a settlement that was sent, so that its hold is
\* gone, and has not executed, or not before the reading; an own hold that has been
\* replaced since the bid arrived; a higher bid in the round, whose hold this one replaces.
Overlooks(i, reading) ==
    LET c == checks[i]
        s == c.bid.searcher
        o == c.bid.opportunityId
    IN  \/ \E j \in DOMAIN checks : checks[j].stage = "collectable" /\ checks[j].bid.searcher = s
        \/ \E p \in Opportunities : charge[p].state = "pending" /\ charge[p].bid.searcher = s
        \/ \E p \in Charged \ reading.charged : settled[p].searcher = s
        \/ c.own # SweptHolds[s][o].wei
        \/ \E j \in InRound(s, o) : round[o].bids[j].maxAmountWei > c.bid.maxAmountWei

\* The collateral is known: sum the holds and compare.  A refusal reads the collateral
\* again for its message.
Judge(i, reading) ==
    LET c == checks[i]
        s == c.bid.searcher
        held == HeldBy(s)
        free == (IF reading.wei > held THEN reading.wei - held ELSE 0) + c.own
        collectable == free >= c.bid.maxAmountWei
        stage == IF collectable THEN "collectable"
                 ELSE IF FreshReading(cache'[s]) THEN "answered" ELSE "refused"
    IN  /\ checks' = [checks EXCEPT ![i] = [@ EXCEPT !.stage = stage, !.own = 0, !.seen = Unread]]
        /\ holds' = SweptHolds
        /\ overlooked' = IF ~collectable THEN overlooked
                         ELSE IF Overlooks(i, reading) THEN overlooked \cup {s}
                         ELSE IF Engaged(s) THEN overlooked ELSE overlooked \ {s}
        /\ UNCHANGED <<settlementVars, round, acks, outcomes>>

JudgeFromCache(i) ==
    /\ checks[i].stage = "cached"
    /\ UNCHANGED <<cache, failed>>
    /\ Judge(i, checks[i].seen)

\* The reply arrives, and is cached with the time of its arrival.
Arrives(i) ==
    /\ Idle
    /\ checks[i].seen # Unread
    /\ cache' = [cache EXCEPT ![checks[i].bid.searcher] = Cached(checks[i].seen)]
    /\ UNCHANGED failed

\* readContract fails, whether or not a node had read: collateralOf answers 0.
NeverArrives ==
    /\ Idle
    /\ Fail
    /\ UNCHANGED cache

JudgeFromChain(i) ==
    /\ checks[i].stage = "asked"
    /\ \/ Arrives(i) /\ Judge(i, checks[i].seen)
       \/ NeverArrives /\ Judge(i, Unread)

\* The reading for the message of a refusal; the holds are summed for it once more.
ExplainRefusal(i) ==
    /\ checks[i].stage = "refused"
    /\ Arrives(i) \/ NeverArrives
    /\ checks' = [checks EXCEPT ![i] = [@ EXCEPT !.stage = "answered", !.seen = Unread]]
    /\ holds' = SweptHolds
    /\ UNCHANGED <<settlementVars, round, acks, outcomes, overlooked>>

\* submitBid's own conditions.
Accepts_Bug(bid) == bid.maxAmountWei > 0
Accepts(bid) == round[bid.opportunityId].phase = "open" /\ bid.maxAmountWei > 0

\* submitBid, hold and acknowledgement.
DecideBid(i) ==
    LET bid == checks[i].bid
        o == bid.opportunityId
    IN  /\ checks[i].stage = "collectable"
        /\ checks' = [checks EXCEPT ![i].stage = "answered"]
        /\ IF Accepts(bid)
           THEN /\ round' = [round EXCEPT ![o].bids = Append(@, bid)]
                /\ holds' = [holds EXCEPT ![bid.searcher][o] =
                               [at |-> now, wei |-> bid.maxAmountWei]]
                /\ acks' = acks \cup {bid}
           ELSE UNCHANGED <<round, holds, acks>>
        /\ UNCHANGED <<settlementVars, cache, outcomes, overlooked, failed>>

-----------------------------------------------------------------------------
(* handleSubmit *)

\* Up to the window: with nobody to bid, or no calldata, it closes on the next turn.
SubmitOrder(o) ==
    /\ Idle
    /\ round[o].phase = "absent"
    /\ Cardinality({p \in Opportunities : round[p].phase \in {"open", "closed", "published"}})
         < OpenRounds
    /\ \E biddable \in BOOLEAN :
          round' = [round EXCEPT ![o] = [phase |-> "open", biddable |-> biddable,
                                         openedAt |-> now, bids |-> <<>>]]
    /\ UNCHANGED <<settlementVars, checks, bookkeeping, acks, outcomes, overlooked, failed>>

Winner(o) == round[o].bids[WinningPosition(round[o].bids)]

\* The winner's hold narrows to the price; every other bidder's is released.
HoldsAfterClose_Bug(o) ==
    [s \in Searchers |->
        IF \E i \in DOMAIN round[o].bids : round[o].bids[i].searcher = s /\ s = Winner(o).searcher
        THEN [holds[s] EXCEPT ![o] = [at |-> now, wei |-> ClearingPrice(round[o].bids)]]
        ELSE holds[s]]
HoldsAfterClose(o) ==
    [s \in Searchers |->
        IF \A i \in DOMAIN round[o].bids : round[o].bids[i].searcher # s
        THEN holds[s]
        ELSE [holds[s] EXCEPT ![o] =
                IF s = Winner(o).searcher
                THEN [at |-> now, wei |-> ClearingPrice(round[o].bids)]
                ELSE None]]

\* Auction.close has something to do.
Closable(o) == round[o].phase = "open"

\* The timer fires: Auction.close, then the continuation up to publishReceipt.
CloseRound(o) ==
    /\ Idle
    /\ Closable(o)
    /\ round' = [round EXCEPT ![o].phase = "closed"]
    /\ holds' = HoldsAfterClose(o)
    /\ UNCHANGED <<settlementVars, checks, cache, acks, outcomes, overlooked, failed>>

ReceiptOf_Bug(o) ==
    [bids |-> round[o].bids,
     winner |-> IF round[o].bids = <<>> THEN "none" ELSE Winner(o).searcher,
     clearingPriceWei |-> IF round[o].bids = <<>> THEN 0 ELSE Winner(o).maxAmountWei]
ReceiptOf(o) ==
    [bids |-> round[o].bids,
     winner |-> IF round[o].bids = <<>> THEN "none" ELSE Winner(o).searcher,
     clearingPriceWei |-> IF round[o].bids = <<>> THEN 0 ELSE ClearingPrice(round[o].bids)]

\* publishReceipt resolves.
PublishReceipt(o) ==
    /\ round[o].phase = "closed"
    /\ round' = [round EXCEPT ![o].phase = "published"]
    /\ receipts' = [receipts EXCEPT ![o] = ReceiptOf(o)]
    /\ UNCHANGED <<settlementVars, checks, bookkeeping, acks, charge, userSends, overlooked, failed>>

\* The settlement record of a round that was won.
ChargeOf_Bug(o, user, app) ==
    [state |-> "submitting", bid |-> Winner(o), wei |-> Winner(o).maxAmountWei,
     user |-> user, app |-> app, at |-> now]
ChargeOf(o, user, app) ==
    [state |-> "submitting", bid |-> Winner(o), wei |-> ClearingPrice(round[o].bids),
     user |-> user, app |-> app, at |-> now]

\* The settlement is prepared and both transactions are sent in the same turn; that the
\* user's is refused changes nothing for the winner.
Dispatch(o) ==
    /\ round[o].phase = "published"
    /\ \/ userSends' = [userSends EXCEPT ![o] = @ + 1] /\ UNCHANGED failed
       \/ Fail /\ UNCHANGED userSends
    /\ IF round[o].bids = <<>>
       THEN /\ round' = [round EXCEPT ![o].phase = "done"]
            /\ UNCHANGED charge
       ELSE /\ round' = [round EXCEPT ![o].phase = "dispatched"]
            /\ \E user \in Users, app \in Payees \cup {ZeroAddress} :
                  charge' = [charge EXCEPT ![o] = ChargeOf(o, user, app)]
    /\ UNCHANGED <<settlementVars, checks, bookkeeping, receipts, acks, overlooked>>

\* appendFileSync of the settlement record throws: the request ends with an error
\* before anything is sent, and the winner's hold is left to expire.
RecordFails(o) ==
    /\ round[o].phase = "published"
    /\ round[o].bids # <<>>
    /\ Fail
    /\ round' = [round EXCEPT ![o].phase = "failed"]
    /\ UNCHANGED <<settlementVars, checks, bookkeeping, acks, outcomes, overlooked>>

\* What the contract would answer to a settlement now.
WouldSettle(c) == Chargeable(c.bid, c.wei) /\ c.user # ZeroAddress

ReleaseWinner(o) == [holds EXCEPT ![charge[o].bid.searcher][o] = None]

\* submitSettlement resolves or rejects; either way the winner's hold is released.
\* Without bidSig nothing is sent.  writeContract estimates gas first, so what
\* would revert on the latest block is refused.  A failed call may have been sent.
SettlementSubmitted(o) ==
    /\ Idle
    /\ round[o].phase = "dispatched"
    /\ ~locked
    /\ round' = [round EXCEPT ![o].phase = "done"]
    /\ holds' = ReleaseWinner(o)
    /\ \/ /\ charge' = [charge EXCEPT ![o].state =
               IF charge[o].bid \in UnsignedBids THEN "unsigned"
               ELSE IF WouldSettle(charge[o]) THEN "pending" ELSE "refused"]
          /\ UNCHANGED failed
       \/ /\ Fail
          /\ WouldSettle(charge[o])
          /\ \E sent \in {"unsent", "pending"} : charge' = [charge EXCEPT ![o].state = sent]
    /\ UNCHANGED <<settlementVars, checks, cache, receipts, acks, userSends, overlooked>>

\* The settlement transaction is executed.
SettlementLands(o) ==
    LET c == charge[o]
    IN  /\ c.state = "pending"
        /\ ~locked
        /\ IF WouldSettle(c)
           THEN /\ Settle(auctioneer, c.bid, c.wei, c.user, c.app)
                /\ charge' = [charge EXCEPT ![o].state = "landed"]
           ELSE /\ charge' = [charge EXCEPT ![o].state = "reverted"]
                /\ UNCHANGED settlementVars
        /\ UNCHANGED <<round, checks, bookkeeping, receipts, acks, userSends, overlooked, failed>>

\* The process dies and starts again: what was in memory is gone, held orders with
\* it; a settlement being submitted may or may not have left.
Crash ==
    LET submitting == {o \in Opportunities : round[o].phase = "dispatched"}
    IN  /\ Fail
        /\ round' = [o \in Opportunities |->
              IF round[o].phase \in {"open", "closed", "published"}
              THEN [round[o] EXCEPT !.phase = "lost"]
              ELSE IF o \in submitting THEN [round[o] EXCEPT !.phase = "done"] ELSE round[o]]
        /\ \E sent \in SUBSET {o \in submitting : WouldSettle(charge[o])} :
              charge' = [o \in Opportunities |->
                 IF o \in submitting
                 THEN [charge[o] EXCEPT !.state = IF o \in sent THEN "pending" ELSE "unsent"]
                 ELSE charge[o]]
        /\ checks' = [i \in DOMAIN checks |->
              [checks[i] EXCEPT !.stage = "answered", !.own = 0, !.seen = Unread]]
        /\ cache' = [s \in Searchers |-> Unread]
        /\ holds' = [s \in Searchers |-> [o \in Opportunities |-> None]]
        /\ UNCHANGED <<settlementVars, acks, receipts, userSends, overlooked>>

-----------------------------------------------------------------------------
(* The chain *)

\* What searchers do with their bonds, whenever they like.
BondMoves ==
    /\ \/ \E s \in Searchers : Deposit(s)
       \/ \E s \in Leavers : RequestWithdraw(s) \/ CancelWithdraw(s) \/ WithdrawBond(s)
       \/ CallReturns
    /\ UNCHANGED houseVars

\* Time passes, but not past a window that has to close, a reply that has to arrive or
\* the landing of a settlement, nor inside one turn of the process.
TimePasses ==
    /\ Idle
    /\ Tick
    /\ \A o \in Opportunities :
          /\ round[o].phase = "open" => now < round[o].openedAt + Window
          /\ (round[o].phase = "dispatched" \/ charge[o].state = "pending") =>
                now < charge[o].at + Landing
    /\ \A i \in DOMAIN checks : checks[i].seen # Unread => now < checks[i].seen.at + Latency
    /\ UNCHANGED houseVars

-----------------------------------------------------------------------------

HouseInit ==
    /\ Init
    /\ round = [o \in Opportunities |-> NoRound]
    /\ checks = <<>>
    /\ cache = [s \in Searchers |-> Unread]
    /\ holds = [s \in Searchers |-> [o \in Opportunities |-> None]]
    /\ receipts = [o \in Opportunities |-> NoReceipt]
    /\ acks = {}
    /\ charge = [o \in Opportunities |-> NoCharge]
    /\ userSends = [o \in Opportunities |-> 0]
    /\ overlooked = {}
    /\ failed = 0

Bidding ==
    \/ \E bid \in Bids : BidArrives(bid)
    \/ \E i \in DOMAIN checks :
          \/ NodeReads(i)
          \/ JudgeFromCache(i)
          \/ JudgeFromChain(i)
          \/ ExplainRefusal(i)
          \/ DecideBid(i)

Order(o) ==
    \/ CloseRound(o)
    \/ PublishReceipt(o)
    \/ Dispatch(o)
    \/ SettlementSubmitted(o)
    \/ SettlementLands(o)

HouseNext ==
    \/ Bidding
    \/ \E o \in Opportunities : SubmitOrder(o) \/ Order(o) \/ RecordFails(o)
    \/ Crash
    \/ BondMoves
    \/ TimePasses

HouseSpec == HouseInit /\ [][HouseNext]_vars

\* Timers fire, promises resolve, and the sequencer executes what it was sent.
HouseFairness ==
    /\ WF_vars(CallReturns /\ UNCHANGED houseVars)
    /\ \A i \in 1..MaxBids :
          WF_vars(i \in DOMAIN checks /\ (JudgeFromCache(i) \/ DecideBid(i)))
    /\ \A o \in Opportunities : SF_vars(Order(o))

-----------------------------------------------------------------------------
(* Properties *)

Published(o) == receipts[o].winner # "unpublished"
Listed(o) == {receipts[o].bids[i] : i \in DOMAIN receipts[o].bids}

\* Every bid that was acknowledged is in the receipt of its round, however its
\* check and the closing of the window interleave ("every closed round publishes a
\* receipt listing all of them", README.md:177).
ReceiptComplete ==
    \A o \in Opportunities : Published(o) =>
        Listed(o) = {bid \in acks : bid.opportunityId = o}

\* A searcher with one acknowledgement in a round whose listed bids are signed finds
\* nothing wrong when it audits the receipt ("a mismatch between the two is a signed,
\* self-contained proof of misconduct", packages/core/src/receipt.ts:22).  Of two
\* acknowledgements the audit may reject an honest one: it compares with the first bid of
\* the searcher (receipt.ts:334).  An unsigned bid, which the auction takes, fails it too.
HonestReceiptPasses ==
    \A bid \in acks :
        /\ Published(bid.opportunityId)
        /\ Listed(bid.opportunityId) \subseteq SignedBids
        /\ \A other \in acks : /\ other.searcher = bid.searcher
                               /\ other.opportunityId = bid.opportunityId
                               => other = bid
        => AuditReceipt(receipts[bid.opportunityId], bid, SignedBids)

\* What the contract charged is what the receipt announced: the same searcher, the
\* same price, no more than the winner's bid.
ChargedAsPublished ==
    \A o \in Opportunities : settled[o] # NotSettled =>
        /\ settled[o].searcher = receipts[o].winner
        /\ settled[o].amount = receipts[o].clearingPriceWei
        /\ \E bid \in Listed(o) :
              bid.searcher = settled[o].searcher /\ settled[o].amount <= bid.maxAmountWei

TurnedAway(o) == charge[o].state \in {"refused", "reverted"}

\* No settlement is turned away by the contract: the auction "never sells something
\* it can't collect" (README.md:334-335).
SoldIsCollectable == \A o \in Opportunities : ~TurnedAway(o)

\* It is so but for searchers one of whose stakes was overlooked when a bid of theirs was
\* accepted, until they have nothing at stake: holds, cached readings and late replies add
\* up to no more than the bond, whatever is asked back, withdrawn, lost or fails meanwhile.
CollectableUnlessOverlooked ==
    [][\A o \in Opportunities :
          ~TurnedAway(o) /\ TurnedAway(o)' => charge[o].bid.searcher \in overlooked]_vars

\* It rests on four conditions.  WITHDRAW_DELAY outlasts a sale, from the reading it was
\* made against to its settlement.
ReadingAge == Latency + (IF CacheTTL = 0 THEN 0 ELSE CacheTTL - 1)
DelayCovers == ReadingAge + Window + Landing < WithdrawDelay

\* A hold outlasts the window it was taken in, and the settlement it was narrowed for.
HoldsOutlast == Window <= HoldTTL /\ Landing <= HoldTTL

\* What a searcher calls a signature is one, and the user's address is recovered.
BidsAreSigned == Bids \ SignedBids \subseteq UnsignedBids
UsersAreKnown == ZeroAddress \notin Users

\* A round that is over holds nothing of anybody's collateral; one whose record could
\* not be written only the winner's, which is left to expire.
HoldsReleased ==
    \A o \in Opportunities : round[o].phase \in {"done", "failed", "lost"} =>
        \A s \in Searchers : holds[s][o] # None =>
            round[o].phase = "failed" /\ s = receipts[o].winner

\* "So one bond cannot back two concurrent wins" (main.ts:425-427).
BondBacksOnce ==
    \A s \in Searchers : HeldBy(s) <= bond[s]
=============================================================================
