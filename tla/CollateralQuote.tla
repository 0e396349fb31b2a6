--------------------------- MODULE CollateralQuote ---------------------------
(***************************************************************************)
(* The auctioneer sells against what collateral() answered at some moment  *)
(* (apps/auction/src/bonds.ts, collateralOf), and charges later.  This     *)
(* module adds that reading to the contract and states what it is worth:   *)
(* for WITHDRAW_DELAY after it was read, what has not been charged since   *)
(* is still in the bond, whatever the searcher does in between.            *)
(***************************************************************************)
EXTENDS OrdoSettlement

VARIABLE quote   \* the latest reading: whose, the value, when, and charged since

quoteVars == <<settlementVars, quote>>

\* readContract(collateral) as one call between two transactions.
ReadCollateral(a) ==
    /\ ~locked
    /\ quote' = [searcher |-> a, value |-> Collateral(a), at |-> now, charged |-> 0]
    /\ UNCHANGED settlementVars

\* A settlement, with the charge counted against the reading.
SettleQuoted(caller, bid, charge, user, app) ==
    /\ Settle(caller, bid, charge, user, app)
    /\ quote' = [quote EXCEPT !.charged =
                   IF bid.searcher = quote.searcher THEN @ + charge ELSE @]

QuoteInit ==
    /\ Init
    /\ quote \in [searcher: Accounts, value: {0}, at: {now}, charged: {0}]

QuoteNext ==
    \/ \E a \in Accounts : ReadCollateral(a)
    \/ \E caller \in Accounts, user, app \in Payees \cup {ZeroAddress}, bid \in Bids :
           \E charge \in 0..bid.maxAmountWei + 1 : SettleQuoted(caller, bid, charge, user, app)
    \/ NotSettling /\ UNCHANGED quote

QuoteSpec == QuoteInit /\ [][QuoteNext]_quoteVars

\* The fairness of OrdoSettlement; readings need none.
QuoteFairness ==
    /\ WF_quoteVars(Tick /\ UNCHANGED quote)
    /\ WF_quoteVars(CallReturns /\ UNCHANGED quote)
    /\ \A a \in Accounts : SF_quoteVars(WithdrawBond(a) /\ UNCHANGED quote)

FairQuoteSpec == QuoteSpec /\ QuoteFairness

-----------------------------------------------------------------------------

\* The contract and the reading have their types; a reading is of the past.
QuoteTypeOK ==
    /\ TypeOK
    /\ quote \in [searcher: Accounts, value: Nat, at: 1..now, charged: Nat]

QuoteStanding == now < quote.at + WithdrawDelay

\* The part of a pending request that was not in the reading cannot leave before
\* the reading expires; the part that was, leaves the rest of the bond behind.
PendingBehindQuote ==
    LET w == withdrawal[quote.searcher]
    IN  (/\ quote.value > 0
         /\ w.readyAt # 0
         /\ w.readyAt < quote.at + WithdrawDelay)
        => bond[quote.searcher] + quote.charged >= quote.value + w.amount

\* Until WITHDRAW_DELAY has passed since collateral() was read, the bond covers
\* the reading less what was charged since: no sequence of request, cancel,
\* re-request and withdrawal takes it away ("until then it still backs bids
\* already won", requestWithdraw's comment).
QuoteBacked ==
    QuoteStanding => bond[quote.searcher] + quote.charged >= quote.value

=============================================================================
