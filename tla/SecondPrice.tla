---------------------------- MODULE SecondPrice ----------------------------
(***************************************************************************)
(* The rule that closes a sealed-bid round (Auction.close,                 *)
(* apps/auction/src/auctioneer.ts) and the audit a searcher runs on its    *)
(* receipt (packages/core/src/receipt.ts).  Bids are a sequence in order   *)
(* of arrival; a bid has at least a searcher and maxAmountWei, which is    *)
(* bidWei in the auction and the signed maximum in the contract.           *)
(***************************************************************************)
EXTENDS Integers, Sequences

\* Both sides sort with (a, b) => b > a ? 1 : -1, which answers -1 both ways for
\* equal bids.  V8 then moves the later of two equal bids in front (its run
\* detection reverses such a pair, its binary insertion goes left of it).
Before(bids, i, j) ==
    \/ bids[i].maxAmountWei > bids[j].maxAmountWei
    \/ bids[i].maxAmountWei = bids[j].maxAmountWei /\ i > j

\* sorted[0] among the bids at the given positions
First(bids, positions) ==
    CHOOSE i \in positions : \A j \in positions \ {i} : Before(bids, i, j)

WinningPosition(bids) == First(bids, DOMAIN bids)

\* sorted[1], or the only bid
ClearingPrice(bids) ==
    LET others == DOMAIN bids \ {WinningPosition(bids)}
    IN  IF others = {}
        THEN bids[WinningPosition(bids)].maxAmountWei
        ELSE bids[First(bids, others)].maxAmountWei

\* auditClearingPrice: the winner is the first by the same sort, and pays the second.
AuditClearingPrice(receipt) ==
    IF receipt.bids = <<>>
    THEN receipt.winner = "none"
    ELSE /\ receipt.winner = receipt.bids[WinningPosition(receipt.bids)].searcher
         /\ receipt.clearingPriceWei = ClearingPrice(receipt.bids)

\* auditReceipt after the auctioneer's signatures: the first bid listed for the searcher
\* of the acknowledgement must carry the acknowledged amount, every listed bid its
\* searcher's signature (auditBidAuthenticity), and the winner and price must be right.
AuditReceipt(receipt, ack, signed) ==
    LET mine == {i \in DOMAIN receipt.bids : receipt.bids[i].searcher = ack.searcher}
    IN  /\ mine # {}
        /\ receipt.bids[CHOOSE i \in mine : \A j \in mine : i <= j].maxAmountWei
             = ack.maxAmountWei
        /\ \A i \in DOMAIN receipt.bids : receipt.bids[i] \in signed
        /\ AuditClearingPrice(receipt)

=============================================================================
