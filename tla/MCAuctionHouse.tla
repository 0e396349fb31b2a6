--------------------------- MODULE MCAuctionHouse ---------------------------
(* Small instances of AuctionHouse: one or two rounds and one searcher. *)
EXTENDS AuctionHouse

CONSTANTS s1, t, o1, o2, zero

Bid(s, o, m) == [searcher |-> s, opportunityId |-> o, maxAmountWei |-> m]

\* A bond of one, and a bid of all of it in each of two rounds.
OneEach == {Bid(s1, o1, 1), Bid(s1, o2, 1)}
BondOfOne == [a \in Accounts |-> IF a = s1 THEN 1 ELSE 0]

\* The same with two; three is more than it can have.
TwoEach == {Bid(s1, o1, 2), Bid(s1, o2, 2)}
TwoEachAndMore == TwoEach \cup {Bid(s1, o1, 3)}
BondOfTwo == [a \in Accounts |-> IF a = s1 THEN 2 ELSE 0]

NoBids == {}
OneSplit == {[appBps |-> 3000, protocolBps |-> 5000]}

\* The conditions under which what is sold within the bond can be collected.
ASSUME SaleConditions == DelayCovers /\ HoldsOutlast /\ BidsAreSigned /\ UsersAreKnown
=============================================================================
