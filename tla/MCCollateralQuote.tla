-------------------------- MODULE MCCollateralQuote --------------------------
(* Small instance of CollateralQuote, and so of OrdoSettlement. *)
EXTENDS CollateralQuote

CONSTANTS s1, t, o1, o2, zero

MCEndowment == [a \in Accounts |-> IF a = s1 THEN 2 ELSE 0]

Bid(s, o, m) == [searcher |-> s, opportunityId |-> o, maxAmountWei |-> m]

\* The last bid is submitted with a signature that is not the searcher's.
MCSignedBids == {Bid(s1, o1, 2), Bid(s1, o2, 1)}
MCBids == MCSignedBids \cup {Bid(t, o1, 1)}

\* Halves: a charge of one wei rounds to the user, a charge of two does not.
MCOneSplit == {[appBps |-> 5000, protocolBps |-> 5000]}
=============================================================================
