---------------------------- MODULE MCOrderFlow ----------------------------
(* A small instance of OrderFlow: see order_flow.cfg. *)
EXTENDS OrderFlow

CONSTANTS s1, s2, t, o1, zero

Bid(s, m) == [searcher |-> s, opportunityId |-> o1, maxAmountWei |-> m]

\* s1 may bid two, or one without a signature, s2 one; equal bids happen.
SignedOnes == {Bid(s1, 2), Bid(s2, 1)}
UnsignedOnes == {Bid(s1, 1)}
AllBids == SignedOnes \cup UnsignedOnes

Bonds == [a \in Accounts |-> IF a = s1 THEN 2 ELSE IF a = s2 THEN 1 ELSE 0]

OneSplit == {[appBps |-> 3000, protocolBps |-> 5000]}
=============================================================================
