----------------------------- MODULE OrderFlow -----------------------------
(***************************************************************************)
(* How the gateway sends a transaction that is auctioned,                  *)
(* apps/gateway/src/orderflow.ts, composed with the auction.               *)
(*                                                                         *)
(* The gateway posts the transaction to the auction and waits, but not for *)
(* ever.  Without an answer (the auction is unreachable, throws, dies or   *)
(* is slow) it sends the transaction itself; the auction may send it too,  *)
(* and the chain takes the same signed transaction once.  An answer that   *)
(* the auction could not send it is passed on to the caller.               *)
(***************************************************************************)
EXTENDS AuctionHouse

CONSTANT Patience     \* ORDO_AUCTION_TIMEOUT_MS

ASSUME PatienceIsNat == Patience \in Nat

VARIABLE call         \* [Opportunities -> step of routeOrderFlow]

flowVars == <<vars, call>>

-----------------------------------------------------------------------------

RouteOrder(o) ==
    /\ call[o] = "absent"
    /\ SubmitOrder(o)
    /\ call' = [call EXCEPT ![o] = "waiting"]

Unreachable(o) ==
    /\ call[o] = "absent"
    /\ Fail
    /\ call' = [call EXCEPT ![o] = "falling"]
    /\ UNCHANGED <<settlementVars, round, checks, bookkeeping, acks, outcomes, overlooked>>

\* handleSubmit returns, with the hash or with the reason why there is none.
AuctionAnswers(o) ==
    /\ call[o] = "waiting"
    /\ round[o].phase = "done"
    /\ call' = [call EXCEPT ![o] = IF userSends[o] > 0 THEN "auctioned" ELSE "refused"]
    /\ UNCHANGED vars

\* fetch rejects, or the answer is an HTTP error, for the orders of S.  A definition
\* named ..._Bug is a mistake the next one could contain.
NoAnswer_Bug(S) == call
NoAnswer(S) == [o \in Opportunities |->
                  IF o \in S /\ call[o] = "waiting" THEN "falling" ELSE call[o]]

TimesOut(o) ==
    /\ call[o] = "waiting"
    /\ now >= round[o].openedAt + Patience
    /\ call' = NoAnswer({o})
    /\ UNCHANGED vars

SendDirect(o) ==
    /\ call[o] = "falling"
    /\ \/ call' = [call EXCEPT ![o] = "direct"] /\ UNCHANGED failed
       \/ call' = [call EXCEPT ![o] = "failed"] /\ Fail
    /\ UNCHANGED <<settlementVars, round, checks, bookkeeping, acks, outcomes, overlooked>>

\* handleSubmit throws; the server answers 400.
AuctionThrows(o) == RecordFails(o) /\ call' = NoAnswer({o})

AuctionDies == Crash /\ call' = NoAnswer(Opportunities)

-----------------------------------------------------------------------------

FlowInit ==
    /\ HouseInit
    /\ call = [o \in Opportunities |-> "absent"]

Routing(o) == RouteOrder(o) \/ Unreachable(o) \/ AuctionAnswers(o) \/ TimesOut(o) \/ SendDirect(o)

FlowNext ==
    \/ \E o \in Opportunities : Routing(o) \/ AuctionThrows(o) \/ (Order(o) /\ UNCHANGED call)
    \/ AuctionDies
    \/ (Bidding \/ BondMoves \/ TimePasses) /\ UNCHANGED call

\* The auction's fairness, and the gateway's promises settle.
FlowFairness ==
    /\ HouseFairness
    /\ \A o \in Opportunities :
          WF_flowVars(AuctionAnswers(o)) /\ WF_flowVars(TimesOut(o)) /\ WF_flowVars(SendDirect(o))

FlowSpec == FlowInit /\ [][FlowNext]_flowVars /\ FlowFairness

-----------------------------------------------------------------------------
(* Properties *)

\* "A missed rebate is an acceptable loss, a dropped transaction is not"
\* (orderflow.ts:21-23): an order that the auction was given is sent, by the auction once or
\* by the gateway, whatever fails in the auction and whenever; it is not only when the last
\* one to send it, of those two, has had an error from its node and told the sender.  The
\* comment promises less of that: a fallback also when the auction "fails to dispatch",
\* where lines 70-75 answer with the auction's error.
EveryOrderSent ==
    \A o \in Opportunities :
        call[o] = "waiting" ~>
            \/ call[o] = "direct"
            \/ call[o] = "auctioned" /\ userSends[o] = 1
            \/ call[o] = "refused" /\ userSends[o] = 0 /\ failed > 0
            \/ call[o] = "failed" /\ failed > 0
=============================================================================
