----------------------------- MODULE MCHeadFeed -----------------------------
(* Small instances of HeadFeed: requests, or subscribers, or one of each. *)
EXTENDS HeadFeed

CONSTANTS r1, r2, r3, s1, s2

MCAlone ==
    {[requests |-> {r1, r2, r3}, joins |-> 0],
     [requests |-> {}, joins |-> 2]}

MCBoth == {[requests |-> {r1}, joins |-> 1]}
=============================================================================
