----------------------------- MODULE MCOrdoBatch -----------------------------
(* A small instance of OrdoBatch. *)
EXTENDS OrdoBatch

CONSTANTS alice, bob, vault, boss, carl, weth, tok, ether

Limit(a, sell, buy, amount, min, until, n) ==
    [owner |-> a, receiver |-> a, sellToken |-> sell, buyToken |-> buy,
     sellAmount |-> amount, minBuyAmount |-> min, validTo |-> until, nonce |-> n]

\* alice's two orders share a nonce, and both may be deposited; vault has no
\* signature and refuses ether.
MCSigned ==
    {Limit(alice, weth, tok, 100, 99, 1, 1),
     Limit(bob, tok, ether, 100, 99, 1, 1),
     [Limit(bob, tok, ether, 50, 50, 0, 1) EXCEPT !.receiver = boss]}
MCOrders ==
    MCSigned \cup {Limit(alice, weth, tok, 50, 40, 0, 1), Limit(vault, weth, tok, 50, 50, 0, 1)}

List(w, t) == [x \in {weth, tok} |-> IF x = weth THEN w ELSE t]
MCPriceLists == {List(1, 1), List(100, 101), List(0, 1)}

Of(x, n) == [y \in {weth, tok} |-> IF y = x THEN n ELSE 0]
Swap(x, in, y, out) == [spent |-> Of(x, in), gained |-> Of(y, out)]
\* No swap, fair ones, one too small to notice, and two that give the traders' money
\* away.
MCSwaps ==
    {Swap(weth, 0, tok, 0), Swap(tok, 1, weth, 1), Swap(tok, 100, weth, 100),
     Swap(weth, 1, tok, 0), Swap(weth, 200, tok, 100)}
    \cup {Swap(weth, in, tok, in) : in \in {50, 100}}

MCEndowment == [a \in Accounts |-> [x \in Assets |->
    CASE a = alice /\ x \in {weth, ether} -> 150
      [] a = vault /\ x = ether -> 50
      [] a = bob /\ x = tok -> 100
      [] a = boss /\ x = weth -> 1
      [] OTHER -> 0]]
=============================================================================
