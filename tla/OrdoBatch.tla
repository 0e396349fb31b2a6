----------------------------- MODULE OrdoBatch -----------------------------
(***************************************************************************)
(* The batch settlement contract, contracts/src/OrdoBatch.sol.             *)
(*                                                                         *)
(* Users sign limit orders, or deposit ETH for one.  The solver settles a  *)
(* set of orders at one price per token: the contract pulls every sell (or *)
(* takes it from escrow), runs the solver's swap on the pools, pays every  *)
(* buy, and checks per token that it lost nothing and kept at most its fee *)
(* cap.  A deposit that is not filled in time is refunded.                 *)
(*                                                                         *)
(* One action is one external call that does not revert.  The functions    *)
(* that pay out hold the reentrancy lock.  What an account that is paid    *)
(* ether may still call is cancel, a step of its own before or after, and, *)
(* if it is the owner, the functions without the lock: sweep, which is     *)
(* part of Settle, and the setters, which could as well have come first.   *)
(* The solver is not trusted: it chooses orders, prices and swaps freely,  *)
(* and a swap returns what the pools give.  Path decoding is left out.     *)
(***************************************************************************)
EXTENDS Integers, FiniteSets, Functions

CONSTANTS
    Accounts,         \* every address that may call or be paid
    Principals,       \* bound: accounts that roles and swept tokens go to, and that donate
    Rejecting,        \* accounts that are contracts which refuse ETH
    Tokens,           \* ERC-20 tokens
    WETH,
    Ether,            \* native ether, address(0) in an order's buyToken
    Nonces,
    Orders,           \* orders that are signed, deposited or submitted
    SignedOrders,     \* those whose signature is their owner's
    PriceLists,       \* bound: [Tokens -> Nat], 0 for a token without a price
    Swaps,            \* bound: what the solver's interactions spend and the pools return in all
    FeeChoices,       \* bound: values of maxFeeBps the owner may ask for
    Endowment,        \* [Accounts -> [Tokens and Ether -> Nat]]
    MaxTime           \* bound: last instant

Assets == Tokens \cup {Ether}
FeeCeiling == 100
BasisPoints == 10000

OrderType ==
    [owner: Accounts, receiver: Accounts, sellToken: Tokens, buyToken: Assets,
     sellAmount: Nat \ {0}, minBuyAmount: Nat, validTo: Nat, nonce: Nonces]

ASSUME BatchConstants ==
    /\ Principals \subseteq Accounts
    /\ Rejecting \subseteq Accounts
    /\ WETH \in Tokens
    /\ Ether \notin Tokens
    /\ Orders \subseteq OrderType /\ IsFiniteSet(Orders)
    /\ SignedOrders \subseteq Orders
    /\ PriceLists \subseteq [Tokens -> Nat]
    /\ Swaps \subseteq [spent: [Tokens -> Nat], gained: [Tokens -> Nat]]
    /\ FeeChoices \subseteq Nat
    /\ Endowment \in [Accounts -> [Assets -> Nat]]
    /\ MaxTime \in Nat

VARIABLES
    nonceUsed,        \* pairs <<owner, nonce>>
    escrowed,         \* [Orders -> Nat]
    escrowTotal,
    filled,           \* [Orders -> amount bought or NotFilled], the Trade events
    owner, solver, treasury, maxFeeBps,
    held,             \* [Tokens -> Nat]: the contract's balances
    purse,            \* [Accounts -> [Assets -> Nat]]: everyone else's
    now               \* block.timestamp

roles == <<owner, solver, treasury, maxFeeBps>>
book == <<nonceUsed, escrowed, escrowTotal, filled>>
batchVars == <<book, roles, held, purse, now>>

NotFilled == -1

-----------------------------------------------------------------------------
(* Helpers.  A definition named ..._Bug is a mistake that the definition after *)
(* it could contain; README.md says which property each one breaks.            *)

\* Ether out of an order is WETH in prices and balances.
AsToken(x) == IF x = Ether THEN WETH ELSE x

\* An order is pulled from its owner unless its deposit pays for it.
Pulls_Bug(o) == o \in SignedOrders
Pulls(o) == escrowed[o] = 0

BuyAmount(o, px) == (o.sellAmount * px[o.sellToken]) \div px[AsToken(o.buyToken)]

\* What a set of orders sells, and buys at the prices px.
Sold(S) == SumFunction([o \in S |-> o.sellAmount])
Bought(S, px) == SumFunction([o \in S |-> BuyAmount(o, px)])

\* What account a is asked for, and paid, in asset x.
PulledFrom(a, x, batch) == Sold({o \in batch : o.owner = a /\ o.sellToken = x /\ Pulls(o)})
PaidTo(a, x, batch, px) == Bought({o \in batch : o.receiver = a /\ o.buyToken = x}, px)

EscrowOf(batch) == SumFunctionOnSet(escrowed, batch)

\* The contract's balance of x when the sells are pulled, and when the buys are paid.
Pooled(x, batch) == held[x] + Sold({o \in batch : o.sellToken = x /\ Pulls(o)})
Paid(x, batch, px, swap) ==
    Pooled(x, batch) - swap.spent[x] + swap.gained[x]
        - Bought({o \in batch : AsToken(o.buyToken) = x}, px)

\* What sweep leaves alone once the escrow of the batch is consumed.
Unswept(x, batch) == IF x = WETH THEN escrowTotal - EscrowOf(batch) ELSE 0

\* The balance that is checked: the owner, paid in ether, may have swept some tokens.
After(x, batch, px, swap, swept) ==
    IF x \in swept THEN Unswept(x, batch) ELSE Paid(x, batch, px, swap)

Volume(x, batch, px) ==
    Sold({o \in batch : o.sellToken = x}) + Bought({o \in batch : AsToken(o.buyToken) = x}, px)

Cap(x, batch, px) == (Volume(x, batch, px) * maxFeeBps) \div BasisPoints

\* Every priced token, and WETH always: the escrow lives in it.
Watched_Bug(x, px) == px[x] # 0
Watched(x, px) == x = WETH \/ px[x] # 0

\* What the contract must still hold of x: all it had, less the deposits consumed.
Expected(x, consumed) == held[x] - (IF x = WETH THEN consumed ELSE 0)

-----------------------------------------------------------------------------
(* Orders *)

NoncesDiffer(batch) ==
    \A o, p \in batch : o.owner = p.owner /\ o.nonce = p.nonce => o = p

NonceFree_Bug(o) == filled[o] = NotFilled
NonceFree(o) == <<o.owner, o.nonce>> \notin nonceUsed

DepositOrder(o) ==
    /\ o.sellToken = WETH
    /\ purse[o.owner][Ether] >= o.sellAmount
    /\ o.validTo >= now
    /\ NonceFree(o)
    /\ escrowed[o] = 0
    /\ purse' = [purse EXCEPT ![o.owner][Ether] = @ - o.sellAmount]
    /\ held' = [held EXCEPT ![WETH] = @ + o.sellAmount]
    /\ escrowed' = [escrowed EXCEPT ![o] = o.sellAmount]
    /\ escrowTotal' = escrowTotal + o.sellAmount
    /\ UNCHANGED <<nonceUsed, filled, roles, now>>

Refundable_BugEarly(o) == escrowed[o] # 0
Refundable_Bug(o) == escrowed[o] # 0 /\ o.validTo < now /\ NonceFree(o)
Refundable(o) == escrowed[o] # 0 /\ o.validTo < now

\* Anyone may call; the ether goes to the owner.
Refund(o) ==
    LET amount == escrowed[o]
    IN  /\ Refundable(o)
        /\ amount <= escrowTotal /\ amount <= held[WETH]
        /\ o.owner \notin Rejecting
        /\ escrowed' = [escrowed EXCEPT ![o] = 0]
        /\ escrowTotal' = escrowTotal - amount
        /\ held' = [held EXCEPT ![WETH] = @ - amount]
        /\ purse' = [purse EXCEPT ![o.owner][Ether] = @ + amount]
        /\ UNCHANGED <<nonceUsed, filled, roles, now>>

Cancel(a, n) ==
    /\ nonceUsed' = nonceUsed \cup {<<a, n>>}
    /\ UNCHANGED <<escrowed, escrowTotal, filled, roles, held, purse, now>>

-----------------------------------------------------------------------------
(* Settlement *)

\* _prepare: every order is live, authorised, priced and within its limit, and every
\* pull succeeds.
Prepared(batch, px) ==
    /\ NoncesDiffer(batch)
    /\ \A o \in batch :
          /\ AsToken(o.buyToken) # o.sellToken
          /\ o.validTo >= now
          /\ NonceFree(o)
          /\ Pulls(o) => o \in SignedOrders
          /\ px[o.sellToken] # 0 /\ px[AsToken(o.buyToken)] # 0
          /\ BuyAmount(o, px) >= o.minBuyAmount
          /\ o.buyToken = Ether => o.receiver \notin Rejecting
    /\ \A a \in Accounts, x \in Tokens : PulledFrom(a, x, batch) <= purse[a][x]

\* What the owner may sweep if the batch pays it ether.
Sweeps(batch) ==
    IF \E o \in batch : o.buyToken = Ether /\ o.receiver = owner THEN SUBSET Tokens ELSE {{}}

\* _checkAndTakeFee
Checked(batch, px, swap, swept, consumed) ==
    \A x \in Tokens : Watched(x, px) =>
        LET fee == After(x, batch, px, swap, swept) - Expected(x, consumed)
        IN  fee >= 0 /\ fee <= Cap(x, batch, px)

EscrowsAfter(batch) == [o \in Orders |-> IF o \in batch THEN 0 ELSE escrowed[o]]

\* The solver's interactions come to some swap.  consumed is escrowConsumed; the checked
\* subtraction from escrowTotal bounds it.
Settle(caller, batch, px) ==
    /\ caller = solver
    /\ Prepared(batch, px)
    /\ \E consumed \in {EscrowOf(batch)} \cap (0..escrowTotal),
          swap \in Swaps, swept \in Sweeps(batch) :
        /\ \A x \in Tokens : swap.spent[x] <= Pooled(x, batch) + swap.gained[x]
        /\ \A x \in swept : Unswept(x, batch) <= Paid(x, batch, px, swap)
        /\ Checked(batch, px, swap, swept, consumed)
        /\ nonceUsed' = nonceUsed \cup {<<o.owner, o.nonce>> : o \in batch}
        /\ escrowed' = EscrowsAfter(batch)
        /\ escrowTotal' = escrowTotal - consumed
        /\ filled' = [o \in Orders |-> IF o \in batch THEN BuyAmount(o, px) ELSE filled[o]]
        /\ held' = [x \in Tokens |->
              IF Watched(x, px) THEN Expected(x, consumed) ELSE After(x, batch, px, swap, swept)]
        /\ purse' = [a \in Accounts |-> [x \in Assets |->
                purse[a][x]
              - (IF x = Ether THEN 0 ELSE PulledFrom(a, x, batch))
              + PaidTo(a, x, batch, px)
              + (IF a = treasury /\ x # Ether /\ Watched(x, px)
                 THEN After(x, batch, px, swap, swept) - Expected(x, consumed) ELSE 0)
              + (IF a = owner /\ x \in swept
                 THEN Paid(x, batch, px, swap) - Unswept(x, batch) ELSE 0)]]
        /\ UNCHANGED <<roles, now>>

-----------------------------------------------------------------------------
(* Administration; the zero address is refused because it is not an account *)

SetSolver(caller, a) ==
    /\ caller = owner
    /\ solver' = a
    /\ UNCHANGED <<book, owner, treasury, maxFeeBps, held, purse, now>>

SetTreasury(caller, a) ==
    /\ caller = owner
    /\ treasury' = a
    /\ UNCHANGED <<book, owner, solver, maxFeeBps, held, purse, now>>

FeeAllowed_Bug(bps) == bps <= BasisPoints
FeeAllowed(bps) == bps <= FeeCeiling

SetMaxFeeBps(caller, bps) ==
    /\ caller = owner
    /\ FeeAllowed(bps)
    /\ maxFeeBps' = bps
    /\ UNCHANGED <<book, owner, solver, treasury, held, purse, now>>

TransferOwnership(caller, a) ==
    /\ caller = owner
    /\ owner' = a
    /\ UNCHANGED <<book, solver, treasury, maxFeeBps, held, purse, now>>

\* What sweep leaves alone.
Reserved(x) == IF x = WETH THEN escrowTotal ELSE 0

Sweep(caller, x, to) ==
    /\ caller = owner
    /\ Reserved(x) <= held[x]
    /\ held' = [held EXCEPT ![x] = Reserved(x)]
    /\ purse' = [purse EXCEPT ![to][x] = @ + held[x] - Reserved(x)]
    /\ UNCHANGED <<book, roles, now>>

-----------------------------------------------------------------------------
(* The chain around the contract *)

\* A plain ERC-20 transfer to the contract.
Donate(a, x) ==
    /\ purse[a][x] > 0
    /\ purse' = [purse EXCEPT ![a][x] = @ - 1]
    /\ held' = [held EXCEPT ![x] = @ + 1]
    /\ UNCHANGED <<book, roles, now>>

Tick ==
    /\ now < MaxTime
    /\ now' = now + 1
    /\ UNCHANGED <<book, roles, held, purse>>

-----------------------------------------------------------------------------

BatchInit ==
    /\ nonceUsed = {}
    /\ escrowed = [o \in Orders |-> 0]
    /\ escrowTotal = 0
    /\ filled = [o \in Orders |-> NotFilled]
    /\ owner \in Principals
    /\ solver \in Principals
    /\ treasury \in Principals
    /\ maxFeeBps \in {bps \in FeeChoices : bps <= FeeCeiling}
    /\ held = [x \in Tokens |-> 0]
    /\ purse = Endowment
    /\ now = 0

Trading ==
    \/ \E o \in Orders : DepositOrder(o) \/ Refund(o)
    \/ \E o \in Orders : Cancel(o.owner, o.nonce)
    \/ \E caller \in Principals, batch \in SUBSET Orders, px \in PriceLists :
          Settle(caller, batch, px)

Administration ==
    \E caller, a \in Principals :
        \/ SetSolver(caller, a)
        \/ SetTreasury(caller, a)
        \/ TransferOwnership(caller, a)
        \/ \E bps \in FeeChoices : SetMaxFeeBps(caller, bps)
        \/ \E x \in Tokens : Sweep(caller, x, a) \/ Donate(a, x)

BatchNext == Trading \/ Administration \/ Tick

\* Blocks keep coming, and someone asks for every refund that is due.
BatchFairness == WF_batchVars(Tick) /\ \A o \in Orders : WF_batchVars(Refund(o))

BatchSpec == BatchInit /\ [][BatchNext]_batchVars
FairBatchSpec == BatchSpec /\ BatchFairness

-----------------------------------------------------------------------------
(* Properties *)

\* The state has its types; no owner lifts the fee cap over its ceiling
\* (OrdoBatch.sol:128, 535-536).
BatchTypeOK ==
    /\ nonceUsed \subseteq Accounts \X Nonces
    /\ escrowed \in [Orders -> Nat]
    /\ escrowTotal \in Nat
    /\ filled \in [Orders -> Nat \cup {NotFilled}]
    /\ {owner, solver, treasury} \subseteq Accounts
    /\ maxFeeBps \in 0..FeeCeiling
    /\ held \in [Tokens -> Nat]
    /\ purse \in [Accounts -> [Assets -> Nat]]
    /\ now \in Nat

\* No price, swap, fee, refund or sweep reaches the WETH of waiting deposits ("the
\* escrow lives in it, and an interaction ... must still be unable to spend it",
\* OrdoBatch.sol:349-350).
EscrowCovered == held[WETH] >= escrowTotal

\* At most one order of an owner is filled per nonce, deposited or signed
\* ("consumed on fill or cancel", OrdoBatch.sol:87).
NonceFillsOnce ==
    \A o, p \in Orders :
        filled[o] # NotFilled /\ filled[p] # NotFilled /\ o.owner = p.owner /\ o.nonce = p.nonce
            => o = p

\* ETH, WETH and deposits of an account, as one kind of money.
Wealth(a, x) ==
    IF x # WETH THEN purse[a][x]
    ELSE purse[a][WETH] + purse[a][Ether]
           + EscrowOf({o \in Orders : o.owner = a})

\* An account without a role has what it started with, less what its filled orders
\* sold and plus at least their limits, whatever the solver and the owner did: nothing
\* is pulled twice, pulled and taken from escrow, or refunded after a fill ("a user is
\* protected by their limit", OrdoBatch.sol:59).  And escrowTotal, which sweep relies on,
\* is the sum of the deposits it stands for.
BooksBalance ==
    /\ escrowTotal = EscrowOf(Orders)
    /\ \A a \in Accounts \ Principals, x \in Tokens :
          LET start == IF x = WETH THEN Endowment[a][WETH] + Endowment[a][Ether] ELSE Endowment[a][x]
              sold == {o \in Orders : o.owner = a /\ o.sellToken = x /\ filled[o] # NotFilled}
              bought == {o \in Orders : o.receiver = a /\ AsToken(o.buyToken) = x /\ filled[o] # NotFilled}
          IN  /\ Wealth(a, x) = start - Sold(sold) + SumFunctionOnSet(filled, bought)
              /\ \A o \in bought : filled[o] >= o.minBuyAmount

\* "If it is not filled by validTo, refund returns the ether" (OrdoBatch.sol:66-68): a
\* deposit does not stay in escrow, cancelled or not, unless its owner refuses ETH.
EscrowReturned ==
    \A o \in Orders : o.owner \notin Rejecting =>
        (escrowed[o] # 0 ~> escrowed[o] = 0)

\* The lifecycle of an order as this contract keeps it.
Lifecycle == INSTANCE OrderLifecycle WITH
    Key <- [o \in Orders |-> <<o.owner, o.nonce>>],
    outcome <- [o \in Orders |-> IF filled[o] # NotFilled THEN "filled"
                                 ELSE IF <<o.owner, o.nonce>> \in nonceUsed THEN "void"
                                 ELSE "open"],
    escrow <- [o \in Orders |-> escrowed[o] # 0],
    late <- [o \in Orders |-> o.validTo < now]

\* Every step of the contract is a step of an order's lifecycle or leaves it alone.
OrdersLiveOnce == Lifecycle!LifecycleSpec
=============================================================================
