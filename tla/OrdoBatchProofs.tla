-------------------------- MODULE OrdoBatchProofs --------------------------
(***************************************************************************)
(* What OrdoBatch guarantees for every set of orders, prices, swaps and    *)
(* fee caps, with a solver and an owner that do as they please: waiting    *)
(* deposits stay covered, and a nonce is filled once.                      *)
(***************************************************************************)
EXTENDS OrdoBatch, SumTheorems, TLAPS

-----------------------------------------------------------------------------
(* The escrow *)

\* EscrowCovered is inductive once the numbers it compares are numbers.
EscrowInv ==
    /\ held = [x \in Tokens |-> held[x]]
    /\ held[WETH] \in Nat
    /\ escrowed \in [Orders -> Nat]
    /\ escrowTotal \in Nat
    /\ EscrowCovered

\* depositOrder and _prepare refuse an order that sells nothing.
LEMMA OrderAmounts == \A o \in Orders : o.sellAmount \in Nat \ {0}
BY BatchConstants DEF OrderType

\* No deposit, and the contract holds nothing.
LEMMA EscrowInitially == BatchInit => EscrowInv
BY BatchConstants DEF BatchInit, EscrowInv, EscrowCovered

\* WETH is watched whatever the prices are, so a settlement leaves exactly what was
\* there less the deposits it consumed.
LEMMA SettleKeepsEscrow ==
    ASSUME EscrowInv, NEW caller, NEW batch, NEW px, Settle(caller, batch, px)
    PROVE  EscrowInv'
<1>1. PICK consumed \in {EscrowOf(batch)} \cap (0..escrowTotal),
           swap \in Swaps, swept \in Sweeps(batch) :
        /\ escrowed' = EscrowsAfter(batch)
        /\ escrowTotal' = escrowTotal - consumed
        /\ held' = [x \in Tokens |->
              IF Watched(x, px) THEN Expected(x, consumed) ELSE After(x, batch, px, swap, swept)]
  BY DEF Settle
<1>2. consumed \in Nat /\ consumed <= escrowTotal
  BY <1>1 DEF EscrowInv
<1>3. held'[WETH] = held[WETH] - consumed
  BY <1>1, BatchConstants DEF Watched, Expected
<1>4. escrowed' \in [Orders -> Nat]
  BY <1>1 DEF EscrowsAfter, EscrowInv
<1>5. held' = [x \in Tokens |-> held'[x]]
  <2> DEFINE left(x) == IF Watched(x, px) THEN Expected(x, consumed)
                        ELSE After(x, batch, px, swap, swept)
  <2>1. held' = [x \in Tokens |-> left(x)]
    BY <1>1
  <2> HIDE DEF left
  <2> QED
    BY <2>1
<1> QED
  BY <1>1, <1>2, <1>3, <1>4, <1>5 DEF EscrowInv, EscrowCovered

\* No other step takes WETH out without lowering the total by as much.
LEMMA EscrowPreserved == EscrowInv /\ [BatchNext]_batchVars => EscrowInv'
<1> SUFFICES ASSUME EscrowInv, [BatchNext]_batchVars PROVE EscrowInv'
  OBVIOUS
<1>0. WETH \in Tokens
  BY BatchConstants
<1> USE <1>0
<1>1. ASSUME NEW o \in Orders, DepositOrder(o) PROVE EscrowInv'
  <2>1. o.sellAmount \in Nat
    BY OrderAmounts
  <2>2. /\ held' = [held EXCEPT ![WETH] = @ + o.sellAmount]
        /\ escrowed' = [escrowed EXCEPT ![o] = o.sellAmount]
        /\ escrowTotal' = escrowTotal + o.sellAmount
    BY <1>1 DEF DepositOrder
  <2> QED
    BY <2>1, <2>2 DEF EscrowInv, EscrowCovered
<1>2. ASSUME NEW o \in Orders, Refund(o) PROVE EscrowInv'
  <2>1. /\ escrowed[o] \in Nat /\ escrowed[o] <= escrowTotal /\ escrowed[o] <= held[WETH]
        /\ held' = [held EXCEPT ![WETH] = @ - escrowed[o]]
        /\ escrowed' = [escrowed EXCEPT ![o] = 0]
        /\ escrowTotal' = escrowTotal - escrowed[o]
    BY <1>2 DEF Refund, EscrowInv
  <2> QED
    BY <2>1 DEF EscrowInv, EscrowCovered
<1>3. ASSUME NEW o \in Orders, Cancel(o.owner, o.nonce) PROVE EscrowInv'
  BY <1>3 DEF Cancel, EscrowInv, EscrowCovered
<1>4. ASSUME NEW caller, NEW batch, NEW px, Settle(caller, batch, px)
      PROVE  EscrowInv'
  BY <1>4, SettleKeepsEscrow
<1>5. ASSUME NEW caller, NEW a,
             SetSolver(caller, a) \/ SetTreasury(caller, a) \/ TransferOwnership(caller, a)
             \/ SetMaxFeeBps(caller, a)
      PROVE  EscrowInv'
  BY <1>5 DEF SetSolver, SetTreasury, TransferOwnership, SetMaxFeeBps, EscrowInv, EscrowCovered, book
<1>6. ASSUME NEW caller, NEW x \in Tokens, NEW a, Sweep(caller, x, a) PROVE EscrowInv'
  BY <1>6 DEF Sweep, Reserved, EscrowInv, EscrowCovered, book
<1>7. ASSUME NEW x \in Tokens, NEW a, Donate(a, x) PROVE EscrowInv'
  BY <1>7 DEF Donate, EscrowInv, EscrowCovered, book
<1>8. ASSUME Tick \/ UNCHANGED batchVars PROVE EscrowInv'
  BY <1>8 DEF Tick, batchVars, EscrowInv, EscrowCovered, book
<1> QED
  BY <1>1, <1>2, <1>3, <1>4, <1>5, <1>6, <1>7, <1>8 DEF BatchNext, Trading, Administration

\* No price, swap, fee, refund or sweep reaches the WETH of waiting deposits
\* (OrdoBatch.sol:349-350 and :551).
THEOREM EscrowSafe == BatchSpec => []EscrowCovered
<1>1. EscrowInv => EscrowCovered
  BY DEF EscrowInv
<1> QED
  BY <1>1, EscrowInitially, EscrowPreserved, PTL DEF BatchSpec

-----------------------------------------------------------------------------
(* Nonces *)

\* A filled order has used its nonce, so the next one to name it is refused.
NonceInv ==
    /\ filled = [o \in Orders |-> filled[o]]
    /\ \A o \in Orders : filled[o] # NotFilled => <<o.owner, o.nonce>> \in nonceUsed
    /\ NonceFillsOnce

\* Nothing is filled at the start.
LEMMA NonceInitially == BatchInit => NonceInv
BY DEF BatchInit, NonceInv, NonceFillsOnce

\* What is filled now was filled before or is in the batch; the batch has one order per
\* owner and nonce, and none whose nonce is used.
LEMMA SettleKeepsNonces ==
    ASSUME NonceInv, NEW caller, NEW batch \in SUBSET Orders, NEW px,
           Settle(caller, batch, px)
    PROVE  NonceInv'
<1> DEFINE bought(o) == IF o \in batch THEN BuyAmount(o, px) ELSE filled[o]
<1>1. /\ nonceUsed' = nonceUsed \cup {<<o.owner, o.nonce>> : o \in batch}
      /\ filled' = [o \in Orders |-> bought(o)]
      /\ Prepared(batch, px)
  BY DEF Settle
<1>2. \A o \in batch : <<o.owner, o.nonce>> \notin nonceUsed
  BY <1>1 DEF Prepared, NonceFree
<1>3. \A o, p \in batch : o.owner = p.owner /\ o.nonce = p.nonce => o = p
  BY <1>1 DEF Prepared, NoncesDiffer
<1>4. \A o \in Orders : filled'[o] # NotFilled => o \in batch \/ filled[o] # NotFilled
  BY <1>1
<1> HIDE DEF bought
<1>5. filled' = [o \in Orders |-> filled'[o]]
  BY <1>1
<1>6. \A o \in Orders : filled'[o] # NotFilled => <<o.owner, o.nonce>> \in nonceUsed'
  BY <1>1, <1>4 DEF NonceInv
<1>7. ASSUME NEW o \in Orders, NEW p \in Orders, filled'[o] # NotFilled, filled'[p] # NotFilled,
             o.owner = p.owner, o.nonce = p.nonce
      PROVE  o = p
  <2>1. CASE o \in batch /\ p \in batch
    BY <2>1, <1>3, <1>7
  <2>2. CASE filled[o] # NotFilled /\ filled[p] # NotFilled
    BY <2>2, <1>7 DEF NonceInv, NonceFillsOnce
  <2>3. CASE o \in batch /\ filled[p] # NotFilled
    BY <2>3, <1>2, <1>7 DEF NonceInv
  <2>4. CASE p \in batch /\ filled[o] # NotFilled
    BY <2>4, <1>2, <1>7 DEF NonceInv
  <2> QED
    BY <2>1, <2>2, <2>3, <2>4, <1>4, <1>7
<1> QED
  BY <1>5, <1>6, <1>7 DEF NonceInv, NonceFillsOnce

\* Only a settlement fills, and no nonce becomes free again.
LEMMA NoncePreserved == NonceInv /\ [BatchNext]_batchVars => NonceInv'
<1> SUFFICES ASSUME NonceInv, [BatchNext]_batchVars PROVE NonceInv'
  OBVIOUS
<1>1. ASSUME NEW o \in Orders, DepositOrder(o) \/ Refund(o) PROVE NonceInv'
  BY <1>1 DEF DepositOrder, Refund, NonceInv, NonceFillsOnce
<1>2. ASSUME NEW o \in Orders, Cancel(o.owner, o.nonce) PROVE NonceInv'
  BY <1>2 DEF Cancel, NonceInv, NonceFillsOnce
<1>3. ASSUME NEW caller, NEW batch \in SUBSET Orders, NEW px,
             Settle(caller, batch, px)
      PROVE  NonceInv'
  BY <1>3, SettleKeepsNonces
<1>4. ASSUME UNCHANGED <<nonceUsed, filled>> PROVE NonceInv'
  BY <1>4 DEF NonceInv, NonceFillsOnce
<1>5. ASSUME Administration PROVE NonceInv'
  BY <1>4, <1>5 DEF Administration, SetSolver, SetTreasury, TransferOwnership, SetMaxFeeBps,
                    Sweep, Donate, book
<1>6. ASSUME Tick \/ UNCHANGED batchVars PROVE NonceInv'
  BY <1>4, <1>6 DEF Tick, batchVars, book
<1> QED
  BY <1>1, <1>2, <1>3, <1>5, <1>6 DEF BatchNext, Trading

\* At most one order of an owner is filled per nonce, deposited or signed
\* (OrdoBatch.sol:385-386).
THEOREM OneFillPerNonce == BatchSpec => []NonceFillsOnce
<1>1. NonceInv => NonceFillsOnce
  BY DEF NonceInv
<1> QED
  BY <1>1, NonceInitially, NoncePreserved, PTL DEF BatchSpec
-----------------------------------------------------------------------------
(* The lifecycle of an order *)

\* What a step needs to be a step of OrderLifecycle: the state of an order is a function
\* of its fill, its nonce and its deposit, and a filled order has used its nonce.
LifecycleInv ==
    /\ NonceInv
    /\ escrowed \in [Orders -> Nat]
    /\ now \in Nat

LEMMA LifecycleInvInitially == BatchInit => LifecycleInv
BY NonceInitially DEF BatchInit, LifecycleInv

LEMMA LifecycleInvPreserved == LifecycleInv /\ [BatchNext]_batchVars => LifecycleInv'
<1> SUFFICES ASSUME LifecycleInv, [BatchNext]_batchVars PROVE LifecycleInv'
  OBVIOUS
<1>1. NonceInv'
  BY NoncePreserved DEF LifecycleInv
<1>2. escrowed' \in [Orders -> Nat] /\ now' \in Nat
  <2>1. ASSUME NEW o \in Orders, DepositOrder(o) \/ Refund(o) \/ Cancel(o.owner, o.nonce)
        PROVE  escrowed' \in [Orders -> Nat] /\ now' \in Nat
    BY <2>1, OrderAmounts DEF DepositOrder, Refund, Cancel, LifecycleInv
  <2>2. ASSUME NEW caller, NEW batch, NEW px, Settle(caller, batch, px)
        PROVE  escrowed' \in [Orders -> Nat] /\ now' \in Nat
    BY <2>2 DEF Settle, EscrowsAfter, LifecycleInv
  <2>3. ASSUME Administration \/ Tick \/ UNCHANGED batchVars
        PROVE  escrowed' \in [Orders -> Nat] /\ now' \in Nat
    BY <2>3 DEF Administration, SetSolver, SetTreasury, TransferOwnership, SetMaxFeeBps, Sweep,
                Donate, Tick, batchVars, book, LifecycleInv
  <2> QED
    BY <2>1, <2>2, <2>3 DEF BatchNext, Trading
<1> QED
  BY <1>1, <1>2 DEF LifecycleInv

\* Nothing is filled, cancelled or deposited at the start.
LEMMA LifecycleInitially == BatchInit => Lifecycle!LifecycleInit
<1> SUFFICES ASSUME BatchInit PROVE Lifecycle!LifecycleInit
  OBVIOUS
<1>1. /\ \A o \in Orders : filled[o] = NotFilled /\ ~(escrowed[o] # 0)
      /\ nonceUsed = {}
  BY DEF BatchInit
<1>2. [o \in Orders |-> escrowed[o] # 0] = [o \in Orders |-> FALSE]
  BY <1>1, Zenon
<1>3. [o \in Orders |-> o.validTo < now] \in [Orders -> BOOLEAN]
  <2>1. \A o \in Orders : (o.validTo < now) \in BOOLEAN
    OBVIOUS
  <2> QED
    BY <2>1, Zenon
<1> QED
  BY <1>1, <1>2, <1>3 DEF Lifecycle!LifecycleInit

LEMMA DepositIsDeposit ==
    ASSUME LifecycleInv, NEW o \in Orders, DepositOrder(o)
    PROVE  Lifecycle!Deposit(o)
<1>1. o.sellAmount # 0 /\ o.validTo \in Nat
  BY BatchConstants, OrderAmounts DEF OrderType
<1>2. filled[o] = NotFilled /\ <<o.owner, o.nonce>> \notin nonceUsed /\ ~(o.validTo < now)
  BY <1>1 DEF DepositOrder, NonceFree, LifecycleInv, NonceInv
<1> QED
  BY <1>1, <1>2 DEF DepositOrder, Lifecycle!Deposit, LifecycleInv

LEMMA RefundIsRefund ==
    ASSUME LifecycleInv, NEW o \in Orders, Refund(o)
    PROVE  Lifecycle!Refund(o)
BY DEF Refund, Refundable, Lifecycle!Refund, LifecycleInv

LEMMA CancelIsCancel ==
    ASSUME LifecycleInv, NEW o \in Orders, Cancel(o.owner, o.nonce)
    PROVE  Lifecycle!Cancel(<<o.owner, o.nonce>>)
BY DEF Cancel, Lifecycle!Cancel, Lifecycle!Closed, LifecycleInv

\* A price never makes the amount bought look like no fill.
LEMMA BuyAmountIsNat ==
    ASSUME NEW o \in Orders, NEW px \in PriceLists,
           px[o.sellToken] # 0, px[AsToken(o.buyToken)] # 0
    PROVE  BuyAmount(o, px) \in Nat
<1>1. /\ o.sellAmount \in Nat
      /\ o.sellToken \in Tokens
      /\ AsToken(o.buyToken) \in Tokens
      /\ px \in [Tokens -> Nat]
  BY BatchConstants DEF OrderType, AsToken, Assets
<1>2. px[o.sellToken] \in Nat /\ px[AsToken(o.buyToken)] \in Nat \ {0}
  BY <1>1
<1> QED
  BY <1>1, <1>2 DEF BuyAmount

\* A settlement fills open orders that are not late, no two with one nonce, and closes
\* every other order of those nonces.
LEMMA SettleIsFill ==
    ASSUME LifecycleInv, NEW caller, NEW batch \in SUBSET Orders, NEW px \in PriceLists,
           Settle(caller, batch, px)
    PROVE  Lifecycle!Fill(batch)
<1> DEFINE bought(o) == IF o \in batch THEN BuyAmount(o, px) ELSE filled[o]
           used == {<<o.owner, o.nonce>> : o \in batch}
<1>1. /\ Prepared(batch, px)
      /\ nonceUsed' = nonceUsed \cup used
      /\ filled' = [o \in Orders |-> bought(o)]
      /\ escrowed' = EscrowsAfter(batch)
      /\ now' = now
  BY DEF Settle
<1>2. \A o \in batch : filled'[o] # NotFilled
  <2> SUFFICES ASSUME NEW o \in batch PROVE filled'[o] # NotFilled
    OBVIOUS
  <2>1. BuyAmount(o, px) \in Nat
    BY <1>1, BuyAmountIsNat DEF Prepared
  <2> QED
    BY <1>1, <2>1 DEF NotFilled
<1>3. \A o \in Orders \ batch : filled'[o] = filled[o]
  BY <1>1
<1> HIDE DEF bought
<1>4. \A o \in batch : filled[o] = NotFilled /\ <<o.owner, o.nonce>> \notin nonceUsed
  BY <1>1 DEF Prepared, NonceFree, LifecycleInv, NonceInv
<1>5. \A o \in batch : ~(o.validTo < now)
  BY <1>1, BatchConstants DEF Prepared, OrderType, LifecycleInv
<1>6. \A o, p \in batch : <<o.owner, o.nonce>> = <<p.owner, p.nonce>> => o = p
  BY <1>1 DEF Prepared, NoncesDiffer
<1>7. Lifecycle!Fillable(batch)
  BY <1>4, <1>5, <1>6 DEF Lifecycle!Fillable
<1>8. {[p \in Orders |-> <<p.owner, p.nonce>>][o] : o \in batch} = used
  OBVIOUS
<1>9. \A o \in Orders : <<o.owner, o.nonce>> \in nonceUsed'
                          <=> <<o.owner, o.nonce>> \in nonceUsed \/ <<o.owner, o.nonce>> \in used
  BY <1>1
<1>10. \A o \in batch : <<o.owner, o.nonce>> \in used
  OBVIOUS
<1> HIDE DEF used
<1>11. \A o \in Orders : (escrowed'[o] # 0) <=> (escrowed[o] # 0 /\ o \notin batch)
  BY <1>1 DEF EscrowsAfter
<1> QED
  BY <1>1, <1>2, <1>3, <1>7, <1>8, <1>9, <1>11 DEF Lifecycle!Fill, Lifecycle!Closed

\* A later block makes more orders late.
LEMMA TickIsExpire ==
    ASSUME LifecycleInv, Tick
    PROVE  Lifecycle!Expire
<1>1. \A o \in Orders : o.validTo < now => o.validTo < now'
  BY BatchConstants DEF Tick, OrderType, LifecycleInv
<1> QED
  <2>1. [o \in Orders |-> o.validTo < now]' \in [Orders -> BOOLEAN]
    <3>1. \A o \in Orders : (o.validTo < now') \in BOOLEAN
      OBVIOUS
    <3> QED
      BY <3>1, Zenon
  <2>2. \A o \in Orders : [p \in Orders |-> p.validTo < now][o]
                           => [p \in Orders |-> p.validTo < now]'[o]
    BY <1>1
  <2> QED
    BY <2>1, <2>2 DEF Tick, book, Lifecycle!Expire

\* Every other call leaves the orders alone.
LEMMA LifecycleStep ==
    LifecycleInv /\ [BatchNext]_batchVars => [Lifecycle!LifecycleNext]_(Lifecycle!lifecycleVars)
<1> SUFFICES ASSUME LifecycleInv, [BatchNext]_batchVars
             PROVE  [Lifecycle!LifecycleNext]_(Lifecycle!lifecycleVars)
  OBVIOUS
<1>1. ASSUME NEW o \in Orders, DepositOrder(o) PROVE Lifecycle!LifecycleNext
  BY <1>1, DepositIsDeposit DEF Lifecycle!LifecycleNext
<1>2. ASSUME NEW o \in Orders, Refund(o) PROVE Lifecycle!LifecycleNext
  BY <1>2, RefundIsRefund DEF Lifecycle!LifecycleNext
<1>3. ASSUME NEW o \in Orders, Cancel(o.owner, o.nonce) PROVE Lifecycle!LifecycleNext
  BY <1>3, CancelIsCancel DEF Lifecycle!LifecycleNext
<1>4. ASSUME NEW caller, NEW batch \in SUBSET Orders, NEW px \in PriceLists,
             Settle(caller, batch, px)
      PROVE  Lifecycle!LifecycleNext
  BY <1>4, SettleIsFill DEF Lifecycle!LifecycleNext
<1>5. ASSUME Tick PROVE Lifecycle!LifecycleNext
  BY <1>5, TickIsExpire DEF Lifecycle!LifecycleNext
<1>6. ASSUME Administration \/ UNCHANGED batchVars PROVE UNCHANGED Lifecycle!lifecycleVars
  <2>1. UNCHANGED <<book, now>>
    BY <1>6 DEF Administration, SetSolver, SetTreasury, TransferOwnership, SetMaxFeeBps, Sweep,
                Donate, batchVars
  <2> QED
    BY <2>1 DEF book, Lifecycle!lifecycleVars
<1> QED
  BY <1>1, <1>2, <1>3, <1>4, <1>5, <1>6 DEF BatchNext, Trading

\* OrdoBatch implements OrderLifecycle: an order is filled at most once, in time and alone
\* under its nonce, and its deposit leaves with the fill or goes back when it is late
\* (OrdoBatch.sol:66-68 and :87).
THEOREM OrdersHaveOneFate == BatchSpec => OrdersLiveOnce
<1>1. LifecycleInv /\ [BatchNext]_batchVars => LifecycleInv'
  BY LifecycleInvPreserved
<1> QED
  BY <1>1, LifecycleInvInitially, LifecycleInitially, LifecycleStep, PTL
     DEF BatchSpec, OrdersLiveOnce, Lifecycle!LifecycleSpec
-----------------------------------------------------------------------------
(* The types *)

\* There are finitely many orders.
LEMMA OrdersAreFinite == IsFiniteSet(Orders)
BY BatchConstants

\* What some orders sell is a number, and parts of it add up.
LEMMA SoldAddsUp ==
    ASSUME NEW S \in SUBSET Orders, NEW P \in SUBSET S
    PROVE  Sold(S) \in Nat /\ Sold(S) = Sold(P) + Sold(S \ P)
<1> DEFINE sells == [o \in Orders |-> o.sellAmount]
<1>1. ASSUME NEW R \in SUBSET Orders
      PROVE  Sold(R) = SumFunctionOnSet(sells, R)
  <2> DEFINE f == [o \in R |-> o.sellAmount]
  <2>1. Sold(R) = SumFunctionOnSet(f, R)
    BY DEF Sold, SumFunction
  <2>2. IsFiniteSet(R) /\ \A o \in R : f[o] = sells[o]
    BY OrdersAreFinite, FS_Subset
  <2> HIDE DEF f, sells
  <2> QED
    BY <2>1, <2>2, SumOfSame
<1>2. IsFiniteSet(S) /\ \A o \in S : sells[o] \in Nat
  BY OrdersAreFinite, OrderAmounts, FS_Subset
<1> HIDE DEF sells
<1>3. SumFunctionOnSet(sells, S) \in Nat
  BY <1>2, SumIsNumber
<1>4. SumFunctionOnSet(sells, S) = SumFunctionOnSet(sells, P) + SumFunctionOnSet(sells, S \ P)
  <2>1. \A o \in S : sells[o] \in Int
    BY <1>2
  <2> QED
    BY <1>2, <2>1, SumOfParts
<1> QED
  BY <1>1, <1>3, <1>4

\* The same of what some orders buy, at prices at which each buys a number.
LEMMA BoughtAddsUp ==
    ASSUME NEW S \in SUBSET Orders, NEW P \in SUBSET S, NEW px,
           \A o \in S : BuyAmount(o, px) \in Nat
    PROVE  Bought(S, px) \in Nat /\ Bought(S, px) = Bought(P, px) + Bought(S \ P, px)
<1> DEFINE buys == [o \in S |-> BuyAmount(o, px)]
<1>1. ASSUME NEW R \in SUBSET S
      PROVE  Bought(R, px) = SumFunctionOnSet(buys, R)
  <2> DEFINE f == [o \in R |-> BuyAmount(o, px)]
  <2>1. Bought(R, px) = SumFunctionOnSet(f, R)
    BY DEF Bought, SumFunction
  <2>2. IsFiniteSet(R) /\ \A o \in R : f[o] = buys[o]
    BY OrdersAreFinite, FS_Subset
  <2> HIDE DEF f, buys
  <2> QED
    BY <2>1, <2>2, SumOfSame
<1>2. IsFiniteSet(S) /\ \A o \in S : buys[o] \in Nat
  BY OrdersAreFinite, FS_Subset
<1> HIDE DEF buys
<1>3. SumFunctionOnSet(buys, S) \in Nat
  BY <1>2, SumIsNumber
<1>4. SumFunctionOnSet(buys, S) = SumFunctionOnSet(buys, P) + SumFunctionOnSet(buys, S \ P)
  <2>1. \A o \in S : buys[o] \in Int
    BY <1>2
  <2> QED
    BY <1>2, <2>1, SumOfParts
<1> QED
  BY <1>1, <1>3, <1>4

\* No orders sell and buy nothing.
LEMMA NothingIsSold == \A px : Sold({}) = 0 /\ Bought({}, px) = 0
<1>1. Sold({}) = SumFunctionOnSet([o \in {} |-> o.sellAmount], {})
  BY DEF Sold, SumFunction
<1>2. \A px : Bought({}, px) = SumFunctionOnSet([o \in {} |-> BuyAmount(o, px)], {})
  BY DEF Bought, SumFunction
<1> QED
  BY <1>1, <1>2, SumOfNone

\* The orders of a prepared batch have prices, so what they sell and buy are numbers.
LEMMA BatchHasNumbers ==
    ASSUME NEW batch \in SUBSET Orders, NEW px \in PriceLists, Prepared(batch, px)
    PROVE  /\ \A o \in batch : BuyAmount(o, px) \in Nat
           /\ \A S \in SUBSET batch : Sold(S) \in Nat /\ Bought(S, px) \in Nat
<1>1. \A o \in batch : BuyAmount(o, px) \in Nat
  BY BuyAmountIsNat DEF Prepared
<1>2. ASSUME NEW S \in SUBSET batch
      PROVE  Sold(S) \in Nat /\ Bought(S, px) \in Nat
  <2>1. S \in SUBSET Orders /\ S \in SUBSET S /\ \A o \in S : BuyAmount(o, px) \in Nat
    BY <1>1
  <2> QED
    BY <2>1, SoldAddsUp, BoughtAddsUp
<1> QED
  BY <1>1, <1>2

\* No balance of a settlement underflows: the contract's, which loses nothing watched but
\* the deposits it consumes and nothing else but a swap it can pay; the traders', who are
\* asked for what they have; the treasury's, which takes a fee that is not negative.
LEMMA SettleTypes ==
    ASSUME BatchTypeOK, EscrowCovered, NEW caller,
           NEW batch \in SUBSET Orders, NEW px \in PriceLists,
           Settle(caller, batch, px)
    PROVE  held' \in [Tokens -> Nat] /\ purse' \in [Accounts -> [Assets -> Nat]]
<1>1. PICK consumed \in {EscrowOf(batch)} \cap (0..escrowTotal),
           swap \in Swaps, swept \in Sweeps(batch) :
        /\ Prepared(batch, px)
        /\ \A x \in Tokens : swap.spent[x] <= Pooled(x, batch) + swap.gained[x]
        /\ \A x \in swept : Unswept(x, batch) <= Paid(x, batch, px, swap)
        /\ Checked(batch, px, swap, swept, consumed)
        /\ held' = [x \in Tokens |->
              IF Watched(x, px) THEN Expected(x, consumed) ELSE After(x, batch, px, swap, swept)]
        /\ purse' = [a \in Accounts |-> [x \in Assets |->
                purse[a][x]
              - (IF x = Ether THEN 0 ELSE PulledFrom(a, x, batch))
              + PaidTo(a, x, batch, px)
              + (IF a = treasury /\ x # Ether /\ Watched(x, px)
                 THEN After(x, batch, px, swap, swept) - Expected(x, consumed) ELSE 0)
              + (IF a = owner /\ x \in swept
                 THEN Paid(x, batch, px, swap) - Unswept(x, batch) ELSE 0)]]
  BY DEF Settle
<1>2. /\ consumed \in Nat /\ consumed <= held[WETH]
      /\ \A x \in Tokens : held[x] \in Nat
      /\ \A a \in Accounts, x \in Assets : purse[a][x] \in Nat
      /\ \A x \in Tokens : swap.spent[x] \in Nat /\ swap.gained[x] \in Nat
      /\ swept \subseteq Tokens /\ EscrowOf(batch) \in Nat /\ EscrowOf(batch) <= escrowTotal
      /\ WETH \in Tokens /\ Ether \notin Tokens
  BY <1>1, BatchConstants DEF BatchTypeOK, EscrowCovered, Sweeps
<1>3. \A S \in SUBSET batch : Sold(S) \in Nat /\ Bought(S, px) \in Nat
  BY <1>1, BatchHasNumbers
<1>4. \A x \in Tokens : Expected(x, consumed) \in Nat
  BY <1>2 DEF Expected
<1>5. \A x \in Tokens : Paid(x, batch, px, swap) \in Int /\ Unswept(x, batch) \in Nat
  <2> SUFFICES ASSUME NEW x \in Tokens
               PROVE  Paid(x, batch, px, swap) \in Int /\ Unswept(x, batch) \in Nat
    OBVIOUS
  <2> DEFINE in == {o \in batch : o.sellToken = x /\ Pulls(o)}
             out == {o \in batch : AsToken(o.buyToken) = x}
  <2>1. Sold(in) \in Nat /\ Bought(out, px) \in Nat
    BY <1>3
  <2>2. Paid(x, batch, px, swap) =
            held[x] + Sold(in) - swap.spent[x] + swap.gained[x] - Bought(out, px)
    <3>1. Pooled(x, batch) = held[x] + Sold(in)
      BY Zenon DEF Pooled
    <3>2. Paid(x, batch, px, swap) =
              Pooled(x, batch) - swap.spent[x] + swap.gained[x] - Bought(out, px)
      BY Zenon DEF Paid
    <3> HIDE DEF in, out
    <3> QED
      BY <1>2, <2>1, <3>1, <3>2
  <2>3. Unswept(x, batch) \in Nat
    BY <1>2 DEF Unswept, BatchTypeOK
  <2> HIDE DEF in, out
  <2> QED
    BY <1>2, <2>1, <2>2, <2>3
<1>6. ASSUME NEW x \in Tokens, ~Watched(x, px)
      PROVE  Paid(x, batch, px, swap) \in Nat
  <2>1. px[x] = 0
    BY <1>6 DEF Watched
  <2>2. {o \in batch : o.sellToken = x /\ Pulls(o)} = {}
        /\ {o \in batch : AsToken(o.buyToken) = x} = {}
    BY <1>1, <2>1 DEF Prepared
  <2>3. Pooled(x, batch) = held[x]
    <3>1. Sold({o \in batch : o.sellToken = x /\ Pulls(o)}) = 0
      BY <2>2, NothingIsSold
    <3>2. Pooled(x, batch) = held[x] + Sold({o \in batch : o.sellToken = x /\ Pulls(o)})
      BY Zenon DEF Pooled
    <3> QED
      BY <1>2, <3>1, <3>2
  <2>4. Paid(x, batch, px, swap) = held[x] - swap.spent[x] + swap.gained[x] - 0
    BY <2>2, <2>3, NothingIsSold DEF Paid
  <2>5. swap.spent[x] <= held[x] + swap.gained[x]
    BY <1>1, <2>3
  <2> QED
    BY <1>2, <2>4, <2>5
<1>7. \A x \in Tokens : /\ After(x, batch, px, swap, swept) \in Int
                        /\ ~Watched(x, px) => After(x, batch, px, swap, swept) \in Nat
  BY <1>5, <1>6 DEF After
<1>8. held' \in [Tokens -> Nat]
  BY <1>1, <1>4, <1>7
<1>9. ASSUME NEW a \in Accounts, NEW x \in Assets
      PROVE  purse'[a][x] \in Nat
  <2> DEFINE pulled == IF x = Ether THEN 0 ELSE PulledFrom(a, x, batch)
             paid == PaidTo(a, x, batch, px)
             fee == IF a = treasury /\ x # Ether /\ Watched(x, px)
                    THEN After(x, batch, px, swap, swept) - Expected(x, consumed) ELSE 0
             surplus == IF a = owner /\ x \in swept
                        THEN Paid(x, batch, px, swap) - Unswept(x, batch) ELSE 0
  <2>1. purse'[a][x] = purse[a][x] - pulled + paid + fee + surplus
    BY <1>1
  <2>2. pulled \in Nat /\ pulled <= purse[a][x]
    <3>1. {o \in batch : o.owner = a /\ o.sellToken = x /\ Pulls(o)} \in SUBSET batch
      OBVIOUS
    <3>2. PulledFrom(a, x, batch) \in Nat
      BY <1>3, <3>1 DEF PulledFrom
    <3>3. x # Ether => PulledFrom(a, x, batch) <= purse[a][x]
      BY <1>1 DEF Prepared, Assets
    <3> QED
      BY <1>2, <3>2, <3>3
  <2>3. paid \in Nat
    <3>1. {o \in batch : o.receiver = a /\ o.buyToken = x} \in SUBSET batch
      OBVIOUS
    <3> QED
      BY <1>3, <3>1 DEF PaidTo
  <2>4. fee \in Nat
    <3>1. ASSUME x \in Tokens, Watched(x, px)
          PROVE  After(x, batch, px, swap, swept) - Expected(x, consumed) \in Nat
      <4>1. After(x, batch, px, swap, swept) - Expected(x, consumed) >= 0
        BY <1>1, <3>1 DEF Checked
      <4>2. After(x, batch, px, swap, swept) \in Int /\ Expected(x, consumed) \in Nat
        BY <1>4, <1>7, <3>1
      <4> QED
        BY <4>1, <4>2
    <3> QED
      BY <3>1 DEF Assets
  <2>5. purse[a][x] \in Nat
    BY <1>2
  <2>6. surplus \in Nat
    BY <1>1, <1>2, <1>5
  <2> HIDE DEF pulled, paid, fee, surplus
  <2> QED
    BY <2>1, <2>2, <2>3, <2>4, <2>5, <2>6
<1>10. purse' \in [Accounts -> [Assets -> Nat]]
  <2> DEFINE amount(a, x) == purse[a][x]
              - (IF x = Ether THEN 0 ELSE PulledFrom(a, x, batch))
              + PaidTo(a, x, batch, px)
              + (IF a = treasury /\ x # Ether /\ Watched(x, px)
                 THEN After(x, batch, px, swap, swept) - Expected(x, consumed) ELSE 0)
              + (IF a = owner /\ x \in swept
                 THEN Paid(x, batch, px, swap) - Unswept(x, batch) ELSE 0)
  <2>1. purse' = [a \in Accounts |-> [x \in Assets |-> amount(a, x)]]
    BY <1>1
  <2> HIDE DEF amount
  <2>2. \A a \in Accounts, x \in Assets : amount(a, x) \in Nat
    BY <1>9, <2>1
  <2> QED
    BY <2>1, <2>2
<1> QED
  BY <1>8, <1>10

\* The constructor's state has the types.
LEMMA InitTypes == ASSUME BatchInit PROVE BatchTypeOK
<1> USE DEF BatchInit
<1>1. held \in [Tokens -> Nat] /\ escrowed \in [Orders -> Nat] /\ escrowTotal \in Nat /\ now \in Nat
  OBVIOUS
<1>2. filled \in [Orders -> Nat \cup {NotFilled}] /\ nonceUsed \subseteq Accounts \X Nonces
  OBVIOUS
<1>3. {owner, solver, treasury} \subseteq Accounts
  BY BatchConstants
<1>4. maxFeeBps \in 0..FeeCeiling
  BY BatchConstants DEF FeeCeiling
<1>5. purse \in [Accounts -> [Assets -> Nat]]
  BY BatchConstants
<1> QED
  BY <1>1, <1>2, <1>3, <1>4, <1>5 DEF BatchTypeOK

\* What an order is made of.
LEMMA OrderParts ==
    ASSUME NEW o \in Orders
    PROVE  /\ o.owner \in Accounts /\ o.nonce \in Nonces /\ o.receiver \in Accounts
           /\ o.sellToken \in Tokens /\ o.buyToken \in Assets
           /\ o.sellAmount \in Nat /\ o.minBuyAmount \in Nat
BY BatchConstants DEF OrderType

\* Every step preserves the types.
LEMMA TypesPreserved ==
    ASSUME BatchTypeOK, EscrowCovered, [BatchNext]_batchVars
    PROVE  BatchTypeOK'
<1> USE DEF BatchTypeOK, book, roles
<1>1. WETH \in Tokens /\ WETH \in Assets /\ Ether \in Assets /\ Tokens \subseteq Assets
  BY BatchConstants DEF Assets
<1>2. ASSUME NEW o \in Orders, DepositOrder(o) PROVE BatchTypeOK'
  <2>1. o.owner \in Accounts /\ o.sellAmount \in Nat
    BY OrderParts
  <2>2. purse[o.owner][Ether] - o.sellAmount \in Nat
    BY <1>1, <1>2, <2>1 DEF DepositOrder
  <2>3. purse' \in [Accounts -> [Assets -> Nat]]
    BY <1>1, <1>2, <2>1, <2>2 DEF DepositOrder
  <2>4. held' \in [Tokens -> Nat] /\ escrowed' \in [Orders -> Nat] /\ escrowTotal' \in Nat
    BY <1>1, <1>2, <2>1 DEF DepositOrder
  <2> QED
    BY <1>2, <2>3, <2>4 DEF DepositOrder
<1>3. ASSUME NEW o \in Orders, Refund(o) PROVE BatchTypeOK'
  <2>1. o.owner \in Accounts /\ escrowed[o] \in Nat /\ held[WETH] \in Nat
    BY <1>1, OrderParts
  <2>2. held[WETH] - escrowed[o] \in Nat /\ escrowTotal - escrowed[o] \in Nat
        /\ purse[o.owner][Ether] + escrowed[o] \in Nat
    BY <1>1, <1>3, <2>1 DEF Refund
  <2>3. purse' \in [Accounts -> [Assets -> Nat]]
    BY <1>1, <1>3, <2>1, <2>2 DEF Refund
  <2>4. held' \in [Tokens -> Nat] /\ escrowed' \in [Orders -> Nat] /\ escrowTotal' \in Nat
    BY <1>1, <1>3, <2>1, <2>2 DEF Refund
  <2> QED
    BY <1>3, <2>3, <2>4 DEF Refund
<1>4. ASSUME NEW o \in Orders, Cancel(o.owner, o.nonce) PROVE BatchTypeOK'
  BY <1>4, OrderParts DEF Cancel
<1>5. ASSUME NEW caller, NEW batch \in SUBSET Orders, NEW px \in PriceLists,
             Settle(caller, batch, px)
      PROVE  BatchTypeOK'
  <2>1. held' \in [Tokens -> Nat] /\ purse' \in [Accounts -> [Assets -> Nat]]
    BY <1>5, SettleTypes
  <2>2. Prepared(batch, px)
    BY <1>5 DEF Settle
  <2>3. \A o \in batch : BuyAmount(o, px) \in Nat
    BY <2>2, BatchHasNumbers
  <2>4. filled' \in [Orders -> Nat \cup {NotFilled}]
    <3>1. filled' = [o \in Orders |-> IF o \in batch THEN BuyAmount(o, px) ELSE filled[o]]
      BY <1>5 DEF Settle
    <3> QED
      BY <2>3, <3>1
  <2>5. escrowed' \in [Orders -> Nat] /\ escrowTotal' \in Nat
    BY <1>5 DEF Settle, EscrowsAfter
  <2>6. nonceUsed' \subseteq Accounts \X Nonces
    <3>1. nonceUsed' = nonceUsed \cup {<<o.owner, o.nonce>> : o \in batch}
      BY <1>5 DEF Settle
    <3> QED
      BY <3>1, OrderParts
  <2>7. UNCHANGED <<roles, now>>
    BY <1>5 DEF Settle
  <2> QED
    BY <2>1, <2>4, <2>5, <2>6, <2>7
<1>6. ASSUME NEW caller, NEW a \in Principals,
             SetSolver(caller, a) \/ SetTreasury(caller, a) \/ TransferOwnership(caller, a)
      PROVE  BatchTypeOK'
  BY <1>6, BatchConstants DEF SetSolver, SetTreasury, TransferOwnership
<1>7. ASSUME NEW caller, NEW bps \in FeeChoices, SetMaxFeeBps(caller, bps) PROVE BatchTypeOK'
  BY <1>7, BatchConstants DEF SetMaxFeeBps, FeeAllowed, FeeCeiling
<1>8. ASSUME NEW caller, NEW x \in Tokens, NEW a \in Principals, Sweep(caller, x, a)
      PROVE  BatchTypeOK'
  <2>1. a \in Accounts /\ held[x] \in Nat /\ Reserved(x) \in Nat /\ x \in Assets
    BY <1>1, BatchConstants DEF Reserved
  <2>2. purse[a][x] + held[x] - Reserved(x) \in Nat
    BY <1>8, <2>1 DEF Sweep
  <2> QED
    BY <1>8, <2>1, <2>2 DEF Sweep
<1>9. ASSUME NEW x \in Tokens, NEW a \in Principals, Donate(a, x) PROVE BatchTypeOK'
  <2>1. a \in Accounts /\ held[x] \in Nat /\ x \in Assets /\ purse[a][x] - 1 \in Nat
    BY <1>1, <1>9, BatchConstants DEF Donate
  <2> QED
    BY <1>9, <2>1 DEF Donate
<1>10. ASSUME Tick \/ UNCHANGED batchVars PROVE BatchTypeOK'
  BY <1>10 DEF Tick, batchVars
<1> QED
  BY <1>2, <1>3, <1>4, <1>5, <1>6, <1>7, <1>8, <1>9, <1>10 DEF BatchNext, Trading, Administration

\* No balance or deposit underflows and no owner lifts the fee cap over its ceiling,
\* whatever is settled, swept or refunded.
THEOREM BatchTypes == BatchSpec => []BatchTypeOK
<1>1. BatchTypeOK /\ EscrowCovered /\ [BatchNext]_batchVars => BatchTypeOK'
  BY TypesPreserved
<1>2. BatchInit => BatchTypeOK
  BY InitTypes
<1> QED
  BY <1>1, <1>2, EscrowSafe, PTL DEF BatchSpec

-----------------------------------------------------------------------------
(* The books *)

\* What BooksBalance compares for account a and token x.
Start(a, x) ==
    IF x = WETH THEN Endowment[a][WETH] + Endowment[a][Ether] ELSE Endowment[a][x]
SoldOf(a, x) == {o \in Orders : o.owner = a /\ o.sellToken = x /\ filled[o] # NotFilled}
BoughtOf(a, x) ==
    {o \in Orders : o.receiver = a /\ AsToken(o.buyToken) = x /\ filled[o] # NotFilled}
OwnOf(a) == {o \in Orders : o.owner = a}

Balanced(a, x) ==
    /\ Wealth(a, x) = Start(a, x) - Sold(SoldOf(a, x)) + SumFunctionOnSet(filled, BoughtOf(a, x))
    /\ \A o \in BoughtOf(a, x) : filled[o] >= o.minBuyAmount

\* BooksBalance needs to know what a deposit is, lest a deposited order be pulled for more
\* than it gives back, and that an account without a role is not the treasury.
BooksInv ==
    /\ escrowTotal = EscrowOf(Orders)
    /\ \A a \in Accounts \ Principals, x \in Tokens : Balanced(a, x)
    /\ \A o \in Orders : escrowed[o] # 0 => o.sellToken = WETH /\ escrowed[o] = o.sellAmount
    /\ {owner, solver, treasury} \subseteq Principals

\* A sum over orders is a number, and parts of it add up.
LEMMA OrdersAddUp ==
    ASSUME NEW f, NEW S \in SUBSET Orders, NEW P \in SUBSET S, \A o \in S : f[o] \in Int
    PROVE  /\ SumFunctionOnSet(f, S) \in Int
           /\ SumFunctionOnSet(f, S) = SumFunctionOnSet(f, P) + SumFunctionOnSet(f, S \ P)
<1>1. IsFiniteSet(S)
  BY OrdersAreFinite, FS_Subset
<1> QED
  BY <1>1, SumIsNumber, SumOfParts

\* Nothing is sold or bought, and everyone has the endowment.
LEMMA BooksInitially ==
    ASSUME BatchInit
    PROVE  BooksInv
<1> USE DEF BatchInit
<1>1. \A o \in Orders : escrowed[o] = 0 /\ filled[o] = NotFilled
  OBVIOUS
<1>2. \A S \in SUBSET Orders : EscrowOf(S) = 0
  <2>1. \A S \in SUBSET Orders : IsFiniteSet(S) /\ \A o \in S : escrowed[o] = 0
    BY <1>1, OrdersAreFinite, FS_Subset
  <2> QED
    BY <2>1, SumOfZeros DEF EscrowOf
<1>3. ASSUME NEW a \in Accounts, NEW x \in Tokens
      PROVE  Balanced(a, x)
  <2>1. SoldOf(a, x) = {} /\ BoughtOf(a, x) = {}
    BY <1>1 DEF SoldOf, BoughtOf
  <2>2. Sold(SoldOf(a, x)) = 0 /\ SumFunctionOnSet(filled, BoughtOf(a, x)) = 0
    BY <2>1, NothingIsSold, SumOfNone
  <2>3. Wealth(a, x) = Start(a, x) /\ Start(a, x) \in Nat
    <3>1. {o \in Orders : o.owner = a} \in SUBSET Orders
      OBVIOUS
    <3>2. EscrowOf({o \in Orders : o.owner = a}) = 0
      BY <1>2, <3>1
    <3>3. \A y \in Assets : purse[a][y] = Endowment[a][y] /\ Endowment[a][y] \in Nat
      BY BatchConstants
    <3>4. x \in Assets /\ WETH \in Assets /\ Ether \in Assets
      BY BatchConstants DEF Assets
    <3> QED
      BY <3>2, <3>3, <3>4 DEF Wealth, Start
  <2> QED
    BY <2>1, <2>2, <2>3 DEF Balanced
<1>4. escrowTotal = EscrowOf(Orders)
  BY <1>2
<1>5. {owner, solver, treasury} \subseteq Principals
  OBVIOUS
<1> QED
  BY <1>1, <1>3, <1>4, <1>5 DEF BooksInv

\* Ether that goes into escrow or comes back changes nobody's wealth.
LEMMA EscrowMoves ==
    ASSUME BatchTypeOK, BooksInv, BatchTypeOK', NEW o \in Orders, NEW v \in Nat,
           escrowed' = [escrowed EXCEPT ![o] = v],
           v # 0 => o.sellToken = WETH /\ v = o.sellAmount,
           escrowTotal' = escrowTotal - escrowed[o] + v,
           purse'[o.owner][Ether] = purse[o.owner][Ether] + escrowed[o] - v,
           \A a \in Accounts, x \in Assets :
              a # o.owner \/ x # Ether => purse'[a][x] = purse[a][x],
           UNCHANGED <<filled, roles>>
    PROVE  BooksInv'
<1>1. /\ \A p \in Orders : escrowed[p] \in Nat /\ escrowed'[p] \in Nat
      /\ \A p \in Orders \ {o} : escrowed'[p] = escrowed[p]
      /\ escrowed'[o] = v
  BY DEF BatchTypeOK
<1>2. ASSUME NEW S \in SUBSET Orders, o \in S
      PROVE  SumFunctionOnSet(escrowed', S) = SumFunctionOnSet(escrowed, S) - escrowed[o] + v
  <2> DEFINE e == escrowed'
  <2>1. IsFiniteSet(S)
    BY OrdersAreFinite, FS_Subset
  <2>2. \A p \in S : escrowed[p] \in Int /\ e[p] \in Int
    BY <1>1
  <2>3. (\A p \in S \ {o} : e[p] = escrowed[p]) /\ e[o] = v
    BY <1>1
  <2> HIDE DEF e
  <2>4. SumFunctionOnSet(e, S) = SumFunctionOnSet(escrowed, S) - escrowed[o] + e[o]
    BY <1>2, <2>1, <2>2, <2>3, SumOfChanged
  <2> QED
    BY <2>3, <2>4 DEF e
<1>3. ASSUME NEW S \in SUBSET Orders, o \notin S
      PROVE  SumFunctionOnSet(escrowed', S) = SumFunctionOnSet(escrowed, S)
  <2> DEFINE e == escrowed'
  <2>1. IsFiniteSet(S)
    BY OrdersAreFinite, FS_Subset
  <2>2. \A p \in S : e[p] = escrowed[p]
    BY <1>1, <1>3
  <2> HIDE DEF e
  <2>3. SumFunctionOnSet(e, S) = SumFunctionOnSet(escrowed, S)
    BY <2>1, <2>2, SumOfSame
  <2> QED
    BY <2>3 DEF e
<1>4. EscrowOf(Orders)' = EscrowOf(Orders) - escrowed[o] + v
  BY <1>2 DEF EscrowOf
<1>5. ASSUME NEW a \in Accounts, NEW x \in Tokens
      PROVE  Wealth(a, x)' = Wealth(a, x)
  <2> DEFINE own == {p \in Orders : p.owner = a}
  <2>1. x \in Assets /\ WETH \in Assets /\ Ether \in Assets /\ x # Ether /\ WETH # Ether
    BY BatchConstants DEF Assets
  <2>2. CASE x # WETH
    BY <2>1, <2>2 DEF Wealth
  <2>3. CASE x = WETH /\ a # o.owner
    <3>1. SumFunctionOnSet(escrowed', own) = SumFunctionOnSet(escrowed, own)
      BY <1>3, <2>3
    <3>2. purse'[a][WETH] = purse[a][WETH] /\ purse'[a][Ether] = purse[a][Ether]
      BY <2>1, <2>3
    <3> QED
      BY <2>3, <3>1, <3>2 DEF Wealth, EscrowOf
  <2>4. CASE x = WETH /\ a = o.owner
    <3>1. SumFunctionOnSet(escrowed', own) = SumFunctionOnSet(escrowed, own) - escrowed[o] + v
      BY <1>2, <2>4
    <3>2. purse'[a][WETH] = purse[a][WETH]
          /\ purse'[a][Ether] = purse[a][Ether] + escrowed[o] - v
      BY <2>1, <2>4
    <3>3. SumFunctionOnSet(escrowed, own) \in Int /\ escrowed[o] \in Int
          /\ purse[a][WETH] \in Int /\ purse[a][Ether] \in Int
      <4>1. own \in SUBSET Orders /\ own \in SUBSET own /\ \A p \in own : escrowed[p] \in Int
        BY <1>1
      <4>2. SumFunctionOnSet(escrowed, own) \in Int
        BY <4>1, OrdersAddUp
      <4> QED
        BY <1>1, <2>1, <4>2 DEF BatchTypeOK
    <3>4. Wealth(a, x) = purse[a][WETH] + purse[a][Ether] + SumFunctionOnSet(escrowed, own)
          /\ Wealth(a, x)' = purse'[a][WETH] + purse'[a][Ether] + SumFunctionOnSet(escrowed', own)
      BY <2>4 DEF Wealth, EscrowOf
    <3> HIDE DEF own
    <3> QED
      BY <3>1, <3>2, <3>3, <3>4
  <2> QED
    BY <2>2, <2>3, <2>4
<1>6. ASSUME NEW a \in Accounts \ Principals, NEW x \in Tokens
      PROVE  Balanced(a, x)'
  <2>1. Balanced(a, x)
    BY DEF BooksInv
  <2>2. SoldOf(a, x)' = SoldOf(a, x) /\ BoughtOf(a, x)' = BoughtOf(a, x) /\ filled' = filled
    BY DEF SoldOf, BoughtOf
  <2> QED
    BY <1>5, <2>1, <2>2 DEF Balanced, Start
<1>7. \A p \in Orders : escrowed'[p] # 0 => p.sellToken = WETH /\ escrowed'[p] = p.sellAmount
  BY <1>1 DEF BooksInv
<1> QED
  BY <1>4, <1>6, <1>7 DEF BooksInv, roles

\* What an account without a role sells in a settlement leaves its purse or its escrow,
\* and what it buys comes in.
LEMMA SettleMovesWealth ==
    ASSUME BatchTypeOK, BooksInv, NEW batch \in SUBSET Orders, NEW px \in PriceLists,
           NEW a \in Accounts \ Principals, NEW x \in Tokens,
           Prepared(batch, px),
           escrowed' = EscrowsAfter(batch),
           \A y \in Assets : purse'[a][y] = purse[a][y]
                               - (IF y = Ether THEN 0 ELSE PulledFrom(a, y, batch))
                               + PaidTo(a, y, batch, px)
    PROVE  Wealth(a, x)' = Wealth(a, x)
                             - Sold({o \in batch : o.owner = a /\ o.sellToken = x})
                             + Bought({o \in batch : o.receiver = a /\ AsToken(o.buyToken) = x}, px)
<1> DEFINE sold == {o \in batch : o.owner = a /\ o.sellToken = x}
           bought == {o \in batch : o.receiver = a /\ AsToken(o.buyToken) = x}
           pulled == {o \in batch : o.owner = a /\ o.sellToken = x /\ Pulls(o)}
           direct == {o \in batch : o.receiver = a /\ o.buyToken = x}
           own == {o \in Orders : o.owner = a}
<1>1. /\ \A o \in Orders : escrowed[o] \in Nat
      /\ \A o \in Orders : escrowed[o] # 0 => o.sellToken = WETH /\ escrowed[o] = o.sellAmount
      /\ \A y \in Assets : purse[a][y] \in Nat
      /\ x \in Assets /\ WETH \in Tokens /\ WETH \in Assets /\ Ether \in Assets /\ Ether \notin Tokens
  BY BatchConstants DEF BatchTypeOK, BooksInv, Assets
<1>2. \A S \in SUBSET batch : Sold(S) \in Nat /\ Bought(S, px) \in Nat
  BY BatchHasNumbers
<1>3. \A o \in batch : BuyAmount(o, px) \in Nat
  BY BatchHasNumbers
<1>4. /\ PulledFrom(a, x, batch) = Sold(pulled) /\ PaidTo(a, x, batch, px) = Bought(direct, px)
      /\ Sold(pulled) \in Nat /\ Bought(direct, px) \in Nat
      /\ Sold(sold) \in Nat /\ Bought(bought, px) \in Nat
  <2>1. /\ pulled \in SUBSET batch /\ direct \in SUBSET batch
        /\ sold \in SUBSET batch /\ bought \in SUBSET batch
    OBVIOUS
  <2>2. PulledFrom(a, x, batch) = Sold(pulled) /\ PaidTo(a, x, batch, px) = Bought(direct, px)
    BY DEF PulledFrom, PaidTo
  <2> QED
    BY <1>2, <2>1, <2>2
<1>5. purse'[a][x] = purse[a][x] - Sold(pulled) + Bought(direct, px)
  BY <1>1, <1>4
<1>6. CASE x # WETH
  <2>1. pulled = sold
    BY <1>1, <1>6 DEF Pulls
  <2>2. direct = bought
    BY <1>1, <1>6 DEF AsToken
  <2>3. Wealth(a, x) = purse[a][x] /\ Wealth(a, x)' = purse'[a][x]
    BY <1>6 DEF Wealth
  <2> HIDE DEF pulled, direct, sold, bought
  <2>4. Wealth(a, x)' = Wealth(a, x) - Sold(sold) + Bought(bought, px)
    BY <1>5, <2>1, <2>2, <2>3
  <2> QED
    BY <2>4 DEF sold, bought
<1>7. CASE x = WETH
  <2> DEFINE rest == sold \ pulled
             native == {o \in batch : o.receiver = a /\ o.buyToken = Ether}
             e == escrowed'
  <2>1. Bought(bought, px) = Bought(direct, px) + Bought(native, px) /\ Bought(native, px) \in Nat
    <3>1. bought \ direct = native
      BY <1>1, <1>7 DEF AsToken
    <3>2. /\ bought \in SUBSET Orders /\ direct \in SUBSET bought
          /\ \A o \in bought : BuyAmount(o, px) \in Nat
      BY <1>1, <1>3, <1>7 DEF AsToken
    <3>3. native \in SUBSET batch
      OBVIOUS
    <3> HIDE DEF bought, direct, native
    <3>4. Bought(bought, px) = Bought(direct, px) + Bought(bought \ direct, px)
      BY <3>2, BoughtAddsUp
    <3> QED
      BY <1>2, <3>1, <3>3, <3>4
  <2>2. Sold(sold) = Sold(pulled) + Sold(rest)
    <3>1. sold \in SUBSET Orders /\ pulled \in SUBSET sold
      OBVIOUS
    <3> HIDE DEF sold, pulled
    <3> QED
      BY <3>1, SoldAddsUp
  <2>3. Sold(rest) = SumFunctionOnSet(escrowed, rest)
    <3> DEFINE f == [o \in rest |-> o.sellAmount]
    <3>1. \A o \in rest : f[o] = escrowed[o]
      BY <1>1 DEF Pulls
    <3>2. IsFiniteSet(rest)
      BY OrdersAreFinite, FS_Subset
    <3>3. Sold(rest) = SumFunctionOnSet(f, rest)
      BY DEF Sold, SumFunction
    <3> HIDE DEF f, rest
    <3> QED
      BY <3>1, <3>2, <3>3, SumOfSame
  <2>4. rest \in SUBSET own /\ own \in SUBSET Orders
    OBVIOUS
  <2>5. /\ \A o \in own \ rest : e[o] = escrowed[o]
        /\ \A o \in rest : e[o] = 0
    BY <1>1, <1>7 DEF EscrowsAfter, Pulls
  <2>6. PaidTo(a, Ether, batch, px) = Bought(native, px)
    BY DEF PaidTo
  <2>7. purse'[a][Ether] = purse[a][Ether] + Bought(native, px)
    <3>1. purse'[a][Ether] = purse[a][Ether] - 0 + PaidTo(a, Ether, batch, px)
      BY <1>1
    <3> HIDE DEF native
    <3> QED
      BY <1>1, <2>1, <2>6, <3>1
  <2>8. /\ Wealth(a, x) = purse[a][WETH] + purse[a][Ether] + SumFunctionOnSet(escrowed, own)
        /\ Wealth(a, x)' = purse'[a][WETH] + purse'[a][Ether] + SumFunctionOnSet(e, own)
    BY <1>7 DEF Wealth, EscrowOf
  <2> HIDE DEF own, rest, e, native, pulled, direct
  <2>9. /\ SumFunctionOnSet(escrowed, own) \in Int
        /\ SumFunctionOnSet(escrowed, own)
             = SumFunctionOnSet(escrowed, rest) + SumFunctionOnSet(escrowed, own \ rest)
        /\ SumFunctionOnSet(escrowed, rest) \in Int
        /\ SumFunctionOnSet(escrowed, own \ rest) \in Int
    <3>1. \A S \in SUBSET own : \A o \in S : escrowed[o] \in Int
      BY <1>1, <2>4
    <3>2. own \ rest \in SUBSET Orders /\ rest \in SUBSET Orders
          /\ own \ rest \in SUBSET own
      BY <2>4
    <3>3. /\ SumFunctionOnSet(escrowed, own) \in Int
          /\ SumFunctionOnSet(escrowed, own)
               = SumFunctionOnSet(escrowed, rest) + SumFunctionOnSet(escrowed, own \ rest)
      BY <2>4, <3>1, OrdersAddUp
    <3>4. IsFiniteSet(rest) /\ IsFiniteSet(own \ rest)
      BY <3>2, OrdersAreFinite, FS_Subset
    <3> QED
      BY <2>4, <3>1, <3>2, <3>3, <3>4, SumIsNumber
  <2>10. SumFunctionOnSet(e, own) = SumFunctionOnSet(escrowed, own \ rest)
    <3> DEFINE kept == own \ rest
    <3>1. /\ IsFiniteSet(own) /\ kept \subseteq own
          /\ \A o \in own \ kept : e[o] = 0
      BY <2>4, <2>5, OrdersAreFinite, FS_Subset
    <3>2. \A o \in kept : escrowed[o] \in Int /\ e[o] = escrowed[o]
      BY <1>1, <2>4, <2>5
    <3> HIDE DEF kept
    <3>3. SumFunctionOnSet(e, own) = SumFunctionOnSet(escrowed, kept)
      BY <3>1, <3>2, SumOfPart
    <3> QED
      BY <3>3 DEF kept
  <2>11. purse'[a][WETH] = purse[a][WETH] - Sold(pulled) + Bought(direct, px)
    BY <1>5, <1>7
  <2>12. purse[a][WETH] \in Int /\ purse[a][Ether] \in Int
    BY <1>1
  <2> HIDE DEF sold, bought
  <2>13. Wealth(a, x)' = Wealth(a, x) - Sold(sold) + Bought(bought, px)
    BY <1>4, <2>1, <2>2, <2>3, <2>7, <2>8, <2>9, <2>10, <2>11, <2>12
  <2> QED
    BY <2>13 DEF sold, bought
<1> QED
  BY <1>6, <1>7

\* The orders of a batch were open, so what is sold and bought after a settlement is what
\* was before and what the batch sells and buys.
LEMMA SettleKeepsBooks ==
    ASSUME BatchTypeOK, NonceInv, BooksInv, NEW caller,
           NEW batch \in SUBSET Orders, NEW px \in PriceLists,
           Settle(caller, batch, px)
    PROVE  BooksInv'
<1>1. PICK consumed \in {EscrowOf(batch)} \cap (0..escrowTotal),
           swap \in Swaps, swept \in Sweeps(batch) :
        /\ Prepared(batch, px)
        /\ escrowed' = EscrowsAfter(batch)
        /\ escrowTotal' = escrowTotal - consumed
        /\ filled' = [o \in Orders |-> IF o \in batch THEN BuyAmount(o, px) ELSE filled[o]]
        /\ purse' = [a \in Accounts |-> [x \in Assets |->
                purse[a][x]
              - (IF x = Ether THEN 0 ELSE PulledFrom(a, x, batch))
              + PaidTo(a, x, batch, px)
              + (IF a = treasury /\ x # Ether /\ Watched(x, px)
                 THEN After(x, batch, px, swap, swept) - Expected(x, consumed) ELSE 0)
              + (IF a = owner /\ x \in swept
                 THEN Paid(x, batch, px, swap) - Unswept(x, batch) ELSE 0)]]
        /\ UNCHANGED roles
  BY DEF Settle
<1>2. \A o \in batch : BuyAmount(o, px) \in Nat
  BY <1>1, BatchHasNumbers
<1>3. /\ \A o \in batch : filled'[o] = BuyAmount(o, px) /\ filled'[o] # NotFilled
                          /\ filled'[o] >= o.minBuyAmount
      /\ \A o \in Orders \ batch : filled'[o] = filled[o]
  BY <1>1, <1>2 DEF Prepared, NotFilled
<1>4. \A o \in batch : filled[o] = NotFilled
  BY <1>1 DEF Prepared, NonceFree, NonceInv
<1>5. \A o \in Orders : filled[o] # NotFilled => filled[o] \in Nat
  BY DEF BatchTypeOK
<1>6. /\ \A o \in batch : escrowed'[o] = 0
      /\ \A o \in Orders \ batch : escrowed'[o] = escrowed[o]
      /\ \A o \in Orders : escrowed[o] \in Nat
  BY <1>1 DEF EscrowsAfter, BatchTypeOK
<1>7. EscrowOf(Orders)' = escrowTotal'
  <2> DEFINE e == escrowed'
             kept == Orders \ batch
  <2>1. IsFiniteSet(Orders) /\ kept \subseteq Orders
        /\ (\A o \in kept : escrowed[o] \in Int /\ e[o] = escrowed[o])
        /\ (\A o \in Orders \ kept : e[o] = 0)
    BY <1>6, OrdersAreFinite
  <2>2. Orders \in SUBSET Orders /\ batch \in SUBSET Orders /\ \A o \in Orders : escrowed[o] \in Int
    BY <1>6
  <2>3. SumFunctionOnSet(escrowed, Orders)
          = SumFunctionOnSet(escrowed, batch) + SumFunctionOnSet(escrowed, Orders \ batch)
    BY <2>2, OrdersAddUp
  <2>4. SumFunctionOnSet(escrowed, Orders) \in Int
        /\ SumFunctionOnSet(escrowed, batch) \in Int /\ SumFunctionOnSet(escrowed, kept) \in Int
    BY <2>1, <2>2, OrdersAreFinite, FS_Subset, SumIsNumber
  <2> HIDE DEF e, kept
  <2>5. SumFunctionOnSet(e, Orders) = SumFunctionOnSet(escrowed, kept)
    BY <2>1, SumOfPart
  <2>6. escrowTotal' = SumFunctionOnSet(escrowed, Orders) - SumFunctionOnSet(escrowed, batch)
    BY <1>1 DEF BooksInv, EscrowOf
  <2> QED
    BY <2>3, <2>4, <2>5, <2>6 DEF EscrowOf, e, kept
<1>8. ASSUME NEW a \in Accounts \ Principals, NEW x \in Tokens
      PROVE  Balanced(a, x)'
  <2> DEFINE sold == {o \in batch : o.owner = a /\ o.sellToken = x}
             bought == {o \in batch : o.receiver = a /\ AsToken(o.buyToken) = x}
             soldBefore == SoldOf(a, x)
             boughtBefore == BoughtOf(a, x)
             soldAfter == SoldOf(a, x)'
             boughtAfter == BoughtOf(a, x)'
             f == filled'
  <2>1. Balanced(a, x)
    BY DEF BooksInv
  <2>2. \A y \in Assets : purse'[a][y] = purse[a][y]
                            - (IF y = Ether THEN 0 ELSE PulledFrom(a, y, batch))
                            + PaidTo(a, y, batch, px)
    <3> SUFFICES ASSUME NEW y \in Assets
                 PROVE  purse'[a][y] = purse[a][y]
                            - (IF y = Ether THEN 0 ELSE PulledFrom(a, y, batch))
                            + PaidTo(a, y, batch, px)
      OBVIOUS
    <3> DEFINE pulled == {o \in batch : o.owner = a /\ o.sellToken = y /\ Pulls(o)}
               paid == {o \in batch : o.receiver = a /\ o.buyToken = y}
    <3>1. pulled \in SUBSET batch /\ paid \in SUBSET batch
      OBVIOUS
    <3>2. PulledFrom(a, y, batch) \in Nat /\ PaidTo(a, y, batch, px) \in Nat
      BY <1>1, <3>1, BatchHasNumbers DEF PulledFrom, PaidTo
    <3>3. a # treasury /\ a # owner /\ purse[a][y] \in Nat
      BY DEF BooksInv, BatchTypeOK
    <3>4. purse'[a][y] = purse[a][y]
              - (IF y = Ether THEN 0 ELSE PulledFrom(a, y, batch))
              + PaidTo(a, y, batch, px) + 0 + 0
      BY <1>1, <3>3
    <3> QED
      BY <3>2, <3>3, <3>4
  <2>3. Wealth(a, x)' = Wealth(a, x) - Sold(sold) + Bought(bought, px)
    BY <1>1, <2>2, SettleMovesWealth
  <2>4. /\ soldAfter \in SUBSET Orders /\ soldBefore \in SUBSET soldAfter
        /\ soldAfter \ soldBefore = sold
    BY <1>3, <1>4 DEF SoldOf
  <2>5. /\ boughtAfter \in SUBSET Orders /\ boughtBefore \in SUBSET boughtAfter
        /\ boughtAfter \ boughtBefore = bought
    BY <1>3, <1>4 DEF BoughtOf
  <2>6. /\ \A o \in boughtAfter : f[o] \in Int /\ f[o] >= o.minBuyAmount
        /\ \A o \in boughtBefore : f[o] = filled[o] /\ filled[o] \in Int
        /\ \A o \in bought : f[o] = BuyAmount(o, px)
    <3>1. \A o \in boughtBefore : f[o] = filled[o] /\ filled[o] \in Int /\ f[o] >= o.minBuyAmount
      BY <1>3, <1>4, <1>5, <2>1 DEF BoughtOf, Balanced
    <3>2. \A o \in bought : f[o] = BuyAmount(o, px) /\ f[o] \in Int /\ f[o] >= o.minBuyAmount
      BY <1>2, <1>3
    <3> HIDE DEF f, bought, boughtBefore, boughtAfter
    <3> QED
      BY <2>5, <3>1, <3>2
  <2>7. /\ Start(a, x)' = Start(a, x) /\ Wealth(a, x) \in Int /\ Start(a, x) \in Int
    <3>1. Start(a, x) \in Int
      BY BatchConstants DEF Start, Assets
    <3>2. {o \in Orders : o.owner = a} \in SUBSET Orders
      OBVIOUS
    <3>3. EscrowOf({o \in Orders : o.owner = a}) \in Int
      <4> DEFINE own == {o \in Orders : o.owner = a}
      <4>1. own \in SUBSET own /\ \A o \in own : escrowed[o] \in Int
        BY <1>6
      <4> HIDE DEF own
      <4>2. SumFunctionOnSet(escrowed, own) \in Int
        BY <3>2, <4>1, OrdersAddUp DEF own
      <4> QED
        BY <4>2 DEF EscrowOf, own
    <3>4. purse[a][x] \in Int /\ purse[a][WETH] \in Int /\ purse[a][Ether] \in Int
      BY BatchConstants DEF BatchTypeOK, Assets
    <3> QED
      BY <3>1, <3>3, <3>4 DEF Wealth, Start
  <2>8. /\ Wealth(a, x) = Start(a, x) - Sold(soldBefore) + SumFunctionOnSet(filled, boughtBefore)
        /\ (Balanced(a, x)' <=>
              /\ Wealth(a, x)' = Start(a, x)' - Sold(soldAfter) + SumFunctionOnSet(f, boughtAfter)
              /\ \A o \in boughtAfter : f[o] >= o.minBuyAmount)
    BY <2>1 DEF Balanced, Sold
  <2>9. sold \in SUBSET batch /\ bought \in SUBSET batch
    OBVIOUS
  <2>10. Sold(sold) \in Nat /\ Bought(bought, px) \in Nat
    BY <1>1, <2>9, BatchHasNumbers
  <2>11. SumFunctionOnSet(f, bought) = Bought(bought, px)
    <3> DEFINE g == [o \in bought |-> BuyAmount(o, px)]
    <3>1. Bought(bought, px) = SumFunctionOnSet(g, bought)
      BY DEF Bought, SumFunction
    <3>2. IsFiniteSet(bought) /\ \A o \in bought : f[o] = g[o]
      BY <2>6, <2>9, OrdersAreFinite, FS_Subset
    <3> HIDE DEF g, bought, f
    <3> QED
      BY <3>1, <3>2, SumOfSame
  <2> HIDE DEF sold, bought, soldBefore, boughtBefore, soldAfter, boughtAfter, f
  <2>12. Sold(soldAfter) = Sold(soldBefore) + Sold(sold) /\ Sold(soldBefore) \in Nat
    <3>1. Sold(soldAfter) = Sold(soldBefore) + Sold(soldAfter \ soldBefore)
      BY <2>4, SoldAddsUp
    <3>2. soldBefore \in SUBSET Orders /\ soldBefore \in SUBSET soldBefore
      BY <2>4
    <3>3. Sold(soldBefore) \in Nat
      BY <3>2, SoldAddsUp
    <3> QED
      BY <2>4, <3>1, <3>3
  <2>13. SumFunctionOnSet(f, boughtAfter)
           = SumFunctionOnSet(filled, boughtBefore) + Bought(bought, px)
    <3>1. \A o \in boughtAfter : f[o] \in Int
      BY <2>6
    <3>2. SumFunctionOnSet(f, boughtAfter)
            = SumFunctionOnSet(f, boughtBefore) + SumFunctionOnSet(f, boughtAfter \ boughtBefore)
      BY <2>5, <3>1, OrdersAddUp
    <3>3. IsFiniteSet(boughtBefore) /\ \A o \in boughtBefore : f[o] = filled[o]
      BY <2>5, <2>6, OrdersAreFinite, FS_Subset
    <3>4. SumFunctionOnSet(f, boughtBefore) = SumFunctionOnSet(filled, boughtBefore)
      BY <3>3, SumOfSame
    <3> QED
      BY <2>5, <2>11, <3>2, <3>4
  <2>14. SumFunctionOnSet(filled, boughtBefore) \in Int
    <3>1. boughtBefore \in SUBSET Orders /\ boughtBefore \in SUBSET boughtBefore
          /\ \A o \in boughtBefore : filled[o] \in Int
      BY <2>5, <2>6
    <3> QED
      BY <3>1, OrdersAddUp
  <2>15. Wealth(a, x)' = Start(a, x)' - Sold(soldAfter) + SumFunctionOnSet(f, boughtAfter)
    BY <2>3, <2>7, <2>8, <2>10, <2>12, <2>13, <2>14
  <2> QED
    BY <2>6, <2>8, <2>15
<1>9. \A o \in Orders : escrowed'[o] # 0 => o.sellToken = WETH /\ escrowed'[o] = o.sellAmount
  BY <1>6 DEF BooksInv
<1>10. {owner, solver, treasury}' \subseteq Principals
  BY <1>1 DEF BooksInv, roles
<1> QED
  BY <1>7, <1>8, <1>9, <1>10 DEF BooksInv

\* Calls that leave the book and the purses of accounts without a role alone.
LEMMA OutsidersKept ==
    ASSUME BatchTypeOK, BooksInv, UNCHANGED book,
           \A a \in Accounts \ Principals : purse'[a] = purse[a],
           {owner, solver, treasury}' \subseteq Principals
    PROVE  BooksInv'
<1>1. UNCHANGED <<escrowed, escrowTotal, filled>>
  BY DEF book
<1>2. ASSUME NEW a \in Accounts \ Principals, NEW x \in Tokens
      PROVE  Balanced(a, x)'
  <2>1. Balanced(a, x)
    BY DEF BooksInv
  <2>2. Wealth(a, x)' = Wealth(a, x)
    BY <1>1 DEF Wealth, EscrowOf
  <2>3. SoldOf(a, x)' = SoldOf(a, x) /\ BoughtOf(a, x)' = BoughtOf(a, x)
    BY <1>1 DEF SoldOf, BoughtOf
  <2> QED
    BY <1>1, <2>1, <2>2, <2>3 DEF Balanced, Start
<1>3. EscrowOf(Orders)' = EscrowOf(Orders)
  BY <1>1 DEF EscrowOf
<1> QED
  BY <1>1, <1>2, <1>3 DEF BooksInv

\* Every step keeps the books.
LEMMA BooksPreserved ==
    ASSUME BatchTypeOK, BatchTypeOK', NonceInv, BooksInv, [BatchNext]_batchVars
    PROVE  BooksInv'
<1>1. ASSUME NEW o \in Orders, DepositOrder(o) PROVE BooksInv'
  <2>1. /\ escrowed' = [escrowed EXCEPT ![o] = o.sellAmount]
        /\ escrowed[o] = 0 /\ o.sellToken = WETH
        /\ escrowTotal' = escrowTotal + o.sellAmount
        /\ purse' = [purse EXCEPT ![o.owner][Ether] = @ - o.sellAmount]
        /\ UNCHANGED <<filled, roles>>
    BY <1>1 DEF DepositOrder
  <2>2. /\ o.owner \in Accounts /\ o.sellAmount \in Nat /\ Ether \in Assets
        /\ purse[o.owner][Ether] \in Nat /\ escrowTotal \in Nat
    BY OrderParts DEF BatchTypeOK, Assets
  <2>3. /\ escrowTotal' = escrowTotal - escrowed[o] + o.sellAmount
        /\ purse'[o.owner][Ether] = purse[o.owner][Ether] + escrowed[o] - o.sellAmount
        /\ \A a \in Accounts, x \in Assets :
              a # o.owner \/ x # Ether => purse'[a][x] = purse[a][x]
    BY <2>1, <2>2 DEF BatchTypeOK
  <2> QED
    BY <2>1, <2>2, <2>3, EscrowMoves
<1>2. ASSUME NEW o \in Orders, Refund(o) PROVE BooksInv'
  <2>1. /\ escrowed' = [escrowed EXCEPT ![o] = 0]
        /\ escrowTotal' = escrowTotal - escrowed[o]
        /\ purse' = [purse EXCEPT ![o.owner][Ether] = @ + escrowed[o]]
        /\ UNCHANGED <<filled, roles>>
    BY <1>2 DEF Refund
  <2>2. /\ o.owner \in Accounts /\ escrowed[o] \in Nat /\ Ether \in Assets
        /\ purse[o.owner][Ether] \in Nat /\ escrowTotal \in Nat
    BY OrderParts DEF BatchTypeOK, Assets
  <2>3. /\ escrowTotal' = escrowTotal - escrowed[o] + 0
        /\ purse'[o.owner][Ether] = purse[o.owner][Ether] + escrowed[o] - 0
        /\ \A a \in Accounts, x \in Assets :
              a # o.owner \/ x # Ether => purse'[a][x] = purse[a][x]
    BY <2>1, <2>2 DEF BatchTypeOK
  <2> QED
    BY <2>1, <2>2, <2>3, EscrowMoves
<1>3. ASSUME NEW o \in Orders, Cancel(o.owner, o.nonce) PROVE BooksInv'
  <2>1. /\ UNCHANGED <<escrowed, escrowTotal, filled, purse, owner, solver, treasury>>
    BY <1>3 DEF Cancel, roles
  <2>2. ASSUME NEW a, NEW x
        PROVE  Balanced(a, x)' <=> Balanced(a, x)
    BY <2>1 DEF Balanced, Wealth, Start, SoldOf, BoughtOf, EscrowOf
  <2> QED
    BY <2>1, <2>2 DEF BooksInv, EscrowOf
<1>4. ASSUME NEW caller, NEW batch \in SUBSET Orders, NEW px \in PriceLists,
             Settle(caller, batch, px)
      PROVE  BooksInv'
  BY <1>4, SettleKeepsBooks
<1>5. ASSUME NEW caller, NEW a \in Principals,
             SetSolver(caller, a) \/ SetTreasury(caller, a) \/ TransferOwnership(caller, a)
             \/ \E bps \in FeeChoices : SetMaxFeeBps(caller, bps)
      PROVE  BooksInv'
  <2>1. UNCHANGED book /\ purse' = purse /\ {owner, solver, treasury}' \subseteq Principals
    BY <1>5 DEF SetSolver, SetTreasury, TransferOwnership, SetMaxFeeBps, BooksInv
  <2> QED
    BY <2>1, OutsidersKept
<1>6. ASSUME NEW caller, NEW x \in Tokens, NEW a \in Principals, Sweep(caller, x, a) \/ Donate(a, x)
      PROVE  BooksInv'
  <2>1. UNCHANGED book /\ {owner, solver, treasury}' \subseteq Principals
    BY <1>6 DEF Sweep, Donate, BooksInv, roles
  <2>2. \A b \in Accounts \ Principals : purse'[b] = purse[b]
    BY <1>6 DEF Sweep, Donate, BatchTypeOK
  <2> QED
    BY <2>1, <2>2, OutsidersKept
<1>7. ASSUME Tick \/ UNCHANGED batchVars PROVE BooksInv'
  <2>1. UNCHANGED book /\ purse' = purse /\ {owner, solver, treasury}' \subseteq Principals
    BY <1>7 DEF Tick, batchVars, BooksInv, roles
  <2> QED
    BY <2>1, OutsidersKept
<1> QED
  BY <1>1, <1>2, <1>3, <1>4, <1>5, <1>6, <1>7 DEF BatchNext, Trading, Administration

\* What a trader without a role owns, deposits included, is what it started with, less
\* what its filled orders sold and plus what they bought at no worse than their limits;
\* and escrowTotal is the sum of the deposits (OrdoBatch.sol:59).
THEOREM BooksAlwaysBalance == BatchSpec => []BooksBalance
<1>1. BatchInit => BooksInv
  BY BooksInitially
<1>2. BatchTypeOK /\ BatchTypeOK' /\ NonceInv /\ BooksInv /\ [BatchNext]_batchVars => BooksInv'
  BY BooksPreserved
<1>3. BooksInv => BooksBalance
  BY DEF BooksInv, BooksBalance, Balanced, Start, SoldOf, BoughtOf
<1> QED
  BY <1>1, <1>2, <1>3, BatchTypes, NonceInitially, NoncePreserved, PTL DEF BatchSpec
=============================================================================
