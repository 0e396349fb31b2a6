------------------------- MODULE AuctionHouseProofs -------------------------
(***************************************************************************)
(* What OrdoSettlement guarantees for every set of accounts, bids, splits, *)
(* endowments, delays and times: types, no overcharge, one charge per      *)
(* opportunity, and the only two ways in which a bond may fall; and what a *)
(* reading of collateral() is worth, and for how long.                     *)
(*                                                                         *)
(* Then what AuctionHouse, the auction over that contract, guarantees for  *)
(* every set of searchers, bids and opportunities, every window, cache and *)
(* hold time and any number of failures: receipts list what was            *)
(* acknowledged, pass the searchers' audit and name what is charged, holds *)
(* end with their round, the contract under the auction is the contract of *)
(* OrdoSettlement.                                                         *)
(*                                                                         *)
(* HouseInv is inductive.  Its parts are said of one opportunity each, so  *)
(* that a step is examined at the opportunity it is about (OrderStep,      *)
(* DecideStep, CrashStep) and leaves the others alone (UntouchedStays).    *)
(***************************************************************************)
EXTENDS OrderFlow, CollateralQuote, SumTheorems, TLAPS

-----------------------------------------------------------------------------
(* The contract *)

USE DEF BasisPoints

\* The constructor and setSplit bound the two shares by the whole.
LEMMA SplitsWithinWhole ==
    \A s \in Splits :
        s.appBps \in Nat /\ s.protocolBps \in Nat /\ s.appBps + s.protocolBps <= 10000
BY SettlementConstants

\* The remainder settle credits to the user is not negative: the two other shares
\* round down and their basis points do not exceed the whole.
LEMMA SharesAreNat ==
    ASSUME NEW amount \in Nat, NEW app, split \in Splits
    PROVE  /\ Shares(amount, app).user \in Nat
           /\ Shares(amount, app).app \in Nat
           /\ Shares(amount, app).protocol \in Nat
<1> DEFINE p == split.appBps
           q == split.protocolBps
           x == (amount * p) \div 10000
           y == (amount * q) \div 10000
<1>1. p \in Nat /\ q \in Nat /\ p + q <= 10000
  BY SplitsWithinWhole
<1> HIDE DEF p, q
<1>2. amount * p \in Nat /\ amount * q \in Nat
  BY <1>1
<1>3. x \in Nat /\ y \in Nat /\ 10000 * x <= amount * p /\ 10000 * y <= amount * q
  <2> DEFINE m == amount * p
             n == amount * q
  <2>1. m \in Nat /\ n \in Nat
    BY <1>2
  <2> HIDE DEF m, n
  <2>2. m \div 10000 \in Nat /\ n \div 10000 \in Nat
        /\ 10000 * (m \div 10000) <= m /\ 10000 * (n \div 10000) <= n
    BY <2>1
  <2> QED
    BY <2>2 DEF m, n
<1>4. amount * p + amount * q <= amount * 10000
  <2>1. amount * p + amount * q = amount * (p + q)
    BY <1>1
  <2>2. amount * (p + q) <= amount * 10000
    BY <1>1
  <2> QED
    BY <2>1, <2>2
<1> HIDE DEF x, y
<1>5. x + y <= amount
  BY <1>2, <1>3, <1>4
<1>6. amount - x - y \in Nat /\ amount - 0 - y \in Nat
  BY <1>3, <1>5
<1> QED
  BY <1>3, <1>6 DEF Shares, x, y, p, q

\* What a charge credits to any one account is not negative.
LEMMA CreditIsNat ==
    ASSUME NEW amount \in Nat, NEW user, NEW app, NEW a, split \in Splits
    PROVE  Credit(a, amount, user, app) \in Nat
BY SharesAreNat DEF Credit

\* Every step preserves the types.
LEMMA TypeStep ==
    ASSUME TypeOK, [Next]_settlementVars
    PROVE  TypeOK'
<1> USE DEF TypeOK, money, roles
<1>1. ASSUME NEW a \in Accounts, Deposit(a)
      PROVE  TypeOK'
  BY <1>1 DEF Deposit
<1>2. ASSUME NEW a \in Accounts, RequestWithdraw(a)
      PROVE  TypeOK'
  BY <1>2, SettlementConstants DEF RequestWithdraw, ReadyAt
<1>3. ASSUME NEW a \in Accounts, CancelWithdraw(a)
      PROVE  TypeOK'
  BY <1>3 DEF CancelWithdraw, NoWithdrawal
<1>4. ASSUME NEW a \in Accounts, WithdrawBond(a)
      PROVE  TypeOK'
  BY <1>4 DEF WithdrawBond, Matured, NoWithdrawal, Lesser
<1>5. ASSUME NEW a \in Accounts, Claim(a)
      PROVE  TypeOK'
  BY <1>5 DEF Claim
<1>6. ASSUME NEW caller \in Accounts, NEW bid \in Bids,
             NEW user \in Payees \cup {ZeroAddress}, NEW app \in Payees \cup {ZeroAddress},
             NEW price \in 0..bid.maxAmountWei + 1,
             Settle(caller, bid, price, user, app)
      PROVE  TypeOK'
  <2>1. bid \in BidType /\ price \in Nat /\ user \in Accounts
        /\ app \in Accounts \cup {ZeroAddress}
    BY <1>6, SettlementConstants DEF Settle, Chargeable, BidType
  <2>2. bid.searcher \in Accounts /\ bid.opportunityId \in Opportunities
    BY <2>1 DEF BidType
  <2>3. bond' \in [Accounts -> Nat]
    BY <1>6, <2>1, <2>2 DEF Settle, Chargeable
  <2>4. claimable' \in [Accounts -> Nat]
    BY <1>6, <2>1, CreditIsNat DEF Settle, Chargeable
  <2>5. settled' \in [Opportunities -> SettledEvent \cup {NotSettled}]
    <3>1. [searcher |-> bid.searcher, amount |-> price,
           userAmt |-> Shares(price, app).user, appAmt |-> Shares(price, app).app,
           protocolAmt |-> Shares(price, app).protocol, user |-> user, app |-> app]
            \in SettledEvent
      BY <2>1, <2>2, SharesAreNat DEF SettledEvent
    <3> QED
      BY <1>6, <2>2, <3>1 DEF Settle, Chargeable
  <2> QED
    BY <1>6, <2>3, <2>4, <2>5 DEF Settle, Chargeable
<1>7. ASSUME CallReturns
      PROVE  TypeOK'
  BY <1>7 DEF CallReturns
<1>8. ASSUME NEW caller \in Accounts, NEW a \in Principals,
             \/ SetAuctioneer(caller, a)
             \/ SetProtocolTreasury(caller, a)
             \/ TransferOwnership(caller, a)
             \/ \E s \in Splits : SetSplit(caller, s)
      PROVE  TypeOK'
  BY <1>8, SettlementConstants
     DEF SetAuctioneer, SetProtocolTreasury, TransferOwnership, SetSplit
<1>9. ASSUME Tick
      PROVE  TypeOK'
  BY <1>9, SettlementConstants DEF Tick
<1>10. ASSUME UNCHANGED settlementVars
       PROVE  TypeOK'
  BY <1>10 DEF settlementVars
<1> QED
  BY <1>1, <1>2, <1>3, <1>4, <1>5, <1>6, <1>7, <1>8, <1>9, <1>10
     DEF Next, Settling, NotSettling, Bonding, Administration

\* The constructor's state has the types.
LEMMA InitTypes == ASSUME Init PROVE TypeOK
<1> USE DEF Init
<1>1. bond \in [Accounts -> Nat] /\ claimable \in [Accounts -> Nat]
  OBVIOUS
<1>2. settled \in [Opportunities -> SettledEvent \cup {NotSettled}]
  OBVIOUS
<1>3. withdrawal \in [Accounts -> [amount: Nat, readyAt: Nat]]
  BY DEF NoWithdrawal
<1>4. {owner, auctioneer, protocolTreasury} \subseteq Accounts /\ split \in Splits
  BY SettlementConstants
<1>5. wallet \in [Accounts -> Nat] /\ now \in 1..MaxTime
  BY SettlementConstants
<1>6. balance \in Int
  OBVIOUS
<1>7. locked \in BOOLEAN
  BY Zenon
<1> QED
  BY <1>1, <1>2, <1>3, <1>4, <1>5, <1>6, <1>7, Zenon DEF TypeOK

\* Every state has the types the contract declares.
THEOREM TypeCorrect == Spec => []TypeOK
BY InitTypes, TypeStep, PTL DEF Spec

\* The actions that leave the events and the bonds alone, or only add to a bond.
LEMMA OtherSteps ==
    ASSUME TypeOK, NotSettling,
           \A a \in Accounts : ~WithdrawBond(a)
    PROVE  /\ settled' = settled
           /\ \A a \in Accounts : bond'[a] >= bond[a]
<1> USE DEF TypeOK, money, roles
<1>1. ASSUME NEW a \in Accounts, Deposit(a)
      PROVE  settled' = settled /\ \A b \in Accounts : bond'[b] >= bond[b]
  BY <1>1 DEF Deposit
<1>2. ASSUME NEW a \in Accounts, RequestWithdraw(a) \/ CancelWithdraw(a) \/ Claim(a)
      PROVE  settled' = settled /\ bond' = bond
  BY <1>2 DEF RequestWithdraw, CancelWithdraw, Claim
<1>3. ASSUME CallReturns \/ Administration \/ Tick
      PROVE  settled' = settled /\ bond' = bond
  BY <1>3 DEF CallReturns, Administration, SetAuctioneer, SetProtocolTreasury,
              TransferOwnership, SetSplit, Tick
<1> QED
  BY <1>1, <1>2, <1>3 DEF NotSettling, Bonding

\* Types of what a settlement is called with.
LEMMA SettleArguments ==
    ASSUME NEW bid \in Bids, NEW price \in 0..bid.maxAmountWei + 1
    PROVE  /\ bid.searcher \in Accounts
           /\ bid.opportunityId \in Opportunities
           /\ bid.maxAmountWei \in Nat
           /\ price \in Nat
BY SettlementConstants DEF BidType

\* No account is ever charged more than it signed for that opportunity.
THEOREM ChargesAreSigned == Spec => []NoOvercharge
<1>1. Init => NoOvercharge
  BY DEF Init, NoOvercharge
<1>2. TypeOK /\ NoOvercharge /\ [Next]_settlementVars => NoOvercharge'
  <2> SUFFICES ASSUME TypeOK, NoOvercharge, [Next]_settlementVars
               PROVE  NoOvercharge'
    OBVIOUS
  <2>1. ASSUME NEW caller \in Accounts, NEW bid \in Bids,
               NEW user \in Payees \cup {ZeroAddress}, NEW app \in Payees \cup {ZeroAddress},
               NEW price \in 0..bid.maxAmountWei + 1,
               Settle(caller, bid, price, user, app)
        PROVE  NoOvercharge'
    <3> SUFFICES ASSUME NEW o \in Opportunities, settled'[o] # NotSettled
                 PROVE  \E b \in SignedBids :
                          /\ b.searcher = settled'[o].searcher
                          /\ b.opportunityId = o
                          /\ settled'[o].amount <= b.maxAmountWei
      BY DEF NoOvercharge
    <3>1. CASE o = bid.opportunityId
      <4>1. settled'[o].searcher = bid.searcher /\ settled'[o].amount = price
        BY <2>1, <3>1 DEF Settle, Chargeable, TypeOK
      <4> QED
        BY <2>1, <3>1, <4>1 DEF Settle, Chargeable
    <3>2. CASE o # bid.opportunityId
      <4>1. settled'[o] = settled[o]
        BY <2>1, <3>2 DEF Settle, Chargeable, TypeOK
      <4> QED
        BY <4>1 DEF NoOvercharge
    <3> QED
      BY <3>1, <3>2
  <2>2. ASSUME settled' = settled
        PROVE  NoOvercharge'
    BY <2>2 DEF NoOvercharge
  <2>3. ASSUME NEW a \in Accounts, WithdrawBond(a)
        PROVE  settled' = settled
    BY <2>3 DEF WithdrawBond, Matured
  <2>4. ASSUME UNCHANGED settlementVars
        PROVE  settled' = settled
    BY <2>4 DEF settlementVars
  <2> QED
    BY <2>1, <2>2, <2>3, <2>4, OtherSteps DEF Next, Settling
<1> QED
  BY <1>1, <1>2, TypeCorrect, PTL DEF Spec

\* An opportunity once charged keeps its event for ever.
THEOREM NoReplay == Spec => SettledOnce
<1> DEFINE Kept == \A o \in Opportunities :
                     settled[o] # NotSettled => settled'[o] = settled[o]
<1>1. TypeOK /\ [Next]_settlementVars => [Kept]_settlementVars
  <2> SUFFICES ASSUME TypeOK, Next
               PROVE  Kept
    OBVIOUS
  <2>1. ASSUME NEW caller \in Accounts, NEW bid \in Bids,
               NEW user \in Payees \cup {ZeroAddress}, NEW app \in Payees \cup {ZeroAddress},
               NEW price \in 0..bid.maxAmountWei + 1,
               Settle(caller, bid, price, user, app)
        PROVE  Kept
    BY <2>1 DEF Settle, Chargeable, TypeOK
  <2>2. ASSUME NEW a \in Accounts, WithdrawBond(a)
        PROVE  Kept
    BY <2>2 DEF WithdrawBond, Matured
  <2> QED
    BY <2>1, <2>2, OtherSteps DEF Next, Settling
<1> QED
  BY <1>1, TypeCorrect, PTL DEF Spec, SettledOnce

\* A bond falls by a first charge signed by its owner or by a matured withdrawal
\* paid to its owner, and in no other way.
THEOREM BondsFallTwoWays == Spec => DebitsAccounted
<1> DEFINE Accounted == \A a \in Accounts :
                          bond'[a] < bond[a] => ChargedFor(a) \/ WithdrawnBy(a)
<1>1. TypeOK /\ [Next]_settlementVars => [Accounted]_settlementVars
  <2> SUFFICES ASSUME TypeOK, Next,
                      NEW a \in Accounts, bond'[a] < bond[a]
               PROVE  ChargedFor(a) \/ WithdrawnBy(a)
    OBVIOUS
  <2>1. ASSUME NEW caller \in Accounts, NEW bid \in Bids,
               NEW user \in Payees \cup {ZeroAddress}, NEW app \in Payees \cup {ZeroAddress},
               NEW price \in 0..bid.maxAmountWei + 1,
               Settle(caller, bid, price, user, app)
        PROVE  ChargedFor(a)
    <3> DEFINE o == bid.opportunityId
    <3>1. /\ o \in Opportunities /\ settled[o] = NotSettled
          /\ settled'[o] \in SettledEvent
          /\ settled'[o].searcher = bid.searcher
          /\ settled'[o].amount = price
      <4>1. app \in Accounts \cup {ZeroAddress} /\ user \in Accounts
        BY <2>1, SettlementConstants DEF Settle, Chargeable
      <4> QED
        BY <2>1, <4>1, SettleArguments, SharesAreNat DEF Settle, Chargeable, TypeOK, SettledEvent
    <3>2. settled'[o] # NotSettled
      BY <3>1, SettlementConstants
    <3>3. a = bid.searcher /\ bond[a] - bond'[a] = price
      BY <2>1, SettleArguments DEF Settle, Chargeable, TypeOK
    <3>4. bid \in SignedBids /\ price <= bid.maxAmountWei
      BY <2>1 DEF Settle, Chargeable
    <3> QED
      BY <3>1, <3>2, <3>3, <3>4 DEF ChargedFor
  <2>2. ASSUME NEW b \in Accounts, WithdrawBond(b)
        PROVE  WithdrawnBy(a)
    <3>1. a = b
      BY <2>2 DEF WithdrawBond, TypeOK
    <3> QED
      BY <2>2, <3>1 DEF WithdrawBond, Matured, TypeOK, WithdrawnBy, Lesser
  <2>3. ASSUME NotSettling, \A b \in Accounts : ~WithdrawBond(b)
        PROVE  FALSE
    <3>1. bond'[a] >= bond[a] /\ bond \in [Accounts -> Nat]
      BY <2>3, OtherSteps DEF TypeOK
    <3>2. bond' \in [Accounts -> Nat]
      BY TypeStep DEF TypeOK
    <3> QED
      BY <3>1, <3>2
  <2> QED
    BY <2>1, <2>2, <2>3 DEF Next, Settling
<1> QED
  BY <1>1, TypeCorrect, PTL DEF Spec, DebitsAccounted

-----------------------------------------------------------------------------
(* Solvency *)

\* There are finitely many addresses.
LEMMA AccountsAreFinite == IsFiniteSet(Accounts)
BY SettlementConstants

\* What the accounts hold of something, as the sum over all of them.
LEMMA TotalIsSum ==
    ASSUME NEW f \in [Accounts -> Nat]
    PROVE  Total(f) = SumFunctionOnSet(f, Accounts) /\ Total(f) \in Nat
<1>1. Total(f) = SumFunctionOnSet(f, Accounts)
  BY DEF Total, SumFunction
<1>2. SumFunctionOnSet(f, Accounts) \in Nat
  BY AccountsAreFinite, SumIsNumber
<1> QED
  BY <1>1, <1>2

\* An account's value changes, and the total by as much.
LEMMA TotalChanges ==
    ASSUME NEW f \in [Accounts -> Nat], NEW a \in Accounts, NEW v \in Nat
    PROVE  Total([f EXCEPT ![a] = v]) = Total(f) - f[a] + v
<1> DEFINE g == [f EXCEPT ![a] = v]
<1>1. g \in [Accounts -> Nat] /\ g[a] = v /\ \A x \in Accounts \ {a} : g[x] = f[x]
  OBVIOUS
<1>2. SumFunctionOnSet(g, Accounts) = SumFunctionOnSet(f, Accounts) - f[a] + g[a]
  <2>1. \A x \in Accounts : f[x] \in Int /\ g[x] \in Int
    BY <1>1
  <2> HIDE DEF g
  <2> QED
    BY <1>1, <2>1, AccountsAreFinite, SumOfChanged
<1> QED
  BY <1>1, <1>2, TotalIsSum

\* What one account is given is the total of what all are given.
LEMMA TotalOfOne ==
    ASSUME NEW x \in Accounts, NEW v \in Nat
    PROVE  SumFunctionOnSet([a \in Accounts |-> IF a = x THEN v ELSE 0], Accounts) = v
<1> DEFINE f == [a \in Accounts |-> 0]
           g == [a \in Accounts |-> IF a = x THEN v ELSE 0]
<1>1. SumFunctionOnSet(f, Accounts) = 0
  BY AccountsAreFinite, SumOfZeros
<1>2. /\ \A a \in Accounts : f[a] \in Int /\ g[a] \in Int
      /\ \A a \in Accounts \ {x} : g[a] = f[a]
      /\ f[x] = 0 /\ g[x] = v
  OBVIOUS
<1>3. SumFunctionOnSet(g, Accounts) = SumFunctionOnSet(f, Accounts) - f[x] + g[x]
  <2> HIDE DEF f, g
  <2> QED
    BY <1>2, AccountsAreFinite, SumOfChanged
<1> HIDE DEF f
<1> QED
  BY <1>1, <1>2, <1>3

\* The three shares are the charge, to the wei, whichever beneficiaries coincide and
\* whether there is an app or not.
LEMMA CreditsAddUp ==
    ASSUME NEW price \in Nat, NEW user \in Accounts, NEW app \in Accounts \cup {ZeroAddress},
           protocolTreasury \in Accounts, split \in Splits
    PROVE  SumFunctionOnSet([a \in Accounts |-> Credit(a, price, user, app)], Accounts) = price
<1> DEFINE s == Shares(price, app)
           Only(x, v) == [a \in Accounts |-> IF a = x THEN v ELSE 0]
           Of(f) == SumFunctionOnSet(f, Accounts)
           both == [a \in Accounts |-> Only(user, s.user)[a] + Only(app, s.app)[a]]
           all == [a \in Accounts |-> Credit(a, price, user, app)]
<1>1. s.user \in Nat /\ s.app \in Nat /\ s.protocol \in Nat
  BY SharesAreNat
<1>2. s.user + s.app + s.protocol = price
  <2>1. s.user = price - s.app - s.protocol
    BY DEF Shares
  <2> QED
    BY <1>1, <2>1
<1>3. app \notin Accounts => s.app = 0
  BY DEF Shares
<1> HIDE DEF s
<1>4. \A x \in Accounts, v \in Nat : Of(Only(x, v)) = v
  BY TotalOfOne
<1>5. Of(Only(app, s.app)) = s.app
  <2>1. ASSUME app \notin Accounts
        PROVE  Of(Only(app, s.app)) = 0
    <3>1. \A a \in Accounts : Only(app, s.app)[a] = 0
      BY <2>1
    <3> HIDE DEF Only
    <3> QED
      BY <3>1, AccountsAreFinite, SumOfZeros
  <2> QED
    BY <1>1, <1>3, <1>4, <2>1
<1>6. \A x, v : v \in Nat => \A a \in Accounts : Only(x, v)[a] \in Nat
  OBVIOUS
<1>7. \A a \in Accounts : both[a] = Only(user, s.user)[a] + Only(app, s.app)[a]
  OBVIOUS
<1>8. \A a \in Accounts : all[a] = both[a] + Only(protocolTreasury, s.protocol)[a]
  BY DEF Credit, s
<1> HIDE DEF Only, both, all
<1>9. \A a \in Accounts : both[a] \in Int
  BY <1>1, <1>6, <1>7
<1>10. Of(both) = s.user + s.app
  <2>1. Of(both) = Of(Only(user, s.user)) + Of(Only(app, s.app))
    BY <1>1, <1>6, <1>7, AccountsAreFinite, SumOfSums
  <2> QED
    BY <1>1, <1>4, <1>5, <2>1
<1>11. Of(all) = Of(both) + Of(Only(protocolTreasury, s.protocol))
  BY <1>1, <1>6, <1>8, <1>9, AccountsAreFinite, SumOfSums
<1>12. Of(all) = price
  BY <1>1, <1>2, <1>4, <1>10, <1>11
<1> QED
  BY <1>12 DEF all

\* The ether in the contract is what it owes.
THEOREM AlwaysSolvent == Spec => []Solvent
<1>1. Init => Solvent
  <2> SUFFICES ASSUME Init
               PROVE  Solvent
    OBVIOUS
  <2>1. \A a \in Accounts : bond[a] = 0 /\ claimable[a] = 0
    BY DEF Init
  <2>2. SumFunctionOnSet(bond, Accounts) = 0 /\ SumFunctionOnSet(claimable, Accounts) = 0
    BY <2>1, AccountsAreFinite, SumOfZeros
  <2>3. Total(bond) = 0 /\ Total(claimable) = 0
    BY <2>2, InitTypes, TotalIsSum DEF TypeOK
  <2> QED
    BY <2>3 DEF Init, Solvent
<1>2. TypeOK /\ Solvent /\ [Next]_settlementVars => Solvent'
  <2> SUFFICES ASSUME TypeOK, Solvent, [Next]_settlementVars
               PROVE  balance' = Total(bond') + Total(claimable')
    BY DEF Solvent
  <2>1. /\ bond \in [Accounts -> Nat] /\ claimable \in [Accounts -> Nat]
        /\ wallet \in [Accounts -> Nat]
        /\ Total(bond) \in Nat /\ Total(claimable) \in Nat
        /\ balance = Total(bond) + Total(claimable)
    BY TotalIsSum DEF TypeOK, Solvent
  <2>2. ASSUME NEW a \in Accounts, Deposit(a)
        PROVE  balance' = Total(bond') + Total(claimable')
    <3>1. PICK value \in 1..wallet[a] : /\ balance' = balance + value
                                        /\ bond' = [bond EXCEPT ![a] = bond[a] + value]
                                        /\ claimable' = claimable
      BY <2>2 DEF Deposit
    <3>2. value \in Nat /\ bond[a] \in Nat /\ bond[a] + value \in Nat
      BY <2>1
    <3>3. Total(bond') = Total(bond) - bond[a] + (bond[a] + value)
      BY <2>1, <3>1, <3>2, TotalChanges
    <3> QED
      BY <2>1, <3>1, <3>2, <3>3
  <2>3. ASSUME NEW a \in Accounts, WithdrawBond(a)
        PROVE  balance' = Total(bond') + Total(claimable')
    <3> DEFINE amount == Lesser(withdrawal[a].amount, bond[a])
    <3>1. /\ balance' = balance - amount
          /\ bond' = [bond EXCEPT ![a] = bond[a] - amount]
          /\ claimable' = claimable
      BY <2>3 DEF WithdrawBond
    <3>2. amount \in Nat /\ bond[a] \in Nat /\ bond[a] - amount \in Nat
      BY <2>1 DEF TypeOK, Lesser
    <3> HIDE DEF amount
    <3>3. Total(bond') = Total(bond) - bond[a] + (bond[a] - amount)
      BY <2>1, <3>1, <3>2, TotalChanges
    <3> QED
      BY <2>1, <3>1, <3>2, <3>3
  <2>4. ASSUME NEW a \in Accounts, Claim(a)
        PROVE  balance' = Total(bond') + Total(claimable')
    <3>1. /\ balance' = balance - claimable[a]
          /\ claimable' = [claimable EXCEPT ![a] = 0]
          /\ bond' = bond
      BY <2>4 DEF Claim
    <3>2. Total(claimable') = Total(claimable) - claimable[a] + 0
      BY <2>1, <3>1, TotalChanges
    <3> QED
      BY <2>1, <3>1, <3>2
  <2>5. ASSUME NEW caller \in Accounts, NEW bid \in Bids,
               NEW user \in Payees \cup {ZeroAddress}, NEW app \in Payees \cup {ZeroAddress},
               NEW price \in 0..bid.maxAmountWei + 1,
               Settle(caller, bid, price, user, app)
        PROVE  balance' = Total(bond') + Total(claimable')
    <3> DEFINE s == bid.searcher
               credits == [a \in Accounts |-> Credit(a, price, user, app)]
    <3>1. /\ s \in Accounts /\ price \in Nat /\ user \in Accounts
          /\ app \in Accounts \cup {ZeroAddress}
          /\ protocolTreasury \in Accounts /\ split \in Splits
      <4>1. user \in Accounts /\ app \in Accounts \cup {ZeroAddress}
        BY <2>5, SettlementConstants DEF Settle
      <4>2. s \in Accounts /\ price \in Nat
        BY SettleArguments
      <4> QED
        BY <4>1, <4>2 DEF TypeOK
    <3>2. /\ balance' = balance
          /\ bond' = [bond EXCEPT ![s] = bond[s] - price]
          /\ bond[s] >= price
          /\ claimable' = [a \in Accounts |-> claimable[a] + Credit(a, price, user, app)]
      BY <2>5 DEF Settle, Chargeable
    <3>3. Total(bond') = Total(bond) - bond[s] + (bond[s] - price)
      <4>1. bond[s] - price \in Nat
        BY <2>1, <3>1, <3>2
      <4> QED
        BY <2>1, <3>1, <3>2, <4>1, TotalChanges
    <3>4. Total(claimable') = Total(claimable) + price
      <4>1. \A a \in Accounts : credits[a] \in Nat /\ claimable'[a] = claimable[a] + credits[a]
        BY <3>1, <3>2, CreditIsNat
      <4>2. SumFunctionOnSet(credits, Accounts) = price
        BY <3>1, CreditsAddUp
      <4>3. claimable' \in [Accounts -> Nat]
        BY TypeStep DEF TypeOK
      <4> HIDE DEF credits
      <4>4. SumFunctionOnSet(claimable', Accounts)
              = SumFunctionOnSet(claimable, Accounts) + SumFunctionOnSet(credits, Accounts)
        BY <2>1, <4>1, AccountsAreFinite, SumOfSums
      <4> QED
        BY <2>1, <4>2, <4>3, <4>4, TotalIsSum
    <3>5. bond[s] \in Nat
      BY <2>1, <3>1
    <3> QED
      BY <2>1, <3>1, <3>2, <3>3, <3>4, <3>5
  <2>6. ASSUME UNCHANGED <<bond, claimable, balance>>
        PROVE  balance' = Total(bond') + Total(claimable')
    BY <2>1, <2>6
  <2>7. ASSUME \/ \E a \in Accounts : RequestWithdraw(a) \/ CancelWithdraw(a)
               \/ CallReturns \/ Administration \/ Tick \/ UNCHANGED settlementVars
        PROVE  UNCHANGED <<bond, claimable, balance>>
    BY <2>7 DEF RequestWithdraw, CancelWithdraw, CallReturns, Administration, SetAuctioneer,
                SetProtocolTreasury, TransferOwnership, SetSplit, Tick, settlementVars, money
  <2> QED
    BY <2>2, <2>3, <2>4, <2>5, <2>6, <2>7 DEF Next, Settling, NotSettling, Bonding
<1> QED
  BY <1>1, <1>2, TypeCorrect, PTL DEF Spec

\* A credit leaves only to the account credited, in full.
THEOREM CreditsAreKept == Spec => ClaimsKept
<1> DEFINE Kept == \A a \in Accounts :
                     claimable'[a] < claimable[a] =>
                       /\ claimable'[a] = 0
                       /\ wallet'[a] = wallet[a] + claimable[a]
<1>1. TypeOK /\ [Next]_settlementVars => [Kept]_settlementVars
  <2> SUFFICES ASSUME TypeOK, Next, NEW a \in Accounts, claimable'[a] < claimable[a]
               PROVE  claimable'[a] = 0 /\ wallet'[a] = wallet[a] + claimable[a]
    OBVIOUS
  <2>1. claimable[a] \in Nat
    BY DEF TypeOK
  <2>2. ASSUME NEW b \in Accounts, Claim(b)
        PROVE  claimable'[a] = 0 /\ wallet'[a] = wallet[a] + claimable[a]
    <3>1. a = b
      BY <2>1, <2>2 DEF Claim, TypeOK
    <3> QED
      BY <2>2, <3>1 DEF Claim, TypeOK
  <2>3. ASSUME NEW caller \in Accounts, NEW bid \in Bids,
               NEW user \in Payees \cup {ZeroAddress}, NEW app \in Payees \cup {ZeroAddress},
               NEW price \in 0..bid.maxAmountWei + 1,
               Settle(caller, bid, price, user, app)
        PROVE  FALSE
    <3>1. Credit(a, price, user, app) \in Nat
      BY SettleArguments, CreditIsNat DEF TypeOK
    <3>2. claimable'[a] = claimable[a] + Credit(a, price, user, app)
      BY <2>3 DEF Settle
    <3> QED
      BY <2>1, <3>1, <3>2
  <2>4. ASSUME \/ \E b \in Accounts : Deposit(b) \/ RequestWithdraw(b) \/ CancelWithdraw(b)
                                      \/ WithdrawBond(b)
               \/ CallReturns \/ Administration \/ Tick
        PROVE  claimable' = claimable
    BY <2>4 DEF Deposit, RequestWithdraw, CancelWithdraw, WithdrawBond, CallReturns, Administration,
                SetAuctioneer, SetProtocolTreasury, TransferOwnership, SetSplit, Tick, money
  <2>5. claimable' # claimable
    BY <2>1
  <2>6. ~Settling
    BY <2>3 DEF Settling
  <2>7. NotSettling
    BY <2>6 DEF Next
  <2> QED
    BY <2>2, <2>4, <2>5, <2>7 DEF NotSettling, Bonding
<1> QED
  BY <1>1, TypeCorrect, PTL DEF Spec, ClaimsKept
-----------------------------------------------------------------------------
(* The user's part *)

\* The other shares round down, so the user's is at least the rest of the basis points.
LEMMA UserShareFloor ==
    ASSUME NEW amount \in Nat, NEW app, split \in Splits
    PROVE  LET others == split.protocolBps + (IF app = ZeroAddress THEN 0 ELSE split.appBps)
           IN  Shares(amount, app).user * 10000 >= amount * (10000 - others)
<1> DEFINE p == IF app = ZeroAddress THEN 0 ELSE split.appBps
           q == split.protocolBps
           x == (amount * p) \div 10000
           y == (amount * q) \div 10000
<1>1. p \in Nat /\ q \in Nat
  BY SplitsWithinWhole
<1>2. Shares(amount, app).user = amount - x - y
  <2>1. (amount * 0) \div 10000 = 0
    OBVIOUS
  <2> QED
    BY <2>1 DEF Shares
<1> HIDE DEF p, q
<1>3. x \in Nat /\ y \in Nat /\ 10000 * x <= amount * p /\ 10000 * y <= amount * q
  <2> DEFINE m == amount * p
             n == amount * q
  <2>1. m \in Nat /\ n \in Nat
    BY <1>1
  <2> HIDE DEF m, n
  <2>2. m \div 10000 \in Nat /\ n \div 10000 \in Nat
        /\ 10000 * (m \div 10000) <= m /\ 10000 * (n \div 10000) <= n
    BY <2>1
  <2> QED
    BY <2>2 DEF m, n
<1> HIDE DEF x, y
<1>4. amount * (10000 - (q + p)) = 10000 * amount - amount * p - amount * q
  BY <1>1
<1>5. (amount - x - y) * 10000 = 10000 * amount - 10000 * x - 10000 * y
  BY <1>3
<1>6. amount * p \in Nat /\ amount * q \in Nat
  BY <1>1
<1>7. (amount - x - y) * 10000 >= amount * (10000 - (q + p))
  BY <1>3, <1>4, <1>5, <1>6
<1> QED
  BY <1>2, <1>7 DEF p, q

\* Whatever is charged, the user is credited at least the basis points the split in
\* force leaves, those of an absent app included.
THEOREM UsersGetTheirPart == Spec => UserFloor
<1> DEFINE Part(e) == LET others == split.protocolBps
                                      + (IF e.app = ZeroAddress THEN 0 ELSE split.appBps)
                      IN  e.userAmt * BasisPoints >= e.amount * (BasisPoints - others)
           Floor == \A o \in Opportunities :
                      (settled[o] = NotSettled /\ settled'[o] # NotSettled) => Part(settled'[o])
<1>1. TypeOK /\ [Next]_settlementVars => [Floor]_settlementVars
  <2> SUFFICES ASSUME TypeOK, Next,
                      NEW o \in Opportunities, settled[o] = NotSettled, settled'[o] # NotSettled
               PROVE  Part(settled'[o])
    OBVIOUS
  <2>1. ASSUME NEW caller \in Accounts, NEW bid \in Bids,
               NEW user \in Payees \cup {ZeroAddress}, NEW app \in Payees \cup {ZeroAddress},
               NEW price \in 0..bid.maxAmountWei + 1,
               Settle(caller, bid, price, user, app)
        PROVE  Part(settled'[o])
    <3>1. /\ settled'[o].userAmt = Shares(price, app).user
          /\ settled'[o].amount = price
          /\ settled'[o].app = app
      BY <2>1 DEF Settle, Chargeable, TypeOK
    <3>2. price \in Nat /\ split \in Splits
      BY SettleArguments DEF TypeOK
    <3> QED
      BY <3>1, <3>2, UserShareFloor
  <2>2. ASSUME NEW a \in Accounts, WithdrawBond(a)
        PROVE  settled' = settled
    BY <2>2 DEF WithdrawBond, Matured
  <2>3. settled' = settled => FALSE
    OBVIOUS
  <2> QED
    BY <2>1, <2>2, <2>3, OtherSteps DEF Next, Settling
<1> QED
  BY <1>1, TypeCorrect, PTL DEF Spec, UserFloor

-----------------------------------------------------------------------------
(* CollateralQuote: a reading of collateral() is worth its value for           *)
(* WithdrawDelay.  QuoteBacked alone is not inductive: a request that was      *)
(* pending when the reading was taken may mature before the reading expires.   *)
(* The reading had already left its amount out, which PendingBehindQuote       *)
(* remembers; a request made later cannot mature in time.                      *)


QuoteInv == QuoteTypeOK /\ PendingBehindQuote /\ QuoteBacked

\* A step of the composition is a step of the contract.
LEMMA QuoteStepIsStep == [QuoteNext]_quoteVars => [Next]_settlementVars
BY DEF QuoteNext, quoteVars, ReadCollateral, SettleQuoted, Next, Settling

\* Every step preserves the types of the contract and of the reading.
LEMMA QuoteTypeStep ==
    ASSUME QuoteTypeOK, [QuoteNext]_quoteVars
    PROVE  QuoteTypeOK'
<1>1. TypeOK'
  BY QuoteStepIsStep, TypeStep DEF QuoteTypeOK
<1>2. quote' \in [searcher: Accounts, value: Nat, at: 1..now', charged: Nat]
  <2>1. ASSUME NEW a \in Accounts, ReadCollateral(a)
        PROVE  quote' \in [searcher: Accounts, value: Nat, at: 1..now', charged: Nat]
    <3>1. Collateral(a) \in Nat /\ now \in Nat /\ now >= 1
      BY SettlementConstants DEF QuoteTypeOK, TypeOK, Collateral
    <3>2. now' = now
      BY <2>1 DEF ReadCollateral, settlementVars
    <3> QED
      BY <2>1, <3>1, <3>2 DEF ReadCollateral
  <2>2. ASSUME NEW caller \in Accounts, NEW bid \in Bids,
               NEW user \in Payees \cup {ZeroAddress}, NEW app \in Payees \cup {ZeroAddress},
               NEW price \in 0..bid.maxAmountWei + 1,
               SettleQuoted(caller, bid, price, user, app)
        PROVE  quote' \in [searcher: Accounts, value: Nat, at: 1..now', charged: Nat]
    BY <2>2, SettleArguments DEF SettleQuoted, Settle, QuoteTypeOK
  <2>3. ASSUME NotSettling, UNCHANGED quote
        PROVE  quote' \in [searcher: Accounts, value: Nat, at: 1..now', charged: Nat]
    <3>1. now' \in {now, now + 1}
      BY <2>3 DEF NotSettling, Bonding, Deposit, RequestWithdraw, CancelWithdraw, WithdrawBond,
                  Claim, CallReturns, Administration, SetAuctioneer, SetProtocolTreasury,
                  TransferOwnership, SetSplit, Tick
    <3> QED
      BY <2>3, <3>1, SettlementConstants DEF QuoteTypeOK, TypeOK
  <2> QED
    BY <2>1, <2>2, <2>3 DEF QuoteTypeOK, QuoteNext, quoteVars, settlementVars
<1> QED
  BY <1>1, <1>2 DEF QuoteTypeOK

\* The two parts of the invariant for the searcher of the reading.
LEMMA QuoteStep ==
    ASSUME QuoteInv, [QuoteNext]_quoteVars
    PROVE  PendingBehindQuote' /\ QuoteBacked'
<1> DEFINE q == quote.searcher
           B == bond[q] + quote.charged
<1> USE DEF QuoteInv, QuoteTypeOK, TypeOK, PendingBehindQuote, QuoteBacked, QuoteStanding
<1>1. QuoteTypeOK'
  BY QuoteTypeStep
<1>2. ASSUME NEW a \in Accounts, ReadCollateral(a)
      PROVE  PendingBehindQuote' /\ QuoteBacked'
  BY <1>2, <1>1 DEF ReadCollateral, Collateral, settlementVars
<1>3. ASSUME NEW caller \in Accounts, NEW bid \in Bids,
             NEW user \in Payees \cup {ZeroAddress}, NEW app \in Payees \cup {ZeroAddress},
             NEW price \in 0..bid.maxAmountWei + 1,
             SettleQuoted(caller, bid, price, user, app)
      PROVE  PendingBehindQuote' /\ QuoteBacked'
  <2>1. B' = B /\ quote'.searcher = q /\ quote'.value = quote.value /\ quote'.at = quote.at
    BY <1>3, <1>1, SettleArguments DEF SettleQuoted, Settle
  <2>2. withdrawal' = withdrawal /\ now' = now
    BY <1>3 DEF SettleQuoted, Settle
  <2> QED
    BY <2>1, <2>2, <1>1
<1>4. ASSUME NotSettling, UNCHANGED quote
      PROVE  PendingBehindQuote' /\ QuoteBacked'
  <2>1. ASSUME NEW a \in Accounts, Deposit(a)
        PROVE  PendingBehindQuote' /\ QuoteBacked'
    BY <2>1, <1>1, <1>4 DEF Deposit
  <2>2. ASSUME NEW a \in Accounts, RequestWithdraw(a)
        PROVE  PendingBehindQuote' /\ QuoteBacked'
    <3>1. bond' = bond /\ now' = now
      BY <2>2 DEF RequestWithdraw, ReadyAt, money
    <3>2. CASE a # q
      BY <2>2, <3>1, <3>2, <1>1, <1>4 DEF RequestWithdraw, ReadyAt
    <3>3. CASE a = q
      \* the new request matures only when the reading has expired
      <4>1. withdrawal'[q].readyAt = now + WithdrawDelay
        BY <2>2, <3>3 DEF RequestWithdraw, ReadyAt
      <4>2. withdrawal'[q].readyAt >= quote.at + WithdrawDelay
        BY <4>1, SettlementConstants
      <4>3. PendingBehindQuote'
        BY <4>2, <1>1, <1>4, SettlementConstants
      <4>4. QuoteBacked'
        BY <3>1, <1>4
      <4> QED
        BY <4>3, <4>4
    <3> QED
      BY <3>2, <3>3
  <2>3. ASSUME NEW a \in Accounts, CancelWithdraw(a)
        PROVE  PendingBehindQuote' /\ QuoteBacked'
    BY <2>3, <1>1, <1>4 DEF CancelWithdraw, NoWithdrawal, money
  <2>4. ASSUME NEW a \in Accounts, WithdrawBond(a)
        PROVE  PendingBehindQuote' /\ QuoteBacked'
    <3>1. CASE a # q
      BY <2>4, <3>1, <1>1, <1>4 DEF WithdrawBond, Matured
    <3>2. CASE a = q
      <4>1. withdrawal'[q] = NoWithdrawal /\ now' = now
            /\ bond'[q] = bond[q] - Lesser(withdrawal[q].amount, bond[q])
        BY <2>4, <3>2 DEF WithdrawBond, Matured
      <4>2. now >= withdrawal[q].readyAt /\ withdrawal[q].readyAt # 0
        BY <2>4, <3>2 DEF WithdrawBond, Matured
      <4>3. PendingBehindQuote'
        BY <4>1, <1>4 DEF NoWithdrawal
      <4>4. QuoteBacked'
        <5> SUFFICES ASSUME QuoteStanding
                     PROVE  bond'[q] + quote.charged >= quote.value
          BY <4>1, <1>4
        <5>1. CASE quote.value = 0
          BY <5>1, <1>1, <4>1, <1>4 DEF Lesser
        <5>2. CASE quote.value > 0
          <6>1. bond[q] + quote.charged >= quote.value + withdrawal[q].amount
            BY <5>2, <4>2, SettlementConstants
          <6> QED
            BY <6>1, <4>1 DEF Lesser
        <5> QED
          BY <5>1, <5>2
      <4> QED
        BY <4>3, <4>4
    <3> QED
      BY <3>1, <3>2
  <2>5. ASSUME (\E a \in Accounts : Claim(a)) \/ CallReturns \/ Administration
        PROVE  PendingBehindQuote' /\ QuoteBacked'
    <3>1. bond' = bond /\ withdrawal' = withdrawal /\ now' = now
      BY <2>5 DEF Claim, CallReturns, Administration, SetAuctioneer, SetProtocolTreasury,
                  TransferOwnership, SetSplit, money, roles
    <3> QED
      BY <3>1, <1>4
  <2>6. ASSUME Tick
        PROVE  PendingBehindQuote' /\ QuoteBacked'
    BY <2>6, <1>1, <1>4, SettlementConstants DEF Tick, money
  <2> QED
    BY <1>4, <2>1, <2>2, <2>3, <2>4, <2>5, <2>6 DEF NotSettling, Bonding
<1>5. ASSUME UNCHANGED quoteVars
      PROVE  PendingBehindQuote' /\ QuoteBacked'
  BY <1>5 DEF quoteVars, settlementVars
<1> QED
  BY <1>2, <1>3, <1>4, <1>5 DEF QuoteNext

\* The invariant holds in every state.
LEMMA QuoteInvariant == QuoteSpec => []QuoteInv
<1>1. QuoteInit => QuoteInv
  <2> SUFFICES ASSUME QuoteInit
               PROVE  QuoteInv
    OBVIOUS
  <2>1. TypeOK
    BY InitTypes DEF QuoteInit
  <2>2. quote \in [searcher: Accounts, value: Nat, at: 1..now, charged: Nat] /\ quote.value = 0
    BY <2>1 DEF QuoteInit, TypeOK
  <2> QED
    BY <2>1, <2>2 DEF QuoteInv, QuoteTypeOK, PendingBehindQuote, QuoteBacked, TypeOK
<1>2. QuoteInv /\ [QuoteNext]_quoteVars => QuoteInv'
  BY QuoteTypeStep, QuoteStep DEF QuoteInv
<1> QED
  BY <1>1, <1>2, PTL DEF QuoteSpec

\* For WITHDRAW_DELAY after collateral() was read, the bond covers the reading
\* less what has been charged since.
THEOREM QuotesAreBacked == QuoteSpec => []QuoteBacked
BY QuoteInvariant, PTL DEF QuoteInv

-----------------------------------------------------------------------------
(* The order of bids *)

\* An interval without its last element is the interval up to the one before.
LEMMA IntervalShrinks ==
    ASSUME NEW k \in Nat, k # 0
    PROVE  (1..k) \ {k} = 1..(k - 1)
<1>1. ASSUME NEW i \in 1..k, i # k
      PROVE  i \in 1..(k - 1)
  BY <1>1
<1>2. ASSUME NEW i \in 1..(k - 1)
      PROVE  i \in 1..k /\ i # k
  BY <1>2
<1> QED
  BY <1>1, <1>2

\* Before orders the positions of bids: of two, one is before the other, and
\* what is before one that is before a third is before the third.
LEMMA BeforeOrders ==
    ASSUME NEW bids, NEW P, P \subseteq Nat, \A i \in P : bids[i].maxAmountWei \in Nat
    PROVE  /\ \A i, j \in P : i # j => Before(bids, i, j) \/ Before(bids, j, i)
           /\ \A i, j, k \in P :
                 Before(bids, i, j) /\ Before(bids, j, k) => Before(bids, i, k)
<1>1. ASSUME NEW i \in P, NEW j \in P, i # j
      PROVE  Before(bids, i, j) \/ Before(bids, j, i)
  <2>1. i \in Nat /\ j \in Nat /\ bids[i].maxAmountWei \in Nat /\ bids[j].maxAmountWei \in Nat
    OBVIOUS
  <2> QED
    BY <1>1, <2>1 DEF Before
<1>2. ASSUME NEW i \in P, NEW j \in P, NEW k \in P, Before(bids, i, j), Before(bids, j, k)
      PROVE  Before(bids, i, k)
  <2>1. /\ i \in Nat /\ j \in Nat /\ k \in Nat /\ bids[i].maxAmountWei \in Nat
        /\ bids[j].maxAmountWei \in Nat /\ bids[k].maxAmountWei \in Nat
    OBVIOUS
  <2> QED
    BY <1>2, <2>1 DEF Before
<1> QED
  BY <1>1, <1>2

\* Among finitely many positions there is one before all others, so First finds it.
LEMMA FirstIsFirst ==
    ASSUME NEW bids, NEW n \in Nat, NEW P, P \subseteq 1..n, P # {},
           \A i \in P : bids[i].maxAmountWei \in Nat
    PROVE  /\ First(bids, P) \in P
           /\ \A j \in P \ {First(bids, P)} : Before(bids, First(bids, P), j)
<1> DEFINE Upto(k) == P \cap 1..k
           Has(k) == \E i \in Upto(k) : \A j \in Upto(k) \ {i} : Before(bids, i, j)
           T == {k \in Nat : Upto(k) # {} /\ ~Has(k)}
<1>1. T = {}
  <2> SUFFICES ASSUME T # {}
               PROVE  FALSE
    OBVIOUS
  <2>1. PICK k \in T : \A m \in T : k <= m
    BY LeastNatural
  <2>2. k \in Nat \ {0} /\ Upto(k) # {} /\ ~Has(k)
    BY <2>1
  <2>3. k - 1 \in Nat /\ Upto(k) \ {k} = Upto(k - 1)
    <3>1. k \in Nat \ {0}
      <4>1. Upto(0) = {}
        OBVIOUS
      <4> QED
        BY <2>2, <4>1
    <3>2. k - 1 \in Nat
      BY <3>1
    <3>3. (1..k) \ {k} = 1..(k - 1)
      BY <3>1, IntervalShrinks
    <3>4. Upto(k) \ {k} = P \cap ((1..k) \ {k})
      OBVIOUS
    <3>5. Upto(k) \ {k} = Upto(k - 1)
      BY <3>3, <3>4, Zenon
    <3> QED
      BY <3>2, <3>5, Zenon
  <2>4. ASSUME k \notin P
        PROVE  FALSE
    <3>1. Upto(k) = Upto(k - 1)
      BY <2>3, <2>4
    <3>2. Has(k - 1) => Has(k)
      BY <3>1
    <3>3. k - 1 \in T
      BY <2>2, <2>3, <3>1, <3>2
    <3>4. k <= k - 1
      BY <2>1, <3>3
    <3> HIDE DEF T
    <3> QED
      BY <2>2, <3>4
  <2>5. Upto(k - 1) # {}
    <3> SUFFICES ASSUME Upto(k - 1) = {}
                 PROVE  FALSE
      OBVIOUS
    <3>1. k \in Upto(k) /\ Upto(k) \ {k} = {}
      BY <2>2, <2>3, <2>4
    <3>2. Has(k)
      BY <3>1
    <3> QED
      BY <2>2, <3>2
  <2>6. Has(k - 1)
    BY <2>1, <2>2, <2>3, <2>5
  <2>7. PICK i \in Upto(k - 1) : \A j \in Upto(k - 1) \ {i} : Before(bids, i, j)
    BY <2>6
  <2>8. i \in P /\ i # k /\ P \subseteq Nat
    BY <2>2, <2>3, <2>7
  <2>9. CASE Before(bids, i, k)
    <3>1. \A j \in Upto(k) \ {i} : Before(bids, i, j)
      BY <2>3, <2>7, <2>9
    <3> QED
      BY <2>2, <2>3, <2>7, <3>1
  <2>10. CASE Before(bids, k, i)
    <3>1. \A j \in Upto(k) \ {k} : Before(bids, k, j)
      BY <2>3, <2>4, <2>7, <2>8, <2>10, BeforeOrders
    <3> QED
      BY <2>2, <2>4, <3>1
  <2> QED
    BY <2>4, <2>8, <2>9, <2>10, BeforeOrders
<1>2. Upto(n) = P
  OBVIOUS
<1>3. \E i \in P : \A j \in P \ {i} : Before(bids, i, j)
  BY <1>1, <1>2
<1> QED
  BY <1>3 DEF First

\* The winner is one of the bids, and the price is what one of them offered, at most
\* what the winner did.
LEMMA PriceIsOffered ==
    ASSUME NEW bids \in Seq(Bids), bids # <<>>
    PROVE  /\ WinningPosition(bids) \in DOMAIN bids
           /\ bids[WinningPosition(bids)] \in Bids
           /\ ClearingPrice(bids) \in Nat
           /\ ClearingPrice(bids) <= bids[WinningPosition(bids)].maxAmountWei
<1> DEFINE D == DOMAIN bids
           w == WinningPosition(bids)
           others == D \ {w}
<1>1. Len(bids) \in Nat /\ D = 1..Len(bids) /\ D # {}
  OBVIOUS
<1>2. \A i \in D : bids[i] \in Bids /\ bids[i].maxAmountWei \in Nat
  BY SettlementConstants DEF BidType
<1>3. w \in D /\ \A j \in D \ {w} : Before(bids, w, j)
  BY <1>1, <1>2, FirstIsFirst DEF WinningPosition
<1>4. CASE others = {}
  BY <1>2, <1>3, <1>4 DEF ClearingPrice
<1>5. CASE others # {}
  <2>1. First(bids, others) \in others
    BY <1>1, <1>2, <1>5, FirstIsFirst
  <2>2. ClearingPrice(bids) = bids[First(bids, others)].maxAmountWei
    BY <1>5 DEF ClearingPrice
  <2>3. Before(bids, w, First(bids, others))
    BY <1>3, <2>1
  <2> HIDE DEF w, others
  <2> QED
    BY <1>2, <1>3, <2>1, <2>2, <2>3 DEF Before, w, others
<1> QED
  BY <1>2, <1>3, <1>4, <1>5

-----------------------------------------------------------------------------
(* The inductive invariant *)

Phases == {"absent", "open", "closed", "published", "dispatched", "done", "failed", "lost"}
Round == [phase: Phases, biddable: BOOLEAN, openedAt: Int, bids: Seq(Bids)]
Stages == {"cached", "asked", "collectable", "refused", "answered"}
Readings == [at: Int, wei: Nat, charged: SUBSET Opportunities]
Check == [bid: Bids, own: Nat, stage: Stages, seen: Readings]
Hold == [at: Int, wei: Nat]
Receipt == [bids: Seq(Bids), winner: Accounts \cup {"none", "unpublished"}, clearingPriceWei: Nat]
ChargeStates ==
    {"submitting", "unsigned", "pending", "refused", "unsent", "landed", "reverted"}
Charge == [state: ChargeStates, bid: Bids, wei: Nat, user: Users, app: Payees \cup {ZeroAddress}, at: Int]

HouseTypes ==
    /\ round \in [Opportunities -> Round]
    /\ checks \in Seq(Check)
    /\ cache \in [Searchers -> Readings]
    /\ holds \in [Searchers -> [Opportunities -> Hold]]
    /\ receipts \in [Opportunities -> Receipt]
    /\ acks \subseteq Bids
    /\ charge \in [Opportunities -> Charge \cup {NoCharge}]

\* The bids of a round are the acknowledgements given in it.
BidsAreAcks(o) ==
    {round[o].bids[i] : i \in DOMAIN round[o].bids} = {bid \in acks : bid.opportunityId = o}

\* A round has no bids before it opens and no receipt before it is closed; then its
\* receipt, unless the process died before it was published, is the one of its bids.
ReceiptFollows(o) ==
    /\ round[o].phase = "absent" => round[o].bids = <<>>
    /\ round[o].phase \in {"absent", "open", "closed"} => receipts[o] = NoReceipt
    /\ round[o].phase \in {"published", "dispatched", "done", "failed"} =>
          receipts[o] = ReceiptOf(o)
    /\ round[o].phase = "lost" => receipts[o] \in {NoReceipt, ReceiptOf(o)}

\* A charge is made once the round was won, of the winner and at its price; while it is
\* being submitted it is there; and what the contract recorded is that charge.
ChargeFollows(o) ==
    /\ charge[o] # NoCharge =>
          /\ round[o].phase \in {"dispatched", "done"}
          /\ round[o].bids # <<>>
          /\ charge[o].bid = Winner(o)
          /\ charge[o].wei = ClearingPrice(round[o].bids)
    /\ round[o].phase = "dispatched" => charge[o] # NoCharge
    /\ settled[o] # NotSettled =>
          /\ charge[o] # NoCharge
          /\ settled[o].searcher = charge[o].bid.searcher
          /\ settled[o].amount = charge[o].wei

\* A hold is for a bid of a round under way, after the close for the winner's.
HoldsFollow(o) ==
    \A s \in Searchers : holds[s][o] # None =>
        /\ round[o].phase \in {"open", "closed", "published", "dispatched", "failed"}
        /\ \E i \in DOMAIN round[o].bids : round[o].bids[i].searcher = s
        /\ round[o].phase # "open" => s = Winner(o).searcher

Consistent(o) == BidsAreAcks(o) /\ ReceiptFollows(o) /\ ChargeFollows(o) /\ HoldsFollow(o)

HouseInv == TypeOK /\ HouseTypes /\ \A o \in Opportunities : Consistent(o)

-----------------------------------------------------------------------------
(* What the service asks of the contract the contract allows *)

\* A charge that is pending was recorded.
LEMMA PendingIsCharge ==
    ASSUME HouseTypes, NEW o \in Opportunities, charge[o].state = "pending"
    PROVE  charge[o] \in Charge
BY DEF HouseTypes, NoCharge

\* A settlement that lands is one call of settle by the auctioneer, or a revert.
LEMMA LandingIsSettle ==
    ASSUME TypeOK, HouseTypes, NEW o \in Opportunities, SettlementLands(o)
    PROVE  \/ Settling /\ Settle(auctioneer, charge[o].bid, charge[o].wei, charge[o].user, charge[o].app)
           \/ UNCHANGED settlementVars
<1> DEFINE c == charge[o]
<1>1. c \in Charge
  BY PendingIsCharge DEF SettlementLands
<1>2. CASE ~WouldSettle(c)
  BY <1>2 DEF SettlementLands
<1>3. CASE WouldSettle(c)
  <2>1. Settle(auctioneer, c.bid, c.wei, c.user, c.app)
    BY <1>3 DEF SettlementLands
  <2>2. c.bid \in Bids /\ c.bid.maxAmountWei \in Nat /\ c.wei \in 0..c.bid.maxAmountWei + 1
    BY <1>1, <1>3, SettleArguments, SettlementConstants DEF Charge, WouldSettle, Chargeable, BidType
  <2>3. c.user \in Payees \cup {ZeroAddress} /\ c.app \in Payees \cup {ZeroAddress}
    BY <1>1, HouseConstants DEF Charge
  <2>4. auctioneer \in Accounts
    BY DEF TypeOK
  <2> HIDE DEF c
  <2>5. Settling
    BY <2>1, <2>2, <2>3, <2>4 DEF Settling
  <2> QED
    BY <2>1, <2>5 DEF c
<1> QED
  BY <1>2, <1>3

\* Every step of the service is a step of the contract or leaves it alone.
LEMMA ContractStep ==
    ASSUME TypeOK, HouseTypes, [HouseNext]_vars
    PROVE  [Next]_settlementVars
<1>1. ASSUME NEW o \in Opportunities, SettlementLands(o)
      PROVE  [Next]_settlementVars
  BY <1>1, LandingIsSettle DEF Next
<1>2. ASSUME BondMoves
      PROVE  Next
  <2>1. ASSUME NEW s \in Searchers,
               Deposit(s) \/ RequestWithdraw(s) \/ CancelWithdraw(s) \/ WithdrawBond(s)
        PROVE  Bonding
    BY <2>1, HouseConstants DEF Bonding
  <2> QED
    BY <1>2, <2>1, HouseConstants DEF BondMoves, Next, NotSettling
<1>3. ASSUME TimePasses
      PROVE  Next
  BY <1>3 DEF TimePasses, Next, NotSettling
<1>4. ASSUME Bidding
      PROVE  UNCHANGED settlementVars
  BY <1>4 DEF Bidding, BidArrives, NodeReads, JudgeFromCache, JudgeFromChain, Judge,
              ExplainRefusal, DecideBid
<1>5. ASSUME NEW o \in Opportunities,
             \/ SubmitOrder(o) \/ CloseRound(o) \/ PublishReceipt(o) \/ Dispatch(o)
             \/ RecordFails(o) \/ SettlementSubmitted(o)
      PROVE  UNCHANGED settlementVars
  BY <1>5 DEF SubmitOrder, CloseRound, PublishReceipt, Dispatch, RecordFails, SettlementSubmitted
<1>6. ASSUME Crash
      PROVE  UNCHANGED settlementVars
  BY <1>6 DEF Crash
<1>7. ASSUME UNCHANGED vars
      PROVE  UNCHANGED settlementVars
  BY <1>7 DEF vars
<1> QED
  BY <1>1, <1>2, <1>3, <1>4, <1>5, <1>6, <1>7 DEF HouseNext, Order

-----------------------------------------------------------------------------
(* Types *)

\* The types of a bid.
LEMMA BidFacts ==
    ASSUME NEW bid \in Bids
    PROVE  /\ bid.searcher \in Searchers /\ bid.searcher \in Accounts
           /\ bid.opportunityId \in Opportunities
           /\ bid.maxAmountWei \in Nat
BY SettlementConstants, HouseConstants DEF BidType

\* A round with bids has a winner and a price.
LEMMA WinnerTypes ==
    ASSUME HouseTypes, NEW o \in Opportunities, round[o].bids # <<>>
    PROVE  /\ round[o].bids \in Seq(Bids)
           /\ WinningPosition(round[o].bids) \in DOMAIN round[o].bids
           /\ Winner(o) \in Bids
           /\ Winner(o).searcher \in Searchers
           /\ ClearingPrice(round[o].bids) \in Nat
<1>1. round[o].bids \in Seq(Bids)
  BY DEF HouseTypes, Round
<1> QED
  BY <1>1, PriceIsOffered, BidFacts DEF Winner

\* What heldBy leaves behind.
LEMMA SweptTypes ==
    ASSUME HouseTypes
    PROVE  /\ SweptHolds \in [Searchers -> [Opportunities -> Hold]]
           /\ \A s \in Searchers, o \in Opportunities :
                 SweptHolds[s][o] = holds[s][o] \/ SweptHolds[s][o] = None
<1>1. None \in Hold
  BY DEF None, Hold
<1>2. holds \in [Searchers -> [Opportunities -> Hold]]
  BY DEF HouseTypes
<1> QED
  BY <1>1, <1>2 DEF SweptHolds

\* Readings of the collateral, and what is none.
LEMMA ReadingTypes ==
    ASSUME TypeOK
    PROVE  /\ Unread \in Readings
           /\ \A s \in Searchers : Reading(s) \in Readings
           /\ \A reading \in Readings : Cached(reading) \in Readings
<1>1. Unread \in Readings
  BY DEF Unread, Readings
<1>2. ASSUME NEW s \in Searchers
      PROVE  Reading(s) \in Readings
  <2>1. s \in Accounts /\ bond[s] \in Nat /\ withdrawal[s].amount \in Nat /\ now \in Int
    BY HouseConstants DEF TypeOK
  <2>2. Collateral(s) \in Nat
    BY <2>1 DEF Collateral
  <2>3. Charged \subseteq Opportunities
    BY DEF Charged
  <2> QED
    BY <2>1, <2>2, <2>3 DEF Reading, Readings
<1>3. ASSUME NEW reading \in Readings
      PROVE  Cached(reading) \in Readings
  <2>1. now \in Int
    BY DEF TypeOK
  <2> QED
    BY <2>1 DEF Cached, Readings
<1> QED
  BY <1>1, <1>2, <1>3

\* Holds stay holds when one is changed.
LEMMA HoldsEdited ==
    ASSUME HouseTypes, NEW s \in Searchers, NEW o \in Opportunities, NEW h \in Hold
    PROVE  [holds EXCEPT ![s][o] = h] \in [Searchers -> [Opportunities -> Hold]]
BY DEF HouseTypes

\* A check that proceeds stays a check.
LEMMA CheckEdited ==
    ASSUME NEW c \in Check
    PROVE  /\ \A stage \in Stages : [c EXCEPT !.stage = stage] \in Check
           /\ \A reading \in Readings : [c EXCEPT !.seen = reading] \in Check
           /\ \A stage \in Stages :
                 /\ [c EXCEPT !.stage = stage, !.seen = Unread] \in Check
                 /\ [c EXCEPT !.stage = stage, !.own = 0, !.seen = Unread] \in Check
<1>1. Unread \in Readings
  BY DEF Unread, Readings
<1>2. /\ \A d \in Check, stage \in Stages : [d EXCEPT !.stage = stage] \in Check
      /\ \A d \in Check : [d EXCEPT !.own = 0] \in Check
      /\ \A d \in Check, reading \in Readings : [d EXCEPT !.seen = reading] \in Check
  BY DEF Check
<1>3. ASSUME NEW stage
      PROVE  /\ [c EXCEPT !.stage = stage, !.seen = Unread]
                   = [[c EXCEPT !.stage = stage] EXCEPT !.seen = Unread]
             /\ [c EXCEPT !.stage = stage, !.own = 0, !.seen = Unread]
                   = [[[c EXCEPT !.stage = stage] EXCEPT !.own = 0] EXCEPT !.seen = Unread]
  OBVIOUS
<1> QED
  BY <1>1, <1>2, <1>3

\* Messages stay messages while their checks proceed.
LEMMA ChecksEdited ==
    ASSUME HouseTypes, NEW i \in DOMAIN checks
    PROVE  /\ checks[i] \in Check
           /\ \A stage \in Stages : [checks EXCEPT ![i].stage = stage] \in Seq(Check)
           /\ \A reading \in Readings : [checks EXCEPT ![i].seen = reading] \in Seq(Check)
           /\ \A stage \in Stages :
                 /\ [checks EXCEPT ![i] = [@ EXCEPT !.stage = stage, !.seen = Unread]]
                       \in Seq(Check)
                 /\ [checks EXCEPT ![i] = [@ EXCEPT !.stage = stage, !.own = 0, !.seen = Unread]]
                       \in Seq(Check)
<1>1. checks \in Seq(Check) /\ checks[i] \in Check
  BY DEF HouseTypes
<1>2. \A c \in Check : [checks EXCEPT ![i] = c] \in Seq(Check)
  BY <1>1
<1> QED
  BY <1>1, <1>2, CheckEdited

\* What a reply leaves in the cache.
LEMMA ArrivalTypes ==
    ASSUME TypeOK, HouseTypes, NEW i \in DOMAIN checks, Arrives(i) \/ NeverArrives
    PROVE  cache' \in [Searchers -> Readings]
<1>1. checks[i].bid.searcher \in Searchers /\ checks[i].seen \in Readings
  BY ChecksEdited, BidFacts DEF Check
<1>2. Cached(checks[i].seen) \in Readings
  BY <1>1, ReadingTypes
<1> QED
  BY <1>1, <1>2 DEF Arrives, NeverArrives, HouseTypes

\* A message's check changes what it should of the types.
LEMMA BiddingTypes ==
    ASSUME TypeOK, HouseTypes, Bidding
    PROVE  HouseTypes'
<1>1. ASSUME NEW bid \in Bids, BidArrives(bid)
      PROVE  HouseTypes'
  <2> DEFINE s == bid.searcher
             stage == IF Fresh(s) THEN "cached" ELSE "asked"
             seen == IF Fresh(s) THEN cache[s] ELSE Unread
             own == holds[s][bid.opportunityId].wei
  <2>1. s \in Searchers /\ bid.opportunityId \in Opportunities
    BY BidFacts
  <2>2. seen \in Readings /\ own \in Nat /\ stage \in Stages
    BY <2>1, ReadingTypes DEF HouseTypes, Hold, Stages
  <2>3. checks' = Append(checks, [bid |-> bid, own |-> own, stage |-> stage, seen |-> seen])
    BY <1>1 DEF BidArrives
  <2> HIDE DEF s, seen, own, stage
  <2>4. [bid |-> bid, own |-> own, stage |-> stage, seen |-> seen] \in Check
    BY <2>2 DEF Check
  <2>5. checks' \in Seq(Check)
    BY <2>3, <2>4 DEF HouseTypes
  <2> QED
    BY <1>1, <2>5 DEF BidArrives, HouseTypes, bookkeeping, outcomes
<1>2. ASSUME NEW i \in DOMAIN checks, NEW reading, Judge(i, reading),
             cache' \in [Searchers -> Readings]
      PROVE  HouseTypes'
  <2>1. checks' \in Seq(Check)
    <3>1. \E stage \in Stages :
            checks' = [checks EXCEPT ![i] = [@ EXCEPT !.stage = stage, !.own = 0, !.seen = Unread]]
      BY <1>2 DEF Judge, Stages
    <3> QED
      BY <3>1, ChecksEdited
  <2> QED
    BY <1>2, <2>1, SweptTypes DEF Judge, HouseTypes, outcomes
<1>3. ASSUME NEW i \in DOMAIN checks, JudgeFromCache(i)
      PROVE  HouseTypes'
  BY <1>2, <1>3 DEF JudgeFromCache, HouseTypes
<1>4. ASSUME NEW i \in DOMAIN checks, JudgeFromChain(i)
      PROVE  HouseTypes'
  <2>1. cache' \in [Searchers -> Readings]
    BY <1>4, ArrivalTypes DEF JudgeFromChain
  <2> QED
    BY <1>2, <1>4, <2>1 DEF JudgeFromChain
<1>5. ASSUME NEW i \in DOMAIN checks, ExplainRefusal(i)
      PROVE  HouseTypes'
  <2>1. cache' \in [Searchers -> Readings]
    BY <1>5, ArrivalTypes DEF ExplainRefusal
  <2>2. checks' \in Seq(Check)
    <3>1. /\ checks' = [checks EXCEPT ![i] = [@ EXCEPT !.stage = "answered", !.seen = Unread]]
          /\ "answered" \in Stages
      BY <1>5 DEF ExplainRefusal, Stages
    <3> QED
      BY <3>1, ChecksEdited
  <2> QED
    BY <1>5, <2>1, <2>2, SweptTypes DEF ExplainRefusal, HouseTypes, outcomes
<1>6. ASSUME NEW i \in DOMAIN checks, NodeReads(i)
      PROVE  HouseTypes'
  <2>1. Reading(checks[i].bid.searcher) \in Readings
    BY ChecksEdited, BidFacts, ReadingTypes DEF Check
  <2>2. checks' \in Seq(Check)
    BY <1>6, <2>1, ChecksEdited DEF NodeReads
  <2> QED
    BY <1>6, <2>2 DEF NodeReads, HouseTypes, bookkeeping, outcomes
<1>7. ASSUME NEW i \in DOMAIN checks, DecideBid(i)
      PROVE  HouseTypes'
  <2> DEFINE bid == checks[i].bid
             o == bid.opportunityId
  <2>1. checks' \in Seq(Check)
    <3>1. checks' = [checks EXCEPT ![i].stage = "answered"] /\ "answered" \in Stages
      BY <1>7 DEF DecideBid, Stages
    <3> QED
      BY <3>1, ChecksEdited
  <2>2. bid \in Bids
    BY ChecksEdited DEF Check
  <2>3. bid.searcher \in Searchers /\ o \in Opportunities /\ bid.maxAmountWei \in Nat
    BY <2>2, BidFacts
  <2>4. CASE ~Accepts(bid)
    BY <1>7, <2>1, <2>4 DEF DecideBid, HouseTypes, outcomes
  <2>5. CASE Accepts(bid)
    <3>1. [round[o] EXCEPT !.bids = Append(@, bid)] \in Round
      <4>1. \A r \in Round, b \in Bids : [r EXCEPT !.bids = Append(@, b)] \in Round
        BY DEF Round
      <4> QED
        BY <2>2, <2>3, <4>1 DEF HouseTypes
    <3>2. round' \in [Opportunities -> Round]
      BY <1>7, <2>3, <2>5, <3>1 DEF DecideBid, HouseTypes
    <3>3. [at |-> now, wei |-> bid.maxAmountWei] \in Hold
      BY <2>3 DEF Hold, TypeOK
    <3>4. holds' \in [Searchers -> [Opportunities -> Hold]]
      <4>1. holds' = [holds EXCEPT ![bid.searcher][o] = [at |-> now, wei |-> bid.maxAmountWei]]
        BY <1>7, <2>5 DEF DecideBid
      <4> QED
        BY <2>3, <3>3, <4>1, HoldsEdited
    <3>5. acks' \subseteq Bids
      BY <1>7, <2>2, <2>5 DEF DecideBid, HouseTypes
    <3> QED
      BY <1>7, <2>1, <3>2, <3>4, <3>5 DEF DecideBid, HouseTypes, outcomes
  <2> QED
    BY <2>4, <2>5
<1> QED
  BY <1>1, <1>3, <1>4, <1>5, <1>6, <1>7 DEF Bidding

\* An order that moves on keeps its round a round.
LEMMA RoundEdited ==
    ASSUME HouseTypes, NEW o \in Opportunities, NEW phase \in Phases
    PROVE  [round EXCEPT ![o].phase = phase] \in [Opportunities -> Round]
<1>1. \A r \in Round : [r EXCEPT !.phase = phase] \in Round
  BY DEF Round
<1> QED
  BY <1>1 DEF HouseTypes

\* A charge that moves on stays a charge.
LEMMA ChargeEdited ==
    ASSUME HouseTypes, NEW o \in Opportunities, charge[o] \in Charge, NEW state \in ChargeStates
    PROVE  /\ [charge[o] EXCEPT !.state = state] \in Charge
           /\ [charge EXCEPT ![o].state = state] \in [Opportunities -> Charge \cup {NoCharge}]
<1>1. \A c \in Charge : [c EXCEPT !.state = state] \in Charge
  BY DEF Charge
<1> QED
  BY <1>1 DEF HouseTypes

\* A charge that moves on is of the same bid at the same price.
LEMMA ChargeMoves ==
    ASSUME HouseTypes, NEW o \in Opportunities, charge[o] \in Charge, NEW state \in ChargeStates,
           charge'[o] = [charge[o] EXCEPT !.state = state]
    PROVE  charge'[o].bid = charge[o].bid /\ charge'[o].wei = charge[o].wei /\ charge'[o] # NoCharge
<1>1. charge'[o].bid = charge[o].bid /\ charge'[o].wei = charge[o].wei /\ charge'[o].state = state
  BY DEF Charge
<1> QED
  BY <1>1 DEF ChargeStates, NoCharge

\* The published receipt.
LEMMA ReceiptTypes ==
    ASSUME HouseTypes, NEW o \in Opportunities
    PROVE  ReceiptOf(o) \in Receipt
<1>1. round[o].bids \in Seq(Bids)
  BY DEF HouseTypes, Round
<1>2. CASE round[o].bids = <<>>
  BY <1>1, <1>2 DEF ReceiptOf, Receipt
<1>3. CASE round[o].bids # <<>>
  BY <1>1, <1>3, WinnerTypes, HouseConstants DEF ReceiptOf, Receipt
<1> QED
  BY <1>2, <1>3

\* What Auction.close leaves held.
LEMMA ClosedHoldsTypes ==
    ASSUME TypeOK, HouseTypes, NEW o \in Opportunities
    PROVE  HoldsAfterClose(o) \in [Searchers -> [Opportunities -> Hold]]
<1>1. CASE round[o].bids = <<>>
  <2>1. DOMAIN round[o].bids = {}
    BY <1>1
  <2>2. HoldsAfterClose(o) = [s \in Searchers |-> holds[s]]
    BY <2>1 DEF HoldsAfterClose
  <2> QED
    BY <2>2 DEF HouseTypes
<1>2. CASE round[o].bids # <<>>
  <2>1. [at |-> now, wei |-> ClearingPrice(round[o].bids)] \in Hold /\ None \in Hold
    BY <1>2, WinnerTypes DEF Hold, TypeOK, None
  <2>2. \A s \in Searchers : holds[s] \in [Opportunities -> Hold]
    BY DEF HouseTypes
  <2>3. \A s \in Searchers, h \in Hold : [holds[s] EXCEPT ![o] = h] \in [Opportunities -> Hold]
    BY <2>2
  <2> QED
    BY <2>1, <2>2, <2>3 DEF HoldsAfterClose
<1> QED
  BY <1>1, <1>2

\* The types through a step of an order.
LEMMA OrderTypes ==
    ASSUME TypeOK, HouseTypes, NEW o \in Opportunities, ChargeFollows(o),
           SubmitOrder(o) \/ Order(o) \/ RecordFails(o)
    PROVE  HouseTypes'
<1> USE DEF bookkeeping, outcomes
<1>1. CASE SubmitOrder(o)
  <2>1. \A biddable \in BOOLEAN :
          [phase |-> "open", biddable |-> biddable, openedAt |-> now, bids |-> <<>>] \in Round
    BY DEF Round, Phases, TypeOK
  <2>2. round' \in [Opportunities -> Round]
    BY <1>1, <2>1 DEF SubmitOrder, HouseTypes
  <2> QED
    BY <1>1, <2>2 DEF SubmitOrder, HouseTypes
<1>2. CASE CloseRound(o)
  <2>1. round' \in [Opportunities -> Round]
    BY <1>2, RoundEdited DEF CloseRound, Phases
  <2>2. holds' \in [Searchers -> [Opportunities -> Hold]]
    BY <1>2, ClosedHoldsTypes DEF CloseRound
  <2> QED
    BY <1>2, <2>1, <2>2 DEF CloseRound, HouseTypes
<1>3. CASE PublishReceipt(o)
  <2>1. round' \in [Opportunities -> Round]
    BY <1>3, RoundEdited DEF PublishReceipt, Phases
  <2>2. receipts' \in [Opportunities -> Receipt]
    BY <1>3, ReceiptTypes DEF PublishReceipt, HouseTypes
  <2>3. UNCHANGED <<checks, cache, holds, acks, charge>>
    BY <1>3 DEF PublishReceipt, bookkeeping
  <2> QED
    BY <2>1, <2>2, <2>3 DEF HouseTypes
<1>4. CASE Dispatch(o)
  <2>1. round' \in [Opportunities -> Round]
    <3>1. \/ round' = [round EXCEPT ![o].phase = "done"]
          \/ round' = [round EXCEPT ![o].phase = "dispatched"]
      BY <1>4 DEF Dispatch
    <3>2. "done" \in Phases /\ "dispatched" \in Phases
      BY DEF Phases
    <3>3. /\ [round EXCEPT ![o].phase = "done"] \in [Opportunities -> Round]
          /\ [round EXCEPT ![o].phase = "dispatched"] \in [Opportunities -> Round]
      BY <3>2, RoundEdited
    <3> QED
      BY ONLY <3>1, <3>3
  <2>2. charge' \in [Opportunities -> Charge \cup {NoCharge}]
    <3>1. CASE round[o].bids = <<>>
      BY <1>4, <3>1 DEF Dispatch, HouseTypes
    <3>2. CASE round[o].bids # <<>>
      <4>1. \A user \in Users, app \in Payees \cup {ZeroAddress} : ChargeOf(o, user, app) \in Charge
        <5> TAKE user \in Users, app \in Payees \cup {ZeroAddress}
        <5>1. Winner(o) \in Bids /\ ClearingPrice(round[o].bids) \in Nat
          BY <3>2, WinnerTypes
        <5>2. now \in Int
          BY DEF TypeOK
        <5>3. "submitting" \in ChargeStates
          BY DEF ChargeStates
        <5> QED
          BY ONLY <5>1, <5>2, <5>3, user \in Users, app \in Payees \cup {ZeroAddress}
             DEF ChargeOf, Charge
      <4>2. PICK user \in Users, app \in Payees \cup {ZeroAddress} :
              charge' = [charge EXCEPT ![o] = ChargeOf(o, user, app)]
        BY <1>4, <3>2 DEF Dispatch
      <4> QED
        BY <4>1, <4>2 DEF HouseTypes
    <3> QED
      BY <3>1, <3>2
  <2> QED
    BY <1>4, <2>1, <2>2 DEF Dispatch, HouseTypes
<1>5. CASE RecordFails(o)
  <2>1. round' \in [Opportunities -> Round]
    BY <1>5, RoundEdited DEF RecordFails, Phases
  <2> QED
    BY <1>5, <2>1 DEF RecordFails, HouseTypes
<1>6. CASE SettlementSubmitted(o)
  <2>1. round' \in [Opportunities -> Round]
    BY <1>6, RoundEdited DEF SettlementSubmitted, Phases
  <2>2. charge[o] \in Charge
    BY <1>6 DEF SettlementSubmitted, ChargeFollows, HouseTypes
  <2>3. \E state \in ChargeStates : charge' = [charge EXCEPT ![o].state = state]
    BY <1>6 DEF SettlementSubmitted, ChargeStates
  <2>4. charge[o].bid.searcher \in Searchers
    BY <2>2, BidFacts DEF Charge
  <2>5. None \in Hold
    BY DEF None, Hold
  <2>6. holds' \in [Searchers -> [Opportunities -> Hold]]
    BY <1>6, <2>4, <2>5, HoldsEdited DEF SettlementSubmitted, ReleaseWinner
  <2>7. charge' \in [Opportunities -> Charge \cup {NoCharge}]
    BY <2>2, <2>3, ChargeEdited
  <2> QED
    BY <1>6, <2>1, <2>6, <2>7 DEF SettlementSubmitted, HouseTypes
<1>7. CASE SettlementLands(o)
  <2>1. \E state \in ChargeStates : charge' = [charge EXCEPT ![o].state = state]
    BY <1>7 DEF SettlementLands, ChargeStates
  <2>2. charge' \in [Opportunities -> Charge \cup {NoCharge}]
    BY <1>7, <2>1, ChargeEdited, PendingIsCharge DEF SettlementLands
  <2> QED
    BY <1>7, <2>2 DEF SettlementLands, HouseTypes
<1> QED
  BY <1>1, <1>2, <1>3, <1>4, <1>5, <1>6, <1>7 DEF Order

\* What a restart makes of the charges: those being submitted were sent or not.
LEMMA CrashCharges ==
    ASSUME HouseTypes, Crash, NEW o \in Opportunities, ChargeFollows(o)
    PROVE  IF round[o].phase = "dispatched"
           THEN /\ charge[o] \in Charge
                /\ \E state \in {"pending", "unsent"} : charge'[o] = [charge[o] EXCEPT !.state = state]
           ELSE charge'[o] = charge[o]
BY DEF Crash, HouseTypes, ChargeFollows

\* The types through a restart.
LEMMA CrashTypes ==
    ASSUME TypeOK, HouseTypes, \A o \in Opportunities : ChargeFollows(o), Crash
    PROVE  HouseTypes'
<1>1. round' \in [Opportunities -> Round]
  <2>1. \A r \in Round, phase \in Phases : [r EXCEPT !.phase = phase] \in Round
    BY DEF Round
  <2>2. \A o \in Opportunities : round[o] \in Round
    BY DEF HouseTypes
  <2> QED
    BY <2>1, <2>2 DEF Crash, Phases
<1>2. charge' \in [Opportunities -> Charge \cup {NoCharge}]
  <2>1. \A o \in Opportunities : charge'[o] \in Charge \cup {NoCharge}
    <3>1. ASSUME NEW o \in Opportunities, round[o].phase = "dispatched"
          PROVE  charge'[o] \in Charge
      <4>1. charge[o] \in Charge
        BY <3>1, CrashCharges
      <4>2. PICK state \in {"pending", "unsent"} : charge'[o] = [charge[o] EXCEPT !.state = state]
        BY <3>1, CrashCharges
      <4>3. state \in ChargeStates
        BY DEF ChargeStates
      <4> QED
        BY <4>1, <4>2, <4>3, ChargeEdited
    <3>2. ASSUME NEW o \in Opportunities, round[o].phase # "dispatched"
          PROVE  charge'[o] \in Charge \cup {NoCharge}
      BY <3>2, CrashCharges DEF HouseTypes
    <3> QED
      BY <3>1, <3>2
  <2>2. charge' = [o \in Opportunities |-> charge'[o]]
    BY DEF Crash
  <2> QED
    BY <2>1, <2>2
<1>3. checks' \in Seq(Check)
  <2> DEFINE answered(i) == [checks[i] EXCEPT !.stage = "answered", !.own = 0, !.seen = Unread]
  <2>1. /\ Len(checks) \in Nat /\ DOMAIN checks = 1..Len(checks)
        /\ \A i \in DOMAIN checks : checks[i] \in Check
    BY DEF HouseTypes
  <2>2. "answered" \in Stages
    BY DEF Stages
  <2>3. \A i \in 1..Len(checks) : answered(i) \in Check
    BY <2>1, <2>2, CheckEdited
  <2>4. checks' = [i \in 1..Len(checks) |-> answered(i)]
    BY <2>1 DEF Crash
  <2> HIDE DEF answered
  <2>5. [i \in 1..Len(checks) |-> answered(i)] \in Seq(Check)
    BY <2>1, <2>3
  <2> QED
    BY <2>4, <2>5
<1>4. None \in Hold /\ Unread \in Readings
  BY ReadingTypes DEF None, Hold
<1>5. cache' \in [Searchers -> Readings] /\ holds' \in [Searchers -> [Opportunities -> Hold]]
  BY <1>4 DEF Crash
<1> QED
  BY <1>1, <1>2, <1>3, <1>5 DEF Crash, HouseTypes

\* The types through every step.
LEMMA HouseTypesStep ==
    ASSUME HouseInv, [HouseNext]_vars
    PROVE  HouseTypes'
<1> USE DEF HouseInv, Consistent
<1>1. ASSUME BondMoves \/ TimePasses \/ UNCHANGED vars
      PROVE  HouseTypes'
  BY <1>1 DEF BondMoves, TimePasses, vars, houseVars, bookkeeping, outcomes, HouseTypes
<1>2. ASSUME NEW o \in Opportunities, SubmitOrder(o) \/ Order(o) \/ RecordFails(o)
      PROVE  HouseTypes'
  BY <1>2, OrderTypes
<1> QED
  BY <1>1, <1>2, BiddingTypes, CrashTypes DEF HouseNext

-----------------------------------------------------------------------------
(* Consistency *)

\* A step that leaves an order alone, but perhaps drops a hold.
Untouched(o) ==
    /\ round'[o] = round[o]
    /\ receipts'[o] = receipts[o]
    /\ charge'[o] = charge[o]
    /\ settled'[o] = settled[o]
    /\ {bid \in acks' : bid.opportunityId = o} = {bid \in acks : bid.opportunityId = o}
    /\ \A s \in Searchers : holds'[s][o] \in {holds[s][o], None}

\* What is said of a round's bids stays when they stay.
LEMMA SameBids ==
    ASSUME NEW o \in Opportunities, round'[o].bids = round[o].bids
    PROVE  Winner(o)' = Winner(o) /\ ReceiptOf(o)' = ReceiptOf(o)
BY DEF Winner, ReceiptOf

\* An order that is left alone stays consistent.
LEMMA UntouchedStays ==
    ASSUME NEW o \in Opportunities, Consistent(o), Untouched(o)
    PROVE  Consistent(o)'
<1>1. Winner(o)' = Winner(o) /\ ReceiptOf(o)' = ReceiptOf(o)
  BY SameBids DEF Untouched
<1>2. BidsAreAcks(o)'
  BY DEF Consistent, Untouched, BidsAreAcks
<1>3. ReceiptFollows(o)'
  BY <1>1 DEF Consistent, Untouched, ReceiptFollows
<1>4. ChargeFollows(o)'
  BY <1>1 DEF Consistent, Untouched, ChargeFollows
<1>5. HoldsFollow(o)'
  BY <1>1 DEF Consistent, Untouched, HoldsFollow
<1> QED
  BY <1>2, <1>3, <1>4, <1>5 DEF Consistent

\* Before a bid is decided nothing but the holds moves, and those only by expiring.
LEMMA ChecksTouchNothing ==
    ASSUME HouseTypes, NEW o \in Opportunities, Bidding, \A i \in DOMAIN checks : ~DecideBid(i)
    PROVE  Untouched(o)
<1>1. UNCHANGED <<round, receipts, charge, settled, acks>>
  BY DEF Bidding, BidArrives, NodeReads, JudgeFromCache, JudgeFromChain, Judge,
         ExplainRefusal, settlementVars, outcomes
<1>2. holds' = holds \/ holds' = SweptHolds
  BY DEF Bidding, BidArrives, NodeReads, JudgeFromCache, JudgeFromChain, Judge,
         ExplainRefusal, bookkeeping
<1> QED
  BY <1>1, <1>2, SweptTypes DEF Untouched

\* Bonds and time move nothing of an order.
LEMMA ChainTouchesNothing ==
    ASSUME NEW o \in Opportunities, BondMoves \/ TimePasses \/ UNCHANGED vars
    PROVE  Untouched(o)
<1>1. settled' = settled
  BY DEF BondMoves, TimePasses, vars, Deposit, RequestWithdraw, CancelWithdraw, WithdrawBond,
         Matured, CallReturns, Tick, settlementVars
<1>2. UNCHANGED <<round, receipts, charge, acks, holds>>
  BY DEF BondMoves, TimePasses, vars, houseVars, outcomes, bookkeeping
<1> QED
  BY <1>1, <1>2 DEF Untouched

\* submitBid and hold: the bid joins its round, the acknowledgements and the holds.
LEMMA DecideStep ==
    ASSUME HouseInv, NEW i \in DOMAIN checks, DecideBid(i), NEW o \in Opportunities
    PROVE  Consistent(o)'
<1> DEFINE bid == checks[i].bid
<1>1. bid \in Bids /\ bid.searcher \in Searchers
  BY ChecksEdited, BidFacts DEF HouseInv, Check
<1>2. UNCHANGED <<receipts, charge, settled>>
  BY DEF DecideBid, outcomes, settlementVars
<1>3. Consistent(o) /\ round[o] \in Round
  BY DEF HouseInv, HouseTypes
<1>4. CASE ~Accepts(bid)
  <2>1. Untouched(o)
    BY <1>2, <1>4 DEF DecideBid, Untouched
  <2> QED
    BY <1>3, <2>1, UntouchedStays
<1>5. CASE Accepts(bid) /\ bid.opportunityId # o
  <2>1. round'[o] = round[o]
    BY <1>5 DEF DecideBid, HouseInv, HouseTypes
  <2>2. acks' = acks \cup {bid}
    BY <1>5 DEF DecideBid
  <2>3. \A s \in Searchers : holds'[s][o] = holds[s][o]
    BY <1>1, <1>5 DEF DecideBid, HouseInv, HouseTypes
  <2>4. Untouched(o)
    BY <1>2, <1>5, <2>1, <2>2, <2>3 DEF Untouched
  <2> QED
    BY <1>3, <2>4, UntouchedStays
<1>6. CASE Accepts(bid) /\ bid.opportunityId = o
  <2>1. round'[o] = [round[o] EXCEPT !.bids = Append(@, bid)] /\ round[o].phase = "open"
    BY <1>6 DEF DecideBid, HouseInv, HouseTypes, Accepts
  <2>2. acks' = acks \cup {bid}
    BY <1>6 DEF DecideBid
  <2>3. \A s \in Searchers : s # bid.searcher => holds'[s][o] = holds[s][o]
    BY <1>1, <1>6 DEF DecideBid, HouseInv, HouseTypes
  <2>4. round'[o].bids = Append(round[o].bids, bid) /\ round'[o].phase = "open"
        /\ round[o].bids \in Seq(Bids)
    BY <1>3, <2>1 DEF Round
  <2>5. {round'[o].bids[k] : k \in DOMAIN round'[o].bids}
          = {round[o].bids[k] : k \in DOMAIN round[o].bids} \cup {bid}
    <3> DEFINE bids == round[o].bids
    <3> HIDE DEF bids, bid
    <3>1. bids \in Seq(Bids) /\ round'[o].bids = Append(bids, bid)
      BY <2>4 DEF bids
    <3>2. /\ Len(bids) \in Nat /\ DOMAIN bids = 1..Len(bids)
          /\ DOMAIN round'[o].bids = 1..(Len(bids) + 1)
          /\ \A k \in 1..Len(bids) : round'[o].bids[k] = bids[k]
          /\ round'[o].bids[Len(bids) + 1] = bid
      BY <3>1, <1>1
    <3>3. \A k : k \in 1..(Len(bids) + 1) <=> k \in 1..Len(bids) \/ k = Len(bids) + 1
      BY <3>2
    <3>4. {round'[o].bids[k] : k \in DOMAIN round'[o].bids} = {bids[k] : k \in DOMAIN bids} \cup {bid}
      BY ONLY <3>2, <3>3
    <3> QED
      BY <3>4 DEF bids
  <2>6. BidsAreAcks(o)'
    BY <1>3, <1>6, <2>2, <2>5 DEF BidsAreAcks, Consistent
  <2>7. ReceiptFollows(o)' /\ ChargeFollows(o)'
    BY <1>2, <1>3, <2>1, <2>4 DEF Consistent, ReceiptFollows, ChargeFollows
  <2>8. HoldsFollow(o)'
    <3> SUFFICES ASSUME NEW s \in Searchers, holds'[s][o] # None
                 PROVE  \E k \in DOMAIN round'[o].bids : round'[o].bids[k].searcher = s
      BY <2>4 DEF HoldsFollow
    <3>1. CASE s = bid.searcher
      BY <2>5, <3>1
    <3>2. CASE s # bid.searcher
      <4>1. PICK j \in DOMAIN round[o].bids : round[o].bids[j].searcher = s
        BY <1>3, <2>3, <3>2 DEF Consistent, HoldsFollow
      <4>2. round[o].bids[j] \in {round'[o].bids[k] : k \in DOMAIN round'[o].bids}
        BY <2>5
      <4> QED
        BY <4>1, <4>2
    <3> QED
      BY <3>1, <3>2
  <2> QED
    BY <2>6, <2>7, <2>8 DEF Consistent
<1> QED
  BY <1>4, <1>5, <1>6

\* The winner's bid is for the round it won.
LEMMA WinnerOfRound ==
    ASSUME HouseInv, NEW o \in Opportunities, round[o].bids # <<>>
    PROVE  Winner(o).opportunityId = o
<1>1. WinningPosition(round[o].bids) \in DOMAIN round[o].bids
  BY WinnerTypes DEF HouseInv
<1>2. Winner(o) \in {bid \in acks : bid.opportunityId = o}
  BY <1>1 DEF Winner, HouseInv, Consistent, BidsAreAcks
<1> QED
  BY <1>2

\* The settlement of an order that lands writes that order's event.
LEMMA LandingStep ==
    ASSUME HouseInv, NEW o \in Opportunities, SettlementLands(o)
    PROVE  /\ charge[o] \in Charge
           /\ \E state \in ChargeStates : charge' = [charge EXCEPT ![o].state = state]
           /\ \A p \in Opportunities \ {o} : settled'[p] = settled[p]
           /\ settled'[o] # NotSettled =>
                 \/ settled'[o] = settled[o]
                 \/ /\ settled'[o].searcher = charge[o].bid.searcher
                    /\ settled'[o].amount = charge[o].wei
<1> DEFINE c == charge[o]
<1>1. c \in Charge
  BY PendingIsCharge DEF HouseInv, SettlementLands
<1>2. c # NoCharge
  BY DEF SettlementLands, NoCharge
<1>3. c.bid.opportunityId = o
  BY <1>2, WinnerOfRound DEF HouseInv, Consistent, ChargeFollows
<1>4. \E state \in ChargeStates : charge' = [charge EXCEPT ![o].state = state]
  BY DEF SettlementLands, ChargeStates
<1>5. CASE ~WouldSettle(c)
  BY <1>1, <1>4, <1>5 DEF SettlementLands, settlementVars
<1>6. CASE WouldSettle(c)
  <2>1. Settle(auctioneer, c.bid, c.wei, c.user, c.app)
    BY <1>6 DEF SettlementLands
  <2>2. settled \in [Opportunities -> SettledEvent \cup {NotSettled}]
    BY DEF HouseInv, TypeOK
  <2> HIDE DEF c
  <2>3. /\ \A p \in Opportunities \ {o} : settled'[p] = settled[p]
        /\ settled'[o].searcher = c.bid.searcher
        /\ settled'[o].amount = c.wei
    BY <1>3, <2>1, <2>2 DEF Settle
  <2> QED
    BY <1>1, <1>4, <2>3 DEF c
<1> QED
  BY <1>5, <1>6

\* A step of one order leaves the others alone.
LEMMA OthersUntouched ==
    ASSUME HouseInv, NEW o \in Opportunities, SubmitOrder(o) \/ Order(o) \/ RecordFails(o),
           NEW p \in Opportunities, p # o
    PROVE  Untouched(p)
<1> USE DEF HouseInv, HouseTypes
<1>1. ASSUME SubmitOrder(o) \/ PublishReceipt(o) \/ Dispatch(o) \/ RecordFails(o)
      PROVE  Untouched(p)
  <2>1. round'[p] = round[p]
    BY <1>1 DEF SubmitOrder, PublishReceipt, Dispatch, RecordFails
  <2>2. receipts'[p] = receipts[p]
    BY <1>1 DEF SubmitOrder, PublishReceipt, Dispatch, RecordFails, outcomes
  <2>3. charge'[p] = charge[p]
    BY <1>1 DEF SubmitOrder, PublishReceipt, Dispatch, RecordFails, outcomes
  <2>4. UNCHANGED <<settled, acks, holds>>
    BY <1>1 DEF SubmitOrder, PublishReceipt, Dispatch, RecordFails, settlementVars, bookkeeping
  <2> QED
    BY <2>1, <2>2, <2>3, <2>4 DEF Untouched
<1>2. CASE CloseRound(o)
  <2>1. UNCHANGED <<settled, acks, receipts, charge>> /\ round'[p] = round[p]
    BY <1>2 DEF CloseRound, settlementVars, outcomes
  <2>2. \A s \in Searchers : holds'[s][p] = holds[s][p]
    BY <1>2 DEF CloseRound, HoldsAfterClose
  <2> QED
    BY <2>1, <2>2 DEF Untouched
<1>3. CASE SettlementSubmitted(o)
  <2>1. UNCHANGED <<settled, acks, receipts>> /\ round'[p] = round[p]
    BY <1>3 DEF SettlementSubmitted, settlementVars
  <2>2. charge'[p] = charge[p]
    BY <1>3 DEF SettlementSubmitted
  <2>3. \A s \in Searchers : holds'[s][p] = holds[s][p]
    BY <1>3 DEF SettlementSubmitted, ReleaseWinner
  <2> QED
    BY <2>1, <2>2, <2>3 DEF Untouched
<1>4. CASE SettlementLands(o)
  <2>1. UNCHANGED <<round, acks, receipts, holds>>
    BY <1>4 DEF SettlementLands, bookkeeping
  <2>2. charge'[p] = charge[p] /\ settled'[p] = settled[p]
    BY <1>4, LandingStep
  <2> QED
    BY <2>1, <2>2 DEF Untouched
<1> QED
  BY <1>1, <1>2, <1>3, <1>4 DEF Order

\* The handler of an order, from its submission to the transaction that settles it.
LEMMA OrderStep ==
    ASSUME HouseInv, NEW o \in Opportunities, SubmitOrder(o) \/ Order(o) \/ RecordFails(o)
    PROVE  Consistent(o)'
<1>0. Consistent(o) /\ round[o] \in Round
  BY DEF HouseInv, HouseTypes
<1>1. CASE SubmitOrder(o)
  <2>1. round'[o].phase = "open" /\ round'[o].bids = <<>>
    BY <1>1 DEF SubmitOrder, HouseInv, HouseTypes
  <2>2. round[o].phase = "absent" /\ UNCHANGED <<settled, receipts, charge, acks, holds>>
    BY <1>1 DEF SubmitOrder, settlementVars, outcomes, bookkeeping
  <2>3. round[o].bids = <<>>
    BY <1>0, <2>2 DEF Consistent, ReceiptFollows
  <2>4. BidsAreAcks(o)'
    BY <1>0, <2>1, <2>2, <2>3 DEF Consistent, BidsAreAcks
  <2>5. ReceiptFollows(o)' /\ ChargeFollows(o)' /\ HoldsFollow(o)'
    BY <1>0, <2>1, <2>2 DEF Consistent, ReceiptFollows, ChargeFollows, HoldsFollow
  <2> QED
    BY <2>4, <2>5 DEF Consistent
<1>2. CASE CloseRound(o)
  <2>1. round'[o].phase = "closed" /\ round'[o].bids = round[o].bids
    BY <1>0, <1>2 DEF CloseRound, HouseInv, HouseTypes, Round
  <2>2. round[o].phase = "open" /\ UNCHANGED <<settled, receipts, charge, acks>>
    BY <1>2 DEF CloseRound, Closable, settlementVars, outcomes
  <2>3. Winner(o)' = Winner(o)
    BY <2>1, SameBids
  <2>4. BidsAreAcks(o)' /\ ReceiptFollows(o)' /\ ChargeFollows(o)'
    BY <1>0, <2>1, <2>2 DEF Consistent, BidsAreAcks, ReceiptFollows, ChargeFollows
  <2>5. HoldsFollow(o)'
    <3> SUFFICES ASSUME NEW s \in Searchers, holds'[s][o] # None
                 PROVE  /\ \E i \in DOMAIN round[o].bids : round[o].bids[i].searcher = s
                        /\ s = Winner(o).searcher
      BY <2>1, <2>3 DEF HoldsFollow
    <3>1. holds'[s] = HoldsAfterClose(o)[s] /\ holds[s] \in [Opportunities -> Hold]
      BY <1>2 DEF CloseRound, HouseInv, HouseTypes
    <3>2. \E i \in DOMAIN round[o].bids : round[o].bids[i].searcher = s
      <4> SUFFICES ASSUME \A i \in DOMAIN round[o].bids : round[o].bids[i].searcher # s
                   PROVE  FALSE
        OBVIOUS
      <4>1. holds'[s] = holds[s]
        BY <3>1 DEF HoldsAfterClose
      <4> QED
        BY <1>0, <4>1 DEF Consistent, HoldsFollow
    <3>3. s = Winner(o).searcher
      BY <3>1, <3>2 DEF HoldsAfterClose
    <3> QED
      BY <3>2, <3>3
  <2> QED
    BY <2>4, <2>5 DEF Consistent
<1>3. CASE PublishReceipt(o)
  <2>1. round'[o].phase = "published" /\ round'[o].bids = round[o].bids
    BY <1>0, <1>3 DEF PublishReceipt, HouseInv, HouseTypes, Round
  <2>2. round[o].phase = "closed" /\ UNCHANGED <<settled, charge, acks, holds>>
    BY <1>3 DEF PublishReceipt, settlementVars, bookkeeping
  <2>3. Winner(o)' = Winner(o) /\ ReceiptOf(o)' = ReceiptOf(o)
    BY <2>1, SameBids
  <2>4. receipts'[o] = ReceiptOf(o)
    BY <1>3 DEF PublishReceipt, HouseInv, HouseTypes
  <2>5. BidsAreAcks(o)' /\ ChargeFollows(o)'
    BY <1>0, <2>1, <2>2 DEF Consistent, BidsAreAcks, ChargeFollows
  <2>6. ReceiptFollows(o)'
    BY <2>1, <2>3, <2>4 DEF ReceiptFollows
  <2>7. HoldsFollow(o)'
    BY <1>0, <2>1, <2>2, <2>3 DEF Consistent, HoldsFollow
  <2> QED
    BY <2>5, <2>6, <2>7 DEF Consistent
<1>4. CASE Dispatch(o)
  <2>1. /\ round'[o].bids = round[o].bids
        /\ round'[o].phase = IF round[o].bids = <<>> THEN "done" ELSE "dispatched"
    BY <1>0, <1>4 DEF Dispatch, HouseInv, HouseTypes, Round
  <2>2. round[o].phase = "published" /\ UNCHANGED <<settled, receipts, acks, holds>>
    BY <1>4 DEF Dispatch, settlementVars, bookkeeping
  <2>3. Winner(o)' = Winner(o) /\ ReceiptOf(o)' = ReceiptOf(o)
    BY <2>1, SameBids
  <2>4. BidsAreAcks(o)' /\ ReceiptFollows(o)'
    BY <1>0, <2>1, <2>2, <2>3 DEF Consistent, BidsAreAcks, ReceiptFollows
  <2>5. HoldsFollow(o)'
    <3>1. CASE round[o].bids = <<>>
      BY <1>0, <2>2, <3>1 DEF Consistent, HoldsFollow
    <3>2. CASE round[o].bids # <<>>
      BY <1>0, <2>1, <2>2, <2>3, <3>2 DEF Consistent, HoldsFollow
    <3> QED
      BY <3>1, <3>2
  <2>6. charge[o] = NoCharge /\ settled[o] = NotSettled
    BY <1>0, <2>2 DEF Consistent, ChargeFollows
  <2>7. ChargeFollows(o)'
    <3>1. CASE round[o].bids = <<>>
      BY <1>4, <2>1, <2>2, <2>6, <3>1 DEF Dispatch, ChargeFollows
    <3>2. CASE round[o].bids # <<>>
      <4>1. PICK user \in Users, app \in Payees \cup {ZeroAddress} :
              charge' = [charge EXCEPT ![o] = ChargeOf(o, user, app)]
        BY <1>4, <3>2 DEF Dispatch
      <4>2. /\ charge'[o].bid = Winner(o) /\ charge'[o].wei = ClearingPrice(round[o].bids)
            /\ charge'[o].state = "submitting"
        BY <4>1 DEF ChargeOf, HouseInv, HouseTypes
      <4>3. charge'[o] # NoCharge
        BY <4>2 DEF NoCharge
      <4> QED
        BY <2>1, <2>2, <2>3, <2>6, <3>2, <4>2, <4>3 DEF ChargeFollows
    <3> QED
      BY <3>1, <3>2
  <2> QED
    BY <2>4, <2>5, <2>7 DEF Consistent
<1>5. CASE RecordFails(o)
  <2>1. round'[o].phase = "failed" /\ round'[o].bids = round[o].bids
    BY <1>0, <1>5 DEF RecordFails, HouseInv, HouseTypes, Round
  <2>2. round[o].phase = "published" /\ UNCHANGED <<settled, receipts, charge, acks, holds>>
    BY <1>5 DEF RecordFails, settlementVars, bookkeeping, outcomes
  <2>3. Winner(o)' = Winner(o) /\ ReceiptOf(o)' = ReceiptOf(o)
    BY <2>1, SameBids
  <2>4. BidsAreAcks(o)' /\ ReceiptFollows(o)'
    BY <1>0, <2>1, <2>2, <2>3 DEF Consistent, BidsAreAcks, ReceiptFollows
  <2>5. ChargeFollows(o)' /\ HoldsFollow(o)'
    BY <1>0, <2>1, <2>2, <2>3 DEF Consistent, ChargeFollows, HoldsFollow
  <2> QED
    BY <2>4, <2>5 DEF Consistent
<1>6. CASE SettlementSubmitted(o)
  <2>1. round'[o].phase = "done" /\ round'[o].bids = round[o].bids
    BY <1>0, <1>6 DEF SettlementSubmitted, HouseInv, HouseTypes, Round
  <2>2. round[o].phase = "dispatched" /\ UNCHANGED <<settled, receipts, acks>>
    BY <1>6 DEF SettlementSubmitted, settlementVars
  <2>3. Winner(o)' = Winner(o) /\ ReceiptOf(o)' = ReceiptOf(o)
    BY <2>1, SameBids
  <2>4. BidsAreAcks(o)' /\ ReceiptFollows(o)'
    BY <1>0, <2>1, <2>2, <2>3 DEF Consistent, BidsAreAcks, ReceiptFollows
  <2>5. charge[o] \in Charge /\ charge[o] # NoCharge
    BY <1>0, <2>2 DEF Consistent, ChargeFollows, HouseInv, HouseTypes
  <2>6. \E state \in ChargeStates : charge' = [charge EXCEPT ![o].state = state]
    BY <1>6 DEF SettlementSubmitted, ChargeStates
  <2>7. ChargeFollows(o)'
    BY <1>0, <2>1, <2>2, <2>3, <2>5, <2>6, ChargeMoves DEF Consistent, ChargeFollows, HouseInv
  <2>8. HoldsFollow(o)'
    <3>1. charge[o].bid.searcher = Winner(o).searcher
      BY <1>0, <2>5 DEF Consistent, ChargeFollows
    <3>2. \A s \in Searchers : holds'[s][o] = IF s = Winner(o).searcher THEN None ELSE holds[s][o]
      BY <1>6, <3>1 DEF SettlementSubmitted, ReleaseWinner, HouseInv, HouseTypes
    <3> QED
      BY <1>0, <2>2, <3>2 DEF Consistent, HoldsFollow
  <2> QED
    BY <2>4, <2>7, <2>8 DEF Consistent
<1>7. CASE SettlementLands(o)
  <2>1. UNCHANGED <<round, acks, receipts, holds>>
    BY <1>7 DEF SettlementLands, bookkeeping
  <2>2. Winner(o)' = Winner(o) /\ ReceiptOf(o)' = ReceiptOf(o)
    BY <2>1, SameBids
  <2>3. BidsAreAcks(o)' /\ ReceiptFollows(o)' /\ HoldsFollow(o)'
    BY <1>0, <2>1, <2>2 DEF Consistent, BidsAreAcks, ReceiptFollows, HoldsFollow
  <2>4. ChargeFollows(o)'
    <3>1. charge[o] # NoCharge
      BY <1>7 DEF SettlementLands, NoCharge
    <3>2. charge[o] \in Charge /\ HouseTypes
      BY <1>7, LandingStep DEF HouseInv
    <3>3. PICK state \in ChargeStates : charge' = [charge EXCEPT ![o].state = state]
      BY <1>7, LandingStep
    <3>4. charge'[o] = [charge[o] EXCEPT !.state = state]
      BY <3>2, <3>3 DEF HouseTypes
    <3>5. charge'[o].bid = charge[o].bid /\ charge'[o].wei = charge[o].wei /\ charge'[o] # NoCharge
      BY <3>2, <3>4, ChargeMoves
    <3>6. settled'[o] # NotSettled =>
            \/ settled'[o] = settled[o]
            \/ settled'[o].searcher = charge[o].bid.searcher /\ settled'[o].amount = charge[o].wei
      BY <1>7, LandingStep
    <3> QED
      BY <1>0, <2>1, <2>2, <3>1, <3>5, <3>6 DEF Consistent, ChargeFollows
  <2> QED
    BY <2>3, <2>4 DEF Consistent
<1> QED
  BY <1>1, <1>2, <1>3, <1>4, <1>5, <1>6, <1>7 DEF Order

\* A restart forgets the holds and what was under way; receipts, charges and the
\* acknowledgements that searchers have stay what they were.
LEMMA CrashStep ==
    ASSUME HouseInv, Crash, NEW o \in Opportunities
    PROVE  Consistent(o)'
<1>0. Consistent(o) /\ round[o] \in Round
  BY DEF HouseInv, HouseTypes
<1>1. UNCHANGED <<settled, acks, receipts>> /\ \A s \in Searchers : holds'[s][o] = None
  BY DEF Crash, settlementVars
<1>2. round'[o].bids = round[o].bids
      /\ \/ round'[o].phase = round[o].phase
            /\ round[o].phase \notin {"open", "closed", "published", "dispatched"}
         \/ round'[o].phase = "lost" /\ round[o].phase \in {"open", "closed", "published"}
         \/ round'[o].phase = "done" /\ round[o].phase = "dispatched"
  BY <1>0 DEF Crash, Round
<1>3. Winner(o)' = Winner(o) /\ ReceiptOf(o)' = ReceiptOf(o)
  BY <1>2, SameBids
<1>4. BidsAreAcks(o)' /\ HoldsFollow(o)'
  BY <1>0, <1>1, <1>2 DEF Consistent, BidsAreAcks, HoldsFollow
<1>5. ReceiptFollows(o)'
  BY <1>0, <1>1, <1>2, <1>3 DEF Consistent, ReceiptFollows
<1>6. ChargeFollows(o)'
  <2>0. ChargeFollows(o) /\ HouseTypes
    BY <1>0 DEF Consistent, HouseInv
  <2>1. CASE round[o].phase # "dispatched"
    <3>1. charge'[o] = charge[o]
      BY <2>0, <2>1, CrashCharges
    <3> QED
      BY <2>0, <2>1, <1>1, <1>2, <1>3, <3>1 DEF ChargeFollows
  <2>2. CASE round[o].phase = "dispatched"
    <3>1. charge[o] \in Charge /\ charge[o] # NoCharge
      BY <2>0, <2>2, CrashCharges DEF ChargeFollows
    <3>2. PICK state \in {"pending", "unsent"} : charge'[o] = [charge[o] EXCEPT !.state = state]
      BY <2>0, <2>2, CrashCharges
    <3>3. charge'[o].bid = charge[o].bid /\ charge'[o].wei = charge[o].wei /\ charge'[o] # NoCharge
      BY <2>0, <3>1, <3>2, ChargeMoves DEF ChargeStates
    <3> QED
      BY <2>0, <2>2, <1>1, <1>2, <1>3, <3>1, <3>3 DEF ChargeFollows
  <2> QED
    BY <2>1, <2>2
<1> QED
  BY <1>4, <1>5, <1>6 DEF Consistent

-----------------------------------------------------------------------------
(* The invariant *)

\* It holds when the service starts.
LEMMA HouseInvInit == ASSUME HouseInit PROVE HouseInv
<1>1. TypeOK
  BY InitTypes DEF HouseInit
<1>2. HouseTypes
  <2>1. /\ NoRound \in Round /\ None \in Hold /\ NoReceipt \in Receipt
        /\ Unread \in Readings
    BY DEF NoRound, Round, Phases, None, Hold, NoReceipt, Receipt, Unread, Readings
  <2> QED
    BY <2>1 DEF HouseInit, HouseTypes
<1>3. ASSUME NEW o \in Opportunities
      PROVE  Consistent(o)
  <2>1. /\ round[o] = NoRound /\ receipts[o] = NoReceipt /\ charge[o] = NoCharge
        /\ acks = {} /\ settled[o] = NotSettled /\ \A s \in Searchers : holds[s][o] = None
    BY DEF HouseInit, Init
  <2>2. round[o].phase = "absent" /\ round[o].bids = <<>>
    BY <2>1 DEF NoRound
  <2> QED
    BY <2>1, <2>2
       DEF Consistent, BidsAreAcks, ReceiptFollows, ChargeFollows, HoldsFollow
<1> QED
  BY <1>1, <1>2, <1>3 DEF HouseInv

\* Every step keeps it.
LEMMA HouseInvStep == ASSUME HouseInv, [HouseNext]_vars PROVE HouseInv'
<1>1. TypeOK'
  BY ContractStep, TypeStep DEF HouseInv
<1>2. HouseTypes'
  BY HouseTypesStep
<1>3. ASSUME NEW o \in Opportunities
      PROVE  Consistent(o)'
  <2>0. Consistent(o) /\ HouseTypes
    BY DEF HouseInv
  <2>1. ASSUME NEW i \in DOMAIN checks, DecideBid(i)
        PROVE  Consistent(o)'
    BY <2>1, DecideStep
  <2>2. ASSUME Bidding, \A i \in DOMAIN checks : ~DecideBid(i)
        PROVE  Consistent(o)'
    BY <2>0, <2>2, ChecksTouchNothing, UntouchedStays
  <2>3. ASSUME NEW p \in Opportunities, SubmitOrder(p) \/ Order(p) \/ RecordFails(p)
        PROVE  Consistent(o)'
    <3>1. CASE p = o
      BY <2>3, <3>1, OrderStep
    <3>2. CASE p # o
      BY <2>0, <2>3, <3>2, OthersUntouched, UntouchedStays
    <3> QED
      BY <3>1, <3>2
  <2>4. ASSUME Crash
        PROVE  Consistent(o)'
    BY <2>4, CrashStep
  <2>5. ASSUME BondMoves \/ TimePasses \/ UNCHANGED vars
        PROVE  Consistent(o)'
    BY <2>0, <2>5, ChainTouchesNothing, UntouchedStays
  <2> QED
    BY <2>1, <2>2, <2>3, <2>4, <2>5 DEF HouseNext
<1> QED
  BY <1>1, <1>2, <1>3 DEF HouseInv

\* It holds always.
LEMMA HouseInvariant == HouseSpec => []HouseInv
BY HouseInvInit, HouseInvStep, PTL DEF HouseSpec

-----------------------------------------------------------------------------
(* What the auction promises *)

\* A published receipt is the one of the bids of its round.
LEMMA PublishedIsOfBids ==
    ASSUME HouseInv, NEW o \in Opportunities, Published(o)
    PROVE  receipts[o] = ReceiptOf(o)
<1>1. receipts[o] # NoReceipt
  BY DEF Published, NoReceipt
<1>2. round[o].phase \in Phases
  BY DEF HouseInv, HouseTypes, Round
<1> QED
  BY <1>1, <1>2 DEF HouseInv, Consistent, ReceiptFollows, Phases

\* Every acknowledged bid is in the receipt of its round, and nothing else is: of the
\* check of a bid and the close of its window, whichever comes first (main.ts, auctioneer.ts).
THEOREM ReceiptsAreComplete == HouseSpec => []ReceiptComplete
<1>1. HouseInv => ReceiptComplete
  <2> SUFFICES ASSUME HouseInv, NEW o \in Opportunities, Published(o)
               PROVE  Listed(o) = {bid \in acks : bid.opportunityId = o}
    BY DEF ReceiptComplete
  <2>1. receipts[o] = ReceiptOf(o)
    BY PublishedIsOfBids
  <2>2. Listed(o) = {round[o].bids[i] : i \in DOMAIN round[o].bids}
    BY <2>1 DEF Listed, ReceiptOf
  <2> QED
    BY <2>2 DEF HouseInv, Consistent, BidsAreAcks
<1> QED
  BY <1>1, HouseInvariant, PTL

\* The audit that a searcher runs on the receipt of a round in which it has one
\* acknowledgement, and whose listed bids are signed, passes (receipt.ts, auditReceipt).
THEOREM HonestReceiptsPass == HouseSpec => []HonestReceiptPasses
<1>1. HouseInv => HonestReceiptPasses
  <2> SUFFICES ASSUME HouseInv, NEW bid \in acks, Published(bid.opportunityId),
                      Listed(bid.opportunityId) \subseteq SignedBids,
                      \A other \in acks : /\ other.searcher = bid.searcher
                                          /\ other.opportunityId = bid.opportunityId
                                          => other = bid
               PROVE  AuditReceipt(receipts[bid.opportunityId], bid, SignedBids)
    BY DEF HonestReceiptPasses
  <2> DEFINE o == bid.opportunityId
             bids == round[o].bids
             mine == {i \in DOMAIN bids : bids[i].searcher = bid.searcher}
             mineFirst == CHOOSE i \in mine : \A j \in mine : i <= j
  <2>1. o \in Opportunities
    BY BidFacts DEF HouseInv, HouseTypes
  <2>2. receipts[o] = ReceiptOf(o)
    BY <2>1, PublishedIsOfBids
  <2>3. {bids[i] : i \in DOMAIN bids} = {b \in acks : b.opportunityId = o} /\ bids \in Seq(Bids)
    BY <2>1 DEF HouseInv, HouseTypes, Round, Consistent, BidsAreAcks
  <2>4. mine # {} /\ mine \subseteq Nat
    BY <2>3
  <2>5. mineFirst \in mine
    BY <2>4, LeastNatural
  <2>6. bids[mineFirst] \in {b \in acks : b.opportunityId = o}
    BY <2>3, <2>5
  <2>7. bids[mineFirst] = bid
    BY <2>5, <2>6
  <2>8. bids # <<>>
    BY <2>4
  <2>9. receipts[o].bids = bids
    BY <2>2 DEF ReceiptOf
  <2>10. AuditClearingPrice(receipts[o])
    BY <2>2, <2>8, <2>9 DEF AuditClearingPrice, ReceiptOf, Winner
  <2>11. \A i \in DOMAIN bids : bids[i] \in SignedBids
    BY <2>9 DEF Listed
  <2> QED
    BY <2>4, <2>7, <2>9, <2>10, <2>11 DEF AuditReceipt
<1> QED
  BY <1>1, HouseInvariant, PTL

\* The contract charges the searcher and the price of the published receipt, which is
\* at most what that searcher bid in it (settle.ts over the receipt of handleSubmit).
THEOREM ChargesAreAsPublished == HouseSpec => []ChargedAsPublished
<1>1. HouseInv => ChargedAsPublished
  <2> SUFFICES ASSUME HouseInv, NEW o \in Opportunities, settled[o] # NotSettled
               PROVE  /\ settled[o].searcher = receipts[o].winner
                      /\ settled[o].amount = receipts[o].clearingPriceWei
                      /\ \E bid \in Listed(o) :
                            bid.searcher = settled[o].searcher
                            /\ settled[o].amount <= bid.maxAmountWei
    BY DEF ChargedAsPublished
  <2> DEFINE bids == round[o].bids
             w == WinningPosition(bids)
  <2>1. Consistent(o)
    BY DEF HouseInv
  <2>2. /\ settled[o].searcher = Winner(o).searcher /\ settled[o].amount = ClearingPrice(bids)
        /\ bids # <<>> /\ receipts[o] = ReceiptOf(o)
    BY <2>1 DEF Consistent, ChargeFollows, ReceiptFollows
  <2>3. receipts[o].winner = Winner(o).searcher /\ receipts[o].clearingPriceWei = ClearingPrice(bids)
        /\ receipts[o].bids = bids
    BY <2>2 DEF ReceiptOf
  <2>4. w \in DOMAIN bids /\ ClearingPrice(bids) <= bids[w].maxAmountWei
    BY <2>2, PriceIsOffered DEF HouseInv, HouseTypes, Round
  <2>5. Winner(o) \in Listed(o)
    BY <2>3, <2>4 DEF Winner, Listed
  <2> QED
    BY <2>2, <2>3, <2>4, <2>5 DEF Winner
<1> QED
  BY <1>1, HouseInvariant, PTL

\* A round that is over holds nothing of anybody, but for the winner's collateral when its
\* record could not be written (bonds.ts release, handleSubmit).
THEOREM HoldsAreReleased == HouseSpec => []HoldsReleased
<1>1. HouseInv => HoldsReleased
  <2> SUFFICES ASSUME HouseInv,
                      NEW o \in Opportunities, round[o].phase \in {"done", "failed", "lost"},
                      NEW s \in Searchers, holds[s][o] # None
               PROVE  round[o].phase = "failed" /\ s = receipts[o].winner
    BY DEF HoldsReleased
  <2>1. /\ round[o].phase = "failed" /\ s = Winner(o).searcher
        /\ DOMAIN round[o].bids # {} /\ receipts[o] = ReceiptOf(o)
    BY DEF HouseInv, Consistent, HoldsFollow, ReceiptFollows
  <2>2. round[o].bids # <<>>
    BY <2>1
  <2> QED
    BY <2>1, <2>2 DEF ReceiptOf
<1> QED
  BY <1>1, HouseInvariant, PTL

\* The auction drives the contract only as any account may: whatever was proved of
\* OrdoSettlement holds of the contract under the auction.
THEOREM AuctionKeepsContract == HouseSpec => Spec
<1>1. HouseInit => Init
  BY DEF HouseInit
<1>2. HouseInv /\ [HouseNext]_vars => [Next]_settlementVars
  BY ContractStep DEF HouseInv
<1> QED
  BY <1>1, <1>2, HouseInvariant, PTL DEF HouseSpec, Spec

\* Under the auction, whatever fails in it, nobody is charged beyond a bid they signed,
\* nothing is charged twice, and bonds fall by such charges and matured withdrawals only.
THEOREM AuctionNeverOvercharges == HouseSpec => []NoOvercharge /\ SettledOnce /\ DebitsAccounted
BY AuctionKeepsContract, ChargesAreSigned, NoReplay, BondsFallTwoWays, PTL
=============================================================================
