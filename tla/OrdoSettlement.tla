--------------------------- MODULE OrdoSettlement ---------------------------
(***************************************************************************)
(* The bond and settlement contract, contracts/src/OrdoSettlement.sol.     *)
(*                                                                         *)
(* Searchers deposit ETH as a bond.  The auctioneer charges a winner's     *)
(* bond, at most the amount the winner signed, and the charge is split     *)
(* between the user, the application and the protocol, who claim it.  A    *)
(* withdrawal is requested first and leaves only after WithdrawDelay.      *)
(*                                                                         *)
(* One action is one external function that does not revert: a call that   *)
(* reverts changes nothing.  withdrawBond and claim hand control to the    *)
(* account they pay, which may call the contract again before they return; *)
(* so each is an action that makes its effects and the payment and sets    *)
(* the lock, and CallReturns, which ends it.  If the paid account reverts, *)
(* everything since the call began is undone, as if nothing had happened.  *)
(*                                                                         *)
(* wallet and balance are the chain's: ETH outside and inside the          *)
(* contract.  now is block.timestamp in ticks.                             *)
(***************************************************************************)
EXTENDS Integers, FiniteSets, Functions

CONSTANTS
    Accounts,         \* every address that may call or be paid
    Principals,       \* bound: the accounts that roles are given to
    Payees,           \* bound: the accounts that settlements name as user or app
    ZeroAddress,      \* address(0), not an account
    Rejecting,        \* accounts that are contracts which refuse ETH
    Opportunities,    \* opportunity ids
    NotSettled,       \* an opportunity without a Settled event
    Bids,             \* [searcher, opportunityId, maxAmountWei] tuples that are submitted
    SignedBids,       \* those whose EIP-712 signature recovers to the searcher
    Splits,           \* [appBps, protocolBps] records within 10000, the owner chooses among
    Endowment,        \* [Accounts -> Nat]: ETH each account starts with
    WithdrawDelay,    \* WITHDRAW_DELAY, immutable
    MaxTime           \* bound: last instant

BasisPoints == 10000

BidType == [searcher: Accounts, opportunityId: Opportunities, maxAmountWei: Nat]

\* The Settled event, the only record of an opportunity besides the flag.
SettledEvent ==
    [searcher: Accounts, amount: Nat, userAmt: Nat, appAmt: Nat, protocolAmt: Nat,
     user: Accounts, app: Accounts \cup {ZeroAddress}]

ASSUME SettlementConstants ==
    /\ IsFiniteSet(Accounts)
    /\ ZeroAddress \notin Accounts
    /\ Principals \subseteq Accounts
    /\ Payees \subseteq Accounts
    /\ Rejecting \subseteq Accounts
    /\ NotSettled \notin SettledEvent
    /\ Bids \subseteq BidType
    /\ SignedBids \subseteq Bids
    /\ Splits \subseteq {s \in [appBps: Nat, protocolBps: Nat] : s.appBps + s.protocolBps <= BasisPoints}
    /\ Endowment \in [Accounts -> Nat]
    /\ WithdrawDelay \in Nat
    /\ MaxTime \in Nat \ {0}

VARIABLES
    bond,             \* [Accounts -> Nat]
    claimable,        \* [Accounts -> Nat]
    settled,          \* [Opportunities -> Settled event or NotSettled]
    withdrawal,       \* [Accounts -> [amount, readyAt]]
    owner, auctioneer, protocolTreasury,
    split,            \* [appBps, protocolBps]
    locked,           \* _locked = 2: inside withdrawBond or claim
    balance,          \* ETH held by the contract
    wallet,           \* [Accounts -> Nat]: ETH held outside
    now               \* block.timestamp

roles == <<owner, auctioneer, protocolTreasury, split>>
money == <<bond, claimable, balance, wallet>>
settlementVars == <<bond, claimable, settled, withdrawal, roles, locked, balance, wallet, now>>

NoWithdrawal == [amount |-> 0, readyAt |-> 0]

-----------------------------------------------------------------------------
(* Helpers.  A definition named ..._Bug is a mistake that the next definition  *)
(* could contain; the specification does not use it, and README.md says which  *)
(* property each one breaks.                                                   *)

Lesser_Bug(a, b) == a
Lesser(a, b) == IF a < b THEN a ELSE b

\* When a request made now may leave.
ReadyAt_Bug(a) == IF withdrawal[a].readyAt # 0 THEN withdrawal[a].readyAt ELSE now + WithdrawDelay
ReadyAt(a) == now + WithdrawDelay

Matured_BugLate(a) == withdrawal[a].readyAt # 0 /\ now > withdrawal[a].readyAt
Matured(a) == withdrawal[a].readyAt # 0 /\ now >= withdrawal[a].readyAt

\* What the auctioneer may accept bids against.
Collateral_Bug(a) == bond[a]
Collateral(a) ==
    IF withdrawal[a].amount >= bond[a] THEN 0 ELSE bond[a] - withdrawal[a].amount

Shares_BugRounding(amount, app) ==
    LET appAmt == IF app = ZeroAddress THEN 0 ELSE (amount * split.appBps) \div BasisPoints
        protocolAmt == (amount * split.protocolBps) \div BasisPoints
        userBps == BasisPoints - split.appBps - split.protocolBps
    IN  [user |-> (amount * userBps) \div BasisPoints, app |-> appAmt, protocol |-> protocolAmt]

Shares_BugAbsentApp(amount, app) ==
    LET appAmt == (amount * split.appBps) \div BasisPoints
        protocolAmt == (amount * split.protocolBps) \div BasisPoints
    IN  [user |-> amount - appAmt - protocolAmt, app |-> appAmt, protocol |-> protocolAmt]

\* The shares of a charge; the user takes the rounding and an absent app's share.
Shares(amount, app) ==
    LET appAmt == IF app = ZeroAddress THEN 0 ELSE (amount * split.appBps) \div BasisPoints
        protocolAmt == (amount * split.protocolBps) \div BasisPoints
    IN  [user |-> amount - appAmt - protocolAmt, app |-> appAmt, protocol |-> protocolAmt]

\* What account a is credited by a charge; the three beneficiaries may coincide.
Credit(a, amount, user, app) ==
    LET s == Shares(amount, app)
    IN    (IF a = user THEN s.user ELSE 0)
        + (IF a = app THEN s.app ELSE 0)
        + (IF a = protocolTreasury THEN s.protocol ELSE 0)

-----------------------------------------------------------------------------
(* Bonding *)

\* deposit() and receive()
Deposit(a) ==
    \E value \in 1..wallet[a] :
        /\ wallet' = [wallet EXCEPT ![a] = @ - value]
        /\ balance' = balance + value
        /\ bond' = [bond EXCEPT ![a] = @ + value]
        /\ UNCHANGED <<claimable, settled, withdrawal, roles, locked, now>>

\* A new request replaces the old one, its clock included.
RequestWithdraw(a) ==
    \E amount \in 1..bond[a] :
        /\ withdrawal' = [withdrawal EXCEPT ![a] =
                            [amount |-> amount, readyAt |-> ReadyAt(a)]]
        /\ UNCHANGED <<money, settled, roles, locked, now>>

CancelWithdraw(a) ==
    /\ withdrawal[a].readyAt # 0
    /\ withdrawal' = [withdrawal EXCEPT ![a] = NoWithdrawal]
    /\ UNCHANGED <<money, settled, roles, locked, now>>

WithdrawBond(a) ==
    LET amount == Lesser(withdrawal[a].amount, bond[a])
    IN  /\ ~locked
        /\ Matured(a)
        /\ a \notin Rejecting
        /\ locked' = TRUE
        /\ withdrawal' = [withdrawal EXCEPT ![a] = NoWithdrawal]
        /\ bond' = [bond EXCEPT ![a] = @ - amount]
        /\ balance' = balance - amount
        /\ wallet' = [wallet EXCEPT ![a] = @ + amount]
        /\ UNCHANGED <<claimable, settled, roles, now>>

-----------------------------------------------------------------------------
(* Settlement and claims *)

Chargeable_BugReplay(bid, charge) ==
    /\ charge <= bid.maxAmountWei
    /\ bid \in SignedBids
    /\ bond[bid.searcher] >= charge

\* Not settled before, within the maximum, signed by the searcher, and bonded.
Chargeable(bid, charge) ==
    /\ settled[bid.opportunityId] = NotSettled
    /\ charge <= bid.maxAmountWei
    /\ bid \in SignedBids
    /\ bond[bid.searcher] >= charge

\* settle(): caller is msg.sender, bid carries the tuple whose signature is checked.
Settle(caller, bid, charge, user, app) ==
    LET s == Shares(charge, app)
        id == bid.opportunityId
    IN  /\ caller = auctioneer
        /\ Chargeable(bid, charge)
        /\ user # ZeroAddress
        /\ settled' = [settled EXCEPT ![id] =
                         [searcher |-> bid.searcher, amount |-> charge, userAmt |-> s.user,
                          appAmt |-> s.app, protocolAmt |-> s.protocol, user |-> user, app |-> app]]
        /\ bond' = [bond EXCEPT ![bid.searcher] = @ - charge]
        /\ claimable' = [a \in Accounts |-> claimable[a] + Credit(a, charge, user, app)]
        /\ UNCHANGED <<withdrawal, roles, locked, balance, wallet, now>>

Claim(a) ==
    /\ ~locked
    /\ claimable[a] > 0
    /\ a \notin Rejecting
    /\ locked' = TRUE
    /\ claimable' = [claimable EXCEPT ![a] = 0]
    /\ balance' = balance - claimable[a]
    /\ wallet' = [wallet EXCEPT ![a] = @ + claimable[a]]
    /\ UNCHANGED <<bond, settled, withdrawal, roles, now>>

\* The paid account's call returns: nonReentrant unlocks.
CallReturns ==
    /\ locked
    /\ locked' = FALSE
    /\ UNCHANGED <<money, settled, withdrawal, roles, now>>

-----------------------------------------------------------------------------
(* Administration; the zero address is refused because it is not an account *)

SetAuctioneer(caller, a) ==
    /\ caller = owner
    /\ auctioneer' = a
    /\ UNCHANGED <<money, settled, withdrawal, owner, protocolTreasury, split, locked, now>>

SetSplit(caller, s) ==
    /\ caller = owner
    /\ split' = s
    /\ UNCHANGED <<money, settled, withdrawal, owner, auctioneer, protocolTreasury, locked, now>>

SetProtocolTreasury_Bug(caller, a) ==
    /\ caller = owner
    /\ protocolTreasury' = a
    /\ claimable' = [claimable EXCEPT ![a] = claimable[protocolTreasury], ![protocolTreasury] = claimable[a]]
    /\ UNCHANGED <<bond, balance, wallet, settled, withdrawal, owner, auctioneer, split, locked, now>>

SetProtocolTreasury(caller, a) ==
    /\ caller = owner
    /\ protocolTreasury' = a
    /\ UNCHANGED <<money, settled, withdrawal, owner, auctioneer, split, locked, now>>

TransferOwnership(caller, a) ==
    /\ caller = owner
    /\ owner' = a
    /\ UNCHANGED <<money, settled, withdrawal, auctioneer, protocolTreasury, split, locked, now>>

\* The next block; a transaction in progress has one timestamp.
Tick ==
    /\ ~locked
    /\ now < MaxTime
    /\ now' = now + 1
    /\ UNCHANGED <<money, settled, withdrawal, roles, locked>>

-----------------------------------------------------------------------------

\* The constructor, at the first block.
Init ==
    /\ bond = [a \in Accounts |-> 0]
    /\ claimable = [a \in Accounts |-> 0]
    /\ settled = [o \in Opportunities |-> NotSettled]
    /\ withdrawal = [a \in Accounts |-> NoWithdrawal]
    /\ owner \in Principals
    /\ auctioneer \in Principals
    /\ protocolTreasury \in Principals
    /\ split \in Splits
    /\ locked = FALSE
    /\ balance = 0
    /\ wallet = Endowment
    /\ now = 1

Bonding ==
    \E a \in Accounts :
        \/ Deposit(a)
        \/ RequestWithdraw(a)
        \/ CancelWithdraw(a)
        \/ WithdrawBond(a)
        \/ Claim(a)

Settling ==
    \E caller \in Accounts, user, app \in Payees \cup {ZeroAddress}, bid \in Bids :
        \E charge \in 0..bid.maxAmountWei + 1 : Settle(caller, bid, charge, user, app)

Administration ==
    \E caller \in Accounts, a \in Principals :
        \/ SetAuctioneer(caller, a)
        \/ SetProtocolTreasury(caller, a)
        \/ TransferOwnership(caller, a)
        \/ \E s \in Splits : SetSplit(caller, s)

NotSettling ==
    \/ Bonding
    \/ CallReturns
    \/ Administration
    \/ Tick

Next == Settling \/ NotSettling

\* Blocks keep coming, calls return, and a searcher who asked for a bond calls
\* withdrawBond once it has matured.
Fairness ==
    /\ WF_settlementVars(Tick)
    /\ WF_settlementVars(CallReturns)
    /\ \A a \in Accounts : SF_settlementVars(WithdrawBond(a))

Spec == Init /\ [][Next]_settlementVars
FairSpec == Spec /\ Fairness

-----------------------------------------------------------------------------
(* Properties *)

\* The state has the types the contract declares: no bond or claim underflows, and
\* the shares in force stay within 10000 basis points (setSplit).
TypeOK ==
    /\ bond \in [Accounts -> Nat]
    /\ claimable \in [Accounts -> Nat]
    /\ settled \in [Opportunities -> SettledEvent \cup {NotSettled}]
    /\ withdrawal \in [Accounts -> [amount: Nat, readyAt: Nat]]
    /\ {owner, auctioneer, protocolTreasury} \subseteq Accounts
    /\ split \in Splits
    /\ locked \in BOOLEAN
    /\ balance \in Int
    /\ wallet \in [Accounts -> Nat]
    /\ now \in 1..MaxTime

Total(f) == SumFunction(f)

\* The contract holds exactly what it owes, to the wei, at every point at which
\* another account can call it: bonds plus claims (the effects-before-payment
\* order of withdrawBond and claim, and settle's remainder to the user).
Solvent == balance = Total(bond) + Total(claimable)

\* Everything an account was charged is covered by a bid it signed for that very
\* opportunity: "can never over-charge" (settle's max check and signature check).
NoOvercharge ==
    \A o \in Opportunities :
        settled[o] # NotSettled =>
            \E bid \in SignedBids :
                /\ bid.searcher = settled[o].searcher
                /\ bid.opportunityId = o
                /\ settled[o].amount <= bid.maxAmountWei

ChargedFor(a) ==
    \E o \in Opportunities :
        /\ settled[o] = NotSettled
        /\ settled'[o] # NotSettled
        /\ settled'[o].searcher = a
        /\ settled'[o].amount = bond[a] - bond'[a]
        /\ \E bid \in SignedBids : bid.searcher = a /\ bid.opportunityId = o
                                   /\ settled'[o].amount <= bid.maxAmountWei

WithdrawnBy(a) ==
    /\ withdrawal[a].readyAt # 0
    /\ now >= withdrawal[a].readyAt
    /\ bond[a] - bond'[a] <= withdrawal[a].amount
    /\ wallet'[a] - wallet[a] = bond[a] - bond'[a]

\* A bond falls in two ways only: an opportunity was charged to its owner, for
\* the first time, by that amount and within a bid its owner signed for it, or its
\* owner was paid that amount out of a request that has matured.
DebitsAccounted ==
    [][\A a \in Accounts : bond'[a] < bond[a] => ChargedFor(a) \/ WithdrawnBy(a)]_settlementVars

\* An opportunity is charged once: its Settled event is never replaced, whoever is
\* auctioneer later (settle's replay check).
SettledOnce ==
    [][\A o \in Opportunities :
         settled[o] # NotSettled => settled'[o] = settled[o]]_settlementVars

\* The user never gets less than the basis points left by the split in force, and
\* an absent app's share goes to the user (rounding is in the user's favour).
UserFloor ==
    [][\A o \in Opportunities :
         (settled[o] = NotSettled /\ settled'[o] # NotSettled) =>
           LET e == settled'[o]
               others == split.protocolBps + (IF e.app = ZeroAddress THEN 0 ELSE split.appBps)
           IN  e.userAmt * BasisPoints >= e.amount * (BasisPoints - others)]_settlementVars

\* What a beneficiary was credited leaves only to that beneficiary, in full: no
\* rotation of the treasury, the owner, the auctioneer or the split moves it.
ClaimsKept ==
    [][\A a \in Accounts :
         claimable'[a] < claimable[a] =>
           /\ claimable'[a] = 0
           /\ wallet'[a] = wallet[a] + claimable[a]]_settlementVars

\* A request that matures in the run, of an account that can be paid, does not stay
\* pending: it is paid, cancelled, or replaced by one that matures after the run,
\* whatever settlements and other accounts' reentrant calls do meanwhile.
WithdrawalsEnd ==
    \A a \in Accounts \ Rejecting :
        withdrawal[a].readyAt \in 1..MaxTime ~> withdrawal[a].readyAt \notin 1..MaxTime

=============================================================================
