----------------------------- MODULE OrdoStakes -----------------------------
(***************************************************************************)
(* Pooled liquidity, contracts/src/OrdoStakes.sol: the vault, whose shares *)
(* stand for one Uniswap position, the farm, which streams the position's  *)
(* fees to whoever stakes shares, and the zap, which does several of their *)
(* calls in one transaction.                                               *)
(*                                                                         *)
(* One action is one external call that does not revert.  The position is  *)
(* its liquidity and the fees it has earned; prices and token amounts are  *)
(* left out, so a deposit is the liquidity it adds and the token side of   *)
(* the fees is worth one WETH apiece.  Ether is paid after the vault has   *)
(* made its changes; what the paid account may call then (the farm, the    *)
(* shares) is a call after, and a harvest would only sell the tokens that  *)
(* the same payment still owes that account.                               *)
(***************************************************************************)
EXTENDS Integers, FiniteSets, Functions

CONSTANTS
    Accounts,
    Farm, Dead,       \* the other holders of shares: the farm, and 0x..dEaD
    MinShares,        \* MIN_SHARES
    Duration,         \* DURATION
    Precision,        \* 1e18, the scale of rewardPerToken
    Deposits,         \* bound: liquidity that a deposit or a donation adds
    Amounts,          \* bound: shares moved in one call
    Incomes,          \* bound: [weth, token] fees the pool pays the position at once
    MaxLiquidity, MaxFees, MaxTime          \* bounds

Holders == Accounts \cup {Farm, Dead}
FeeBps == 100
BasisPoints == 10000

ASSUME StakesConstants ==
    /\ IsFiniteSet(Accounts)
    /\ Farm \notin Accounts /\ Dead \notin Accounts /\ Farm # Dead
    /\ {MinShares, Duration, Precision} \subseteq Nat \ {0}
    /\ Deposits \cup Amounts \subseteq Nat \ {0}
    /\ Incomes \subseteq [weth: Nat, token: Nat]
    /\ {MaxLiquidity, MaxFees, MaxTime} \subseteq Nat

VARIABLES
    shares,           \* [Holders -> Nat], the vault's balanceOf
    supply,           \* the vault's totalSupply; 0 until the position is minted
    liquidity,        \* of the position
    fees,             \* earned by the position, not collected: [weth, token]
    waiting,          \* token fees the vault could not sell yet
    farm,             \* the farm's storage: [finish, rate, last, stored, supply, staked, read, owed]
    farmWeth,         \* the farm's WETH
    paid,             \* [Accounts -> Nat]: WETH the farm has paid for it so far
    now               \* block.timestamp

stakesVars == <<shares, supply, liquidity, fees, waiting, farm, farmWeth, paid, now>>

Earlier(s, t) == IF s < t THEN s ELSE t
NoFees == [weth |-> 0, token |-> 0]

\* The stream, the rewards per share so far, and of each account its stake, the rewards
\* per share when it was last credited and what it was credited and not paid.
FarmStorage ==
    [finish: Nat, rate: Nat, last: Nat, stored: Nat, supply: Nat,
     staked: [Accounts -> Nat], read: [Accounts -> Nat], owed: [Accounts -> Nat]]

-----------------------------------------------------------------------------
(* The farm, as functions of its storage.  A definition named ..._Bug is a     *)
(* mistake the next one could contain.                                         *)

\* lastTimeRewardApplicable
Applicable(f) == Earlier(now, f.finish)

RewardPerToken(f) ==
    IF f.supply = 0 THEN f.stored
    ELSE f.stored + ((Applicable(f) - f.last) * f.rate * Precision) \div f.supply

Earned(f, a) == (f.staked[a] * (RewardPerToken(f) - f.read[a])) \div Precision + f.owed[a]

\* The modifier update, for the accounts of who.
Updated(f, who) ==
    [f EXCEPT !.stored = RewardPerToken(f),
              !.last = Applicable(f),
              !.owed = [a \in Accounts |-> IF a \in who THEN Earned(f, a) ELSE f.owed[a]],
              !.read = [a \in Accounts |-> IF a \in who THEN RewardPerToken(f) ELSE f.read[a]]]

Staked(f, a, n) ==
    LET g == Updated(f, {a})
    IN  [g EXCEPT !.supply = @ + n, !.staked[a] = @ + n]

Unstaked_Bug(f, a, n) == [f EXCEPT !.supply = @ - n, !.staked[a] = @ - n]
Unstaked(f, a, n) ==
    LET g == Updated(f, {a})
    IN  [g EXCEPT !.supply = @ - n, !.staked[a] = @ - n]

Claimed(f, a) ==
    LET g == Updated(f, {a})
    IN  [g EXCEPT !.owed[a] = 0]

\* What is left of the stream is added to the new reward.
Leftover_Bug(f) == IF now >= f.finish THEN 0 ELSE (f.finish - f.last) * f.rate
Leftover(f) == IF now >= f.finish THEN 0 ELSE (f.finish - now) * f.rate

Notified(f, reward) ==
    [Updated(f, {}) EXCEPT !.rate = (reward + Leftover(f)) \div Duration,
                           !.last = now,
                           !.finish = now + Duration]

-----------------------------------------------------------------------------
(* The vault *)

\* What the swap of the token fees brings: nothing without a price history of the pool.
Proceeds == {0, waiting + fees.token}

ToFarm(swapped) ==
    LET total == fees.weth + swapped
    IN  total - (total * FeeBps) \div BasisPoints

\* The first part of a deposit or withdrawal, or a call of its own; f is the farm it finds.
Harvests(swapped, f) ==
    IF fees.weth + swapped = 0 THEN f ELSE Notified(f, ToFarm(swapped))

Collects(swapped) ==
    /\ swapped \in Proceeds
    /\ fees' = NoFees
    /\ waiting' = IF swapped = 0 THEN waiting + fees.token ELSE 0

\* The first deposit leaves MinShares with nobody.
Minted_Bug(liq) == IF supply = 0 THEN liq - MinShares ELSE liq
Minted(liq) == IF supply = 0 THEN liq - MinShares ELSE (liq * supply) \div liquidity

Adds(liq, to) ==
    LET locked == IF supply = 0 THEN MinShares ELSE 0
        minted == Minted(liq)
    IN  /\ liquidity + liq <= MaxLiquidity
        /\ minted > 0
        /\ liquidity' = liquidity + liq
        /\ supply' = supply + locked + minted
        /\ shares' = [[shares EXCEPT ![Dead] = @ + locked] EXCEPT ![to] = @ + minted]

\* Computed before the shares are burnt.
Slice_Bug(n) == (liquidity * n) \div (supply - n)
Slice(n) == (liquidity * n) \div supply

Burns(n, from) ==
    /\ shares[from] >= n
    /\ liquidity' = liquidity - Slice(n)
    /\ supply' = supply - n
    /\ shares' = [shares EXCEPT ![from] = @ - n]

Deposit(to, liq) ==
    \E swapped \in Proceeds :
        /\ Collects(swapped)
        /\ Adds(liq, to)
        /\ farm' = Harvests(swapped, farm)
        /\ farmWeth' = farmWeth + ToFarm(swapped)
        /\ UNCHANGED <<paid, now>>

Withdraw(a, n) ==
    \E swapped \in Proceeds :
        /\ Collects(swapped)
        /\ Burns(n, a)
        /\ farm' = Harvests(swapped, farm)
        /\ farmWeth' = farmWeth + ToFarm(swapped)
        /\ UNCHANGED <<paid, now>>

Harvest ==
    \E swapped \in Proceeds :
        /\ Collects(swapped)
        /\ farm' = Harvests(swapped, farm)
        /\ farmWeth' = farmWeth + ToFarm(swapped)
        /\ UNCHANGED <<shares, supply, liquidity, paid, now>>

Moved(from, to, n) == [[shares EXCEPT ![from] = @ - n] EXCEPT ![to] = @ + n]

\* Shares are an ERC-20 token: they may be given to anyone, the farm included.
Transfer(a, to, n) ==
    /\ shares[a] >= n
    /\ shares' = Moved(a, to, n)
    /\ UNCHANGED <<supply, liquidity, fees, waiting, farm, farmWeth, paid, now>>

-----------------------------------------------------------------------------
(* The farm's calls *)

\* stake, and stakeFor when to is not the payer.
Stake(a, to, n) ==
    /\ shares[a] >= n
    /\ shares' = Moved(a, Farm, n)
    /\ farm' = Staked(farm, to, n)
    /\ UNCHANGED <<supply, liquidity, fees, waiting, farmWeth, paid, now>>

Unstake(a, n) ==
    /\ farm.staked[a] >= n
    /\ shares' = Moved(Farm, a, n)
    /\ farm' = Unstaked(farm, a, n)
    /\ UNCHANGED <<supply, liquidity, fees, waiting, farmWeth, paid, now>>

Pays(a, reward) ==
    /\ reward <= farmWeth
    /\ paid' = [paid EXCEPT ![a] = @ + reward]

GetReward(a) ==
    /\ Pays(a, Earned(farm, a))
    /\ farm' = Claimed(farm, a)
    /\ farmWeth' = farmWeth - Earned(farm, a)
    /\ UNCHANGED <<shares, supply, liquidity, fees, waiting, now>>

-----------------------------------------------------------------------------
(* The zap *)

\* zapETH, zapWETH, zapToken, zapBoth: deposit, and stake the shares for the caller.
Zap(a, liq) ==
    \E swapped \in Proceeds :
        /\ Collects(swapped)
        /\ Adds(liq, Farm)
        /\ farm' = Staked(Harvests(swapped, farm), a, Minted(liq))
        /\ farmWeth' = farmWeth + ToFarm(swapped)
        /\ UNCHANGED <<paid, now>>

\* The farm hands the rewards to the zap, which buys the liquidity; the fees of its
\* swap are PoolPays.
Compound(a, liq) ==
    \E swapped \in Proceeds :
        /\ Earned(farm, a) > 0
        /\ Pays(a, Earned(farm, a))
        /\ Collects(swapped)
        /\ Adds(liq, Farm)
        /\ farm' = Staked(Harvests(swapped, Claimed(farm, a)), a, Minted(liq))
        /\ farmWeth' = farmWeth - Earned(farm, a) + ToFarm(swapped)
        /\ UNCHANGED now

\* zapOut, zapOutToETH: withdrawFor, which also pays the rewards, then the vault's withdraw.
ZapOut(a, n) ==
    \E swapped \in Proceeds :
        /\ farm.staked[a] >= n
        /\ Pays(a, Earned(farm, a))
        /\ Collects(swapped)
        /\ Burns(n, Farm)
        /\ farm' = Harvests(swapped, Claimed(Unstaked(farm, a, n), a))
        /\ farmWeth' = farmWeth - Earned(farm, a) + ToFarm(swapped)
        /\ UNCHANGED now

-----------------------------------------------------------------------------
(* The pool and the chain *)

PoolPays(income) ==
    LET sofar == farmWeth + SumFunction(paid) + waiting + fees.weth + fees.token
    IN  /\ liquidity > 0
        /\ sofar + income.weth + income.token <= MaxFees
        /\ fees' = [weth |-> fees.weth + income.weth, token |-> fees.token + income.token]
        /\ UNCHANGED <<shares, supply, liquidity, waiting, farm, farmWeth, paid, now>>

\* Anyone may add to the vault's position and gets no shares for it.
Donate(liq) ==
    /\ supply > 0
    /\ liquidity + liq <= MaxLiquidity
    /\ liquidity' = liquidity + liq
    /\ UNCHANGED <<shares, supply, fees, waiting, farm, farmWeth, paid, now>>

Tick ==
    /\ now < MaxTime
    /\ now' = now + 1
    /\ UNCHANGED <<shares, supply, liquidity, fees, waiting, farm, farmWeth, paid>>

-----------------------------------------------------------------------------

StakesInit ==
    /\ shares = [h \in Holders |-> 0]
    /\ supply = 0
    /\ liquidity = 0
    /\ fees = NoFees
    /\ waiting = 0
    /\ farm = [finish |-> 0, rate |-> 0, last |-> 0, stored |-> 0, supply |-> 0,
               staked |-> [a \in Accounts |-> 0],
               read |-> [a \in Accounts |-> 0],
               owed |-> [a \in Accounts |-> 0]]
    /\ farmWeth = 0
    /\ paid = [a \in Accounts |-> 0]
    /\ now = 0

VaultCalls ==
    \/ \E a \in Accounts, liq \in Deposits : Deposit(a, liq)
    \/ \E a \in Accounts, n \in Amounts : Withdraw(a, n)
    \/ \E a \in Accounts, to \in Accounts \cup {Farm}, n \in Amounts : Transfer(a, to, n)
    \/ Harvest

FarmCalls ==
    \E a \in Accounts :
        \/ GetReward(a)
        \/ \E n \in Amounts : Unstake(a, n) \/ \E to \in Accounts : Stake(a, to, n)

ZapCalls ==
    \E a \in Accounts :
        \/ \E liq \in Deposits : Zap(a, liq) \/ Compound(a, liq)
        \/ \E n \in Amounts : ZapOut(a, n)

Surroundings ==
    \/ \E income \in Incomes : PoolPays(income)
    \/ \E liq \in Deposits : Donate(liq)
    \/ Tick

StakesNext == VaultCalls \/ FarmCalls \/ ZapCalls \/ Surroundings

StakesSpec == StakesInit /\ [][StakesNext]_stakesVars

-----------------------------------------------------------------------------
(* Properties *)

\* Types, and what the sums over holders stand for: the farm holds every staked share,
\* and "with this floor the supply can never be tiny, and can never return to zero"
\* (OrdoStakes.sol:155), nor can a share stand for less than one unit of liquidity.
StakesTypeOK ==
    /\ shares \in [Holders -> Nat]
    /\ supply = SumFunction(shares)
    /\ supply > 0 => shares[Dead] >= MinShares
    /\ liquidity \in Nat /\ liquidity >= supply /\ (supply = 0 => liquidity = 0)
    /\ fees \in [weth: Nat, token: Nat] /\ waiting \in Nat
    /\ farm \in FarmStorage
    /\ farm.supply = SumFunction(farm.staked)
    /\ farm.supply <= shares[Farm]
    /\ farm.last <= Applicable(farm)
    /\ \A a \in Accounts : farm.read[a] <= farm.stored
    /\ farmWeth \in Nat /\ paid \in [Accounts -> Nat] /\ now \in Nat

\* The farm can pay everyone what they have earned and the rest of the stream, through
\* every order of stakes, harvests and claims, rounding included.
RewardsBacked ==
    LET left == IF now < farm.finish THEN (farm.finish - now) * farm.rate ELSE 0
    IN  farmWeth >= left + SumFunction([a \in Accounts |-> Earned(farm, a)])

\* No call takes back what an account has earned, its own stakes and withdrawals, other
\* accounts' calls and a new reward included.
EarnedKept ==
    [][\A a \in Accounts : paid'[a] + Earned(farm, a)' >= paid[a] + Earned(farm, a)]_stakesVars

\* No deposit, withdrawal or donation lowers what a share redeems for: the roundings of
\* lines 233 and 249 are in favour of those who stay (OrdoStakes.sol).
WorthKept == [][liquidity' * supply >= liquidity * supply']_stakesVars
=============================================================================
