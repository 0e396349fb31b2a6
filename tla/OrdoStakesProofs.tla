-------------------------- MODULE OrdoStakesProofs --------------------------
(***************************************************************************)
(* What OrdoStakes guarantees for every number of accounts, any deposits,  *)
(* incomes, durations and precision: the types and what the sums over      *)
(* holders stand for, a farm that can pay, earnings that no call takes     *)
(* back, and shares that no call makes worth less.                         *)
(*                                                                         *)
(* RewardsBacked is not inductive: it says nothing of the fractions of a   *)
(* wei that the farm has not credited yet, and those add up over calls.    *)
(* Backed counts them, scaled by the precision, before any rounding, and   *)
(* with them all of the stream since the last update.                      *)
(***************************************************************************)
EXTENDS OrdoStakes, SumTheorems, TLAPS

\* Addresses are finitely many.
LEMMA AccountsAreFinite == IsFiniteSet(Accounts)
BY StakesConstants

\* So are the holders of shares.
LEMMA HoldersAreFinite == IsFiniteSet(Holders)
<1>1. IsFiniteSet(Accounts)
  BY AccountsAreFinite
<1>2. IsFiniteSet({Farm, Dead})
  <2>1. IsFiniteSet({Farm}) /\ {Farm, Dead} = {Farm} \cup {Dead}
    BY FS_Singleton
  <2> QED
    BY <2>1, FS_AddElement
<1> QED
  BY <1>1, <1>2, FS_Union DEF Holders

\* The parameters the arithmetic rests on are positive.
LEMMA ScalesArePositive ==
    /\ Precision \in Nat \ {0} /\ Duration \in Nat \ {0} /\ MinShares \in Nat \ {0}
BY StakesConstants

\* Nobody's account is the farm or the address nobody holds.
LEMMA HoldersDiffer == Farm \notin Accounts /\ Dead \notin Accounts /\ Farm # Dead
BY StakesConstants

-----------------------------------------------------------------------------
(* Rounding *)

\* Division of naturals rounds down.
LEMMA RoundsDown ==
    ASSUME NEW a \in Nat, NEW b \in Nat \ {0}
    PROVE  a \div b \in Nat /\ (a \div b) * b <= a
BY SMT

\* More divided is not less.
LEMMA DivisionIsMonotone ==
    ASSUME NEW a \in Nat, NEW c \in Nat, a <= c, NEW b \in Nat \ {0}
    PROVE  a \div b <= c \div b
BY SMT

\* A product of naturals is a natural.
LEMMA ProductIsNat == \A a, b \in Nat : a * b \in Nat
BY SMT

\* A factor keeps the order.
LEMMA FactorKeepsOrder ==
    ASSUME NEW k \in Nat, NEW a \in Int, NEW b \in Int, a <= b
    PROVE  k * a <= k * b
BY SMT

\* What holds of multiples holds of what was multiplied.
LEMMA FactorTellsOrder ==
    ASSUME NEW k \in Nat \ {0}, NEW a \in Int, NEW b \in Int, k * a <= k * b
    PROVE  a <= b
BY SMT

\* What the sum of a function's values loses and gains when one of them changes.
LEMMA OneValueChanged ==
    ASSUME NEW S, IsFiniteSet(S), NEW f \in [S -> Nat], NEW e \in [S -> Nat], NEW a \in S,
           \A x \in S \ {a} : e[x] = f[x]
    PROVE  SumFunction(e) = SumFunction(f) - f[a] + e[a]
<1>1. \A x \in S : f[x] \in Int /\ e[x] \in Int
  OBVIOUS
<1>2. SumFunctionOnSet(e, S) = SumFunctionOnSet(f, S) - f[a] + e[a]
  BY <1>1, SumOfChanged
<1>3. SumFunction(e) = SumFunctionOnSet(e, S) /\ SumFunction(f) = SumFunctionOnSet(f, S)
  BY DEF SumFunction, SumFunctionOnSet, FoldFunction, FoldFunctionOnSet
<1> QED
  BY <1>2, <1>3

\* No value of a function with natural values exceeds its sum, nor do two.
LEMMA ValuesWithinSum ==
    ASSUME NEW S, NEW f \in [S -> Nat], IsFiniteSet(S)
    PROVE  /\ SumFunction(f) \in Nat
           /\ \A a \in S : f[a] <= SumFunction(f)
           /\ \A a, b \in S : a # b => f[a] + f[b] <= SumFunction(f)
<1>1. SumFunction(f) = SumFunctionOnSet(f, S)
  BY DEF SumFunction, SumFunctionOnSet, FoldFunction, FoldFunctionOnSet
<1>2. \A R \in SUBSET S : IsFiniteSet(R) /\ SumFunctionOnSet(f, R) \in Nat
  <2> TAKE R \in SUBSET S
  <2>1. IsFiniteSet(R) /\ \A x \in R : f[x] \in Nat
    BY FS_Subset
  <2> QED
    BY <2>1, SumIsNumber
<1>3. \A x \in S : f[x] \in Int
  OBVIOUS
<1>4. ASSUME NEW a \in S
      PROVE  SumFunctionOnSet(f, S) = f[a] + SumFunctionOnSet(f, S \ {a})
  BY <1>3, SumTakesOut
<1>5. ASSUME NEW a \in S, NEW b \in S, a # b
      PROVE  SumFunctionOnSet(f, S \ {a}) = f[b] + SumFunctionOnSet(f, S \ {a, b})
  <2> DEFINE R == S \ {a}
  <2>1. IsFiniteSet(R) /\ b \in R /\ \A x \in R : f[x] \in Int
    BY <1>2, <1>3, <1>5
  <2>2. SumFunctionOnSet(f, R) = f[b] + SumFunctionOnSet(f, R \ {b})
    <3> HIDE DEF R
    <3> QED
      BY <2>1, SumTakesOut
  <2>3. R \ {b} = S \ {a, b}
    OBVIOUS
  <2> QED
    BY <2>2, <2>3
<1>6. ASSUME NEW a \in S
      PROVE  f[a] <= SumFunctionOnSet(f, S)
  <2>1. SumFunctionOnSet(f, S \ {a}) \in Nat /\ f[a] \in Nat
    BY <1>2
  <2> QED
    BY <2>1, <1>4
<1>7. ASSUME NEW a \in S, NEW b \in S, a # b
      PROVE  f[a] + f[b] <= SumFunctionOnSet(f, S)
  <2>1. SumFunctionOnSet(f, S \ {a, b}) \in Nat /\ f[a] \in Nat /\ f[b] \in Nat
    BY <1>2
  <2>2. /\ SumFunctionOnSet(f, S) = f[a] + SumFunctionOnSet(f, S \ {a})
        /\ SumFunctionOnSet(f, S \ {a}) = f[b] + SumFunctionOnSet(f, S \ {a, b})
    BY <1>4, <1>5, <1>7
  <2> QED
    BY ONLY <2>1, <2>2
<1>8. SumFunctionOnSet(f, S) \in Nat
  BY <1>2
<1> QED
  BY <1>1, <1>6, <1>7, <1>8

-----------------------------------------------------------------------------
(* The farm: its storage f, at a time now *)

\* The conjuncts of StakesTypeOK that are about the farm's storage.
FarmOK(f) ==
    /\ f \in FarmStorage
    /\ f.supply = SumFunction(f.staked)
    /\ f.last <= Applicable(f)
    /\ \A a \in Accounts : f.read[a] <= f.stored

\* What an account was credited and what its stake earned up to the last update, before
\* the division.
Unclaimed(f) == [a \in Accounts |-> f.staked[a] * (f.stored - f.read[a]) + Precision * f.owed[a]]

\* All of it and all of the stream since the last update is there.
Backed(f, weth) ==
    SumFunctionOnSet(Unclaimed(f), Accounts) + Precision * ((f.finish - f.last) * f.rate)
        <= Precision * weth

\* The fields of a farm's storage.
LEMMA FarmFields ==
    ASSUME NEW f \in FarmStorage
    PROVE  /\ {f.finish, f.rate, f.last, f.stored, f.supply} \subseteq Nat
           /\ f.staked \in [Accounts -> Nat]
           /\ f.read \in [Accounts -> Nat]
           /\ f.owed \in [Accounts -> Nat]
BY DEF FarmStorage

\* The stream is rewarded up to a moment between its last update and its end.
LEMMA ApplicableIsBetween ==
    ASSUME now \in Nat, NEW f, FarmOK(f)
    PROVE  /\ Applicable(f) \in Nat
           /\ f.last <= Applicable(f) /\ Applicable(f) <= f.finish /\ Applicable(f) <= now
BY FarmFields DEF FarmOK, Applicable, Earlier

\* rewardPerToken does not fall, and hands out no more than was streamed.
LEMMA RewardGrows ==
    ASSUME now \in Nat, NEW f, FarmOK(f)
    PROVE  /\ RewardPerToken(f) \in Nat
           /\ f.stored <= RewardPerToken(f)
           /\ (RewardPerToken(f) - f.stored) * f.supply
                <= Precision * ((Applicable(f) - f.last) * f.rate)
<1>1. f.last \in Nat /\ f.rate \in Nat /\ f.stored \in Nat /\ f.supply \in Nat
  BY FarmFields DEF FarmOK
<1> DEFINE span == Applicable(f) - f.last
           streamed == span * f.rate * Precision
<1>2. span \in Nat
  BY <1>1, ApplicableIsBetween
<1>3. Precision \in Nat
  BY ScalesArePositive
<1> HIDE DEF span
<1>4. span * f.rate \in Nat
  BY <1>1, <1>2, ProductIsNat
<1>5. streamed \in Nat /\ streamed = Precision * (span * f.rate)
  <2> DEFINE paidIn == span * f.rate
  <2>1. paidIn \in Nat
    BY <1>4
  <2> HIDE DEF paidIn
  <2>2. paidIn * Precision \in Nat /\ paidIn * Precision = Precision * paidIn
    BY <1>3, <2>1
  <2> QED
    BY <2>2 DEF paidIn
<1>6. RewardPerToken(f) = IF f.supply = 0 THEN f.stored ELSE f.stored + streamed \div f.supply
  BY DEF RewardPerToken, span
<1> HIDE DEF streamed
<1>7. CASE f.supply = 0
  BY <1>1, <1>5, <1>6, <1>7 DEF span
<1>8. CASE f.supply # 0
  <2>1. streamed \div f.supply \in Nat /\ (streamed \div f.supply) * f.supply <= streamed
    BY <1>1, <1>5, <1>8, RoundsDown
  <2>2. RewardPerToken(f) = f.stored + streamed \div f.supply
    BY <1>6, <1>8
  <2>3. RewardPerToken(f) - f.stored = streamed \div f.supply
    BY <1>1, <2>1, <2>2
  <2> QED
    BY <1>1, <1>5, <2>1, <2>2, <2>3 DEF span
<1> QED
  BY <1>7, <1>8

\* What an account has earned is a natural, with what it was credited before in it, and no
\* more than its stake has earned before the division.
LEMMA EarnedIsNat ==
    ASSUME now \in Nat, NEW f, FarmOK(f), NEW a \in Accounts
    PROVE  /\ Earned(f, a) \in Nat
           /\ Precision * Earned(f, a)
                <= f.staked[a] * (RewardPerToken(f) - f.read[a]) + Precision * f.owed[a]
<1> DEFINE s == f.staked[a]
           r == RewardPerToken(f) - f.read[a]
           o == f.owed[a]
           q == (s * r) \div Precision
<1>1. s \in Nat /\ r \in Nat /\ o \in Nat
  <2>1. f.stored \in Nat /\ f.staked[a] \in Nat /\ f.read[a] \in Nat /\ f.owed[a] \in Nat
    BY FarmFields DEF FarmOK
  <2>2. RewardPerToken(f) \in Nat /\ f.stored <= RewardPerToken(f) /\ f.read[a] <= f.stored
    BY RewardGrows DEF FarmOK
  <2> QED
    BY <2>1, <2>2
<1>2. Earned(f, a) = q + o
  BY DEF Earned
<1> HIDE DEF s, r, o
<1>3. s * r \in Nat
  BY <1>1, ProductIsNat
<1>4. Precision \in Nat \ {0}
  BY ScalesArePositive
<1>5. q \in Nat /\ q * Precision <= s * r
  BY <1>3, <1>4, RoundsDown
<1> HIDE DEF q
<1>6. Precision * (q + o) = q * Precision + Precision * o
  BY <1>1, <1>4, <1>5
<1>7. q * Precision \in Nat /\ Precision * o \in Nat
  BY <1>1, <1>4, <1>5, ProductIsNat
<1>8. Precision * Earned(f, a) <= s * r + Precision * o
  BY <1>2, <1>3, <1>5, <1>6, <1>7
<1> QED
  BY <1>1, <1>2, <1>5, <1>8 DEF s, r, o

-----------------------------------------------------------------------------
(* The modifier update *)

\* The farm has been brought up to date.
Current(f) == f.last = Applicable(f)

\* Up to date, nothing is added to what was stored.
LEMMA CurrentReward ==
    ASSUME now \in Nat, NEW f, FarmOK(f), Current(f)
    PROVE  RewardPerToken(f) = f.stored
<1>1. f.last \in Nat /\ f.rate \in Nat /\ f.stored \in Nat /\ f.supply \in Nat
  BY FarmFields DEF FarmOK
<1>2. Applicable(f) - f.last = 0
  BY <1>1 DEF Current
<1>3. ((Applicable(f) - f.last) * f.rate) * Precision = 0
  BY <1>1, <1>2, ScalesArePositive
<1>4. f.supply # 0 => 0 \div f.supply = 0
  BY <1>1
<1> QED
  BY <1>1, <1>3, <1>4 DEF RewardPerToken

\* The storage after an update.
LEMMA UpdatedFields ==
    ASSUME NEW f \in FarmStorage, NEW who
    PROVE  LET g == Updated(f, who)
           IN  /\ g.finish = f.finish /\ g.rate = f.rate
               /\ g.supply = f.supply /\ g.staked = f.staked
               /\ g.stored = RewardPerToken(f) /\ g.last = Applicable(f)
               /\ \A a \in Accounts :
                     /\ g.owed[a] = IF a \in who THEN Earned(f, a) ELSE f.owed[a]
                     /\ g.read[a] = IF a \in who THEN RewardPerToken(f) ELSE f.read[a]
BY DEF Updated, FarmStorage

\* An update leaves the storage in order and up to date.
LEMMA UpdatedOK ==
    ASSUME now \in Nat, NEW f, FarmOK(f), NEW who
    PROVE  FarmOK(Updated(f, who)) /\ Current(Updated(f, who))
<1> DEFINE g == Updated(f, who)
<1>1. f \in FarmStorage
  BY DEF FarmOK
<1>2. /\ RewardPerToken(f) \in Nat /\ Applicable(f) \in Nat /\ f.stored <= RewardPerToken(f)
      /\ \A a \in Accounts : Earned(f, a) \in Nat
  BY RewardGrows, ApplicableIsBetween, EarnedIsNat
<1>3. g \in FarmStorage
  BY <1>1, <1>2 DEF Updated, FarmStorage
<1>4. /\ g.finish = f.finish /\ g.supply = f.supply /\ g.staked = f.staked
      /\ g.stored = RewardPerToken(f) /\ g.last = Applicable(f)
      /\ \A a \in Accounts : g.read[a] = IF a \in who THEN RewardPerToken(f) ELSE f.read[a]
  BY <1>1, UpdatedFields
<1> HIDE DEF g
<1>5. Applicable(g) = Applicable(f)
  BY <1>4 DEF Applicable
<1>6. g.last <= Applicable(g) /\ Current(g)
  BY <1>2, <1>4, <1>5 DEF Current
<1>7. \A a \in Accounts : g.read[a] <= g.stored
  <2> TAKE a \in Accounts
  <2>1. f.read[a] \in Nat /\ f.stored \in Nat /\ f.read[a] <= f.stored
    BY FarmFields DEF FarmOK
  <2> QED
    BY <1>2, <1>4, <2>1
<1>8. FarmOK(g)
  BY <1>3, <1>4, <1>6, <1>7 DEF FarmOK
<1> QED
  BY <1>6, <1>8 DEF g

\* An update changes nothing of what anyone has earned.
LEMMA UpdatedEarned ==
    ASSUME now \in Nat, NEW f, FarmOK(f), NEW who, NEW a \in Accounts
    PROVE  Earned(Updated(f, who), a) = Earned(f, a)
<1> DEFINE g == Updated(f, who)
<1>1. RewardPerToken(g) = RewardPerToken(f)
  <2>1. RewardPerToken(g) = g.stored
    BY UpdatedOK, CurrentReward
  <2> QED
    BY <2>1, UpdatedFields DEF FarmOK
<1>2. /\ g.staked[a] = f.staked[a]
      /\ g.owed[a] = IF a \in who THEN Earned(f, a) ELSE f.owed[a]
      /\ g.read[a] = IF a \in who THEN RewardPerToken(f) ELSE f.read[a]
  BY UpdatedFields DEF FarmOK
<1>3. f.staked[a] \in Nat /\ RewardPerToken(f) \in Nat /\ Earned(f, a) \in Nat
  BY FarmFields, RewardGrows, EarnedIsNat DEF FarmOK
<1>4. Earned(g, a) = (g.staked[a] * (RewardPerToken(g) - g.read[a])) \div Precision + g.owed[a]
  BY DEF Earned
<1> HIDE DEF g
<1>5. CASE a \in who
  <2>1. g.staked[a] * (RewardPerToken(g) - g.read[a]) = 0
    BY <1>1, <1>2, <1>3, <1>5
  <2>2. 0 \div Precision = 0
    BY ScalesArePositive
  <2>3. Earned(g, a) = 0 + Earned(f, a)
    BY <1>2, <1>4, <1>5, <2>1, <2>2
  <2> QED
    BY <1>3, <2>3 DEF g
<1>6. CASE a \notin who
  <2>1. Earned(g, a) = (f.staked[a] * (RewardPerToken(f) - f.read[a])) \div Precision + f.owed[a]
    BY <1>1, <1>2, <1>4, <1>6
  <2> QED
    BY <2>1 DEF g, Earned
<1> QED
  BY <1>5, <1>6

\* After an update, what was streamed since the last one is what accounts have earned more,
\* or has been rounded away.
LEMMA UpdatedBacked ==
    ASSUME now \in Nat, NEW f, FarmOK(f), NEW who, NEW weth \in Int, Backed(f, weth)
    PROVE  Backed(Updated(f, who), weth)
<1> DEFINE g == Updated(f, who)
           R == RewardPerToken(f)
           more == R - f.stored
           extra == [a \in Accounts |-> more * f.staked[a]]
           both == [a \in Accounts |-> Unclaimed(f)[a] + extra[a]]
           Sum(h) == SumFunctionOnSet(h, Accounts)
<1>1. /\ f.stored \in Nat /\ f.finish \in Nat /\ f.last \in Nat /\ f.rate \in Nat /\ f.supply \in Nat
      /\ Precision \in Nat \ {0}
      /\ \A a \in Accounts : f.staked[a] \in Nat /\ f.read[a] \in Nat /\ f.owed[a] \in Nat
      /\ f.staked \in [Accounts -> Nat]
  BY FarmFields, ScalesArePositive DEF FarmOK
<1>2. R \in Nat /\ f.stored <= R /\ more \in Nat
      /\ more * f.supply <= Precision * ((Applicable(f) - f.last) * f.rate)
  BY <1>1, RewardGrows
<1>3. \A a \in Accounts : extra[a] \in Int /\ extra[a] = more * f.staked[a]
  <2> HIDE DEF more
  <2> QED
    BY <1>1, <1>2, ProductIsNat
<1>4. Sum(extra) = more * f.supply
  <2>1. f.supply = Sum(f.staked)
    BY <1>1 DEF FarmOK, SumFunction, SumFunctionOnSet, FoldFunction, FoldFunctionOnSet
  <2>2. Sum(extra) = more * Sum(f.staked)
    <3>1. more \in Int /\ \A a \in Accounts : f.staked[a] \in Int /\ extra[a] = more * f.staked[a]
      BY <1>1, <1>2, <1>3
    <3> HIDE DEF extra, more
    <3> QED
      BY <3>1, AccountsAreFinite, SumOfMultiples
  <2> QED
    BY <2>1, <2>2
<1>5. \A a \in Accounts :
          /\ Unclaimed(f)[a] \in Int /\ Unclaimed(g)[a] \in Int
          /\ Unclaimed(g)[a] <= both[a] /\ both[a] = Unclaimed(f)[a] + extra[a]
          /\ both[a] \in Int
  <2> TAKE a \in Accounts
  <2> DEFINE s == f.staked[a]
             x == f.read[a]
             o == f.owed[a]
             e == Earned(f, a)
             st == f.stored
  <2>1. s \in Nat /\ x \in Nat /\ o \in Nat /\ st \in Nat /\ x <= st
    BY <1>1 DEF FarmOK
  <2>2. Unclaimed(f)[a] = s * (st - x) + Precision * o
    BY DEF Unclaimed
  <2>3. Unclaimed(g)[a] = IF a \in who THEN s * (R - R) + Precision * e
                          ELSE s * (R - x) + Precision * o
    BY UpdatedFields DEF FarmOK, Unclaimed
  <2>4. e \in Nat /\ Precision * e <= s * (R - x) + Precision * o
    BY EarnedIsNat
  <2>5. extra[a] = more * s /\ extra[a] \in Int /\ both[a] = Unclaimed(f)[a] + extra[a]
    BY <1>3
  <2> HIDE DEF s, x, o, e, st, R, extra, both, g
  <2>6. more * s = s * R - s * st /\ s * (R - x) = s * R - s * x /\ s * (st - x) = s * st - s * x
        /\ s * (R - R) = 0
    BY <1>2, <2>1 DEF st
  <2>7. s * R \in Int /\ s * st \in Int /\ s * x \in Int /\ Precision * o \in Int /\ Precision * e \in Int
    BY <1>1, <1>2, <2>1, <2>4, ProductIsNat
  <2> HIDE DEF more
  <2>8. Unclaimed(f)[a] + extra[a] = s * (R - x) + Precision * o
    BY <2>2, <2>5, <2>6, <2>7
  <2>9. Unclaimed(f)[a] \in Int /\ s * (R - x) \in Int
    BY <2>2, <2>6, <2>7
  <2>10. Unclaimed(g)[a] \in Int /\ Unclaimed(g)[a] <= s * (R - x) + Precision * o
    BY <2>3, <2>4, <2>6, <2>7, <2>9
  <2> QED
    BY <2>5, <2>8, <2>9, <2>10
<1>6. Sum(both) = Sum(Unclaimed(f)) + Sum(extra) /\ Sum(Unclaimed(g)) <= Sum(both)
  <2> HIDE DEF both, extra, g
  <2> QED
    BY <1>3, <1>5, AccountsAreFinite, SumOfSums, SumIsMonotone
<1>7. Sum(Unclaimed(f)) \in Int /\ Sum(Unclaimed(g)) \in Int
  <2> HIDE DEF g
  <2> QED
    BY <1>5, AccountsAreFinite, SumIsNumber
<1>8. g.finish = f.finish /\ g.rate = f.rate /\ g.last = Applicable(f)
  BY UpdatedFields DEF FarmOK
<1>9. Applicable(f) \in Nat
  BY ApplicableIsBetween
<1>10. Precision * ((f.finish - f.last) * f.rate)
         = Precision * ((f.finish - Applicable(f)) * f.rate) + Precision * ((Applicable(f) - f.last) * f.rate)
  <2> DEFINE x == (f.finish - Applicable(f)) * f.rate
             y == (Applicable(f) - f.last) * f.rate
  <2>1. x \in Int /\ y \in Int /\ (f.finish - f.last) * f.rate = x + y
    BY <1>1, <1>9
  <2> HIDE DEF x, y
  <2>2. Precision * (x + y) = Precision * x + Precision * y
    BY <1>1, <2>1
  <2> QED
    BY <2>1, <2>2 DEF x, y
<1> DEFINE left == Precision * ((f.finish - Applicable(f)) * f.rate)
           gone == Precision * ((Applicable(f) - f.last) * f.rate)
<1>11. left \in Int /\ gone \in Int /\ Precision * weth \in Int /\ more * f.supply \in Int
  <2>1. (f.finish - Applicable(f)) * f.rate \in Int /\ (Applicable(f) - f.last) * f.rate \in Int
    BY <1>1, <1>9
  <2>2. \A a, b \in Int : a * b \in Int
    BY SMT
  <2> HIDE DEF more
  <2> QED
    BY <1>1, <1>2, <2>1, <2>2
<1>12. Sum(Unclaimed(f)) + (left + gone) <= Precision * weth
  BY <1>10 DEF Backed
<1>13. Sum(Unclaimed(g)) + left <= Precision * weth
  <2>1. Sum(Unclaimed(g)) <= Sum(Unclaimed(f)) + more * f.supply
    BY <1>4, <1>6
  <2>2. more * f.supply <= gone
    BY <1>2
  <2> HIDE DEF Sum, left, gone, g, more
  <2> QED
    BY <1>7, <1>11, <1>12, <2>1, <2>2
<1> QED
  BY <1>8, <1>13 DEF Backed

-----------------------------------------------------------------------------
(* The farm's calls *)

\* The account is credited, then its stake becomes m.
Restaked(f, a, m) ==
    [Updated(f, {a}) EXCEPT !.supply = f.supply - f.staked[a] + m, !.staked[a] = m]

\* Nothing that anyone has earned changes with a stake.
LEMMA StakeMoves ==
    ASSUME now \in Nat, NEW f, FarmOK(f), NEW a \in Accounts, NEW m \in Nat
    PROVE  /\ FarmOK(Restaked(f, a, m))
           /\ Restaked(f, a, m).supply = f.supply - f.staked[a] + m
           /\ \A b \in Accounts : Earned(Restaked(f, a, m), b) = Earned(f, b)
           /\ \A weth \in Int : Backed(f, weth) => Backed(Restaked(f, a, m), weth)
<1> DEFINE g == Updated(f, {a})
           h == Restaked(f, a, m)
<1>1. FarmOK(g) /\ Current(g) /\ g.supply = f.supply /\ g.staked = f.staked
  BY UpdatedOK, UpdatedFields DEF FarmOK
<1>2. g.read[a] = g.stored
  BY UpdatedFields DEF FarmOK
<1>3. h = [g EXCEPT !.supply = f.supply - f.staked[a] + m, !.staked[a] = m]
  BY DEF Restaked
<1>4. \A b \in Accounts : Earned(g, b) = Earned(f, b)
  BY UpdatedEarned
<1>5. \A weth \in Int : Backed(f, weth) => Backed(g, weth)
  BY UpdatedBacked
<1> HIDE DEF g, h
<1>6. g \in FarmStorage /\ g.staked \in [Accounts -> Nat] /\ g.supply = SumFunction(g.staked)
      /\ g.stored \in Nat
  BY <1>1, FarmFields DEF FarmOK
<1>7. /\ h.staked = [g.staked EXCEPT ![a] = m] /\ h.supply = g.supply - g.staked[a] + m
      /\ h.finish = g.finish /\ h.rate = g.rate /\ h.last = g.last /\ h.stored = g.stored
      /\ h.read = g.read /\ h.owed = g.owed
  BY <1>1, <1>3, <1>6 DEF FarmStorage
<1>8. /\ h.staked \in [Accounts -> Nat] /\ h.staked[a] = m
      /\ \A b \in Accounts \ {a} : h.staked[b] = g.staked[b]
      /\ SumFunction(h.staked) = h.supply
  <2> DEFINE e == h.staked
             d == g.staked
  <2>1. e = [d EXCEPT ![a] = m] /\ d \in [Accounts -> Nat]
    BY <1>6, <1>7
  <2>2. h.supply = SumFunction(d) - d[a] + m
    BY <1>6, <1>7
  <2> HIDE DEF e, d
  <2>3. e \in [Accounts -> Nat] /\ e[a] = m /\ \A b \in Accounts \ {a} : e[b] = d[b]
    BY <2>1
  <2>4. SumFunction(e) = SumFunction(d) - d[a] + e[a]
    <3>1. IsFiniteSet(Accounts) /\ a \in Accounts
      BY AccountsAreFinite
    <3>2. d \in [Accounts -> Nat] /\ e \in [Accounts -> Nat] /\ \A b \in Accounts \ {a} : e[b] = d[b]
      BY <2>1, <2>3
    <3> QED
      BY ONLY <3>1, <3>2, OneValueChanged
  <2> QED
    BY <2>2, <2>3, <2>4 DEF e, d
<1>9. h.supply \in Nat
  BY <1>8, AccountsAreFinite, ValuesWithinSum
<1>10. h \in FarmStorage
  <2>1. h = [g EXCEPT !.supply = h.supply, !.staked = h.staked]
    BY <1>3, <1>6, <1>7 DEF FarmStorage
  <2> QED
    BY <1>6, <1>8, <1>9, <2>1 DEF FarmStorage
<1>11. Applicable(h) = Applicable(g)
  BY <1>7 DEF Applicable
<1>12. FarmOK(h) /\ Current(h)
  BY <1>1, <1>7, <1>8, <1>10, <1>11 DEF FarmOK, Current
<1>13. RewardPerToken(h) = g.stored /\ RewardPerToken(g) = g.stored
  BY <1>1, <1>7, <1>12, CurrentReward
<1>14. ASSUME NEW b \in Accounts
       PROVE  h.staked[b] * (g.stored - g.read[b]) = g.staked[b] * (g.stored - g.read[b])
  <2>1. CASE b # a
    BY <1>8, <2>1
  <2>2. CASE b = a
    <3>1. g.stored - g.read[b] = 0 /\ h.staked[b] \in Nat /\ g.staked[b] \in Nat
      BY <1>2, <1>6, <1>8, <2>2
    <3> QED
      BY <3>1
  <2> QED
    BY <2>1, <2>2
<1>15. \A b \in Accounts : Earned(h, b) = Earned(g, b)
  BY <1>7, <1>13, <1>14 DEF Earned
<1>16. \A b \in Accounts : Unclaimed(h)[b] = Unclaimed(g)[b]
  <2> TAKE b \in Accounts
  <2>1. Unclaimed(h)[b] = h.staked[b] * (h.stored - h.read[b]) + Precision * h.owed[b]
    BY DEF Unclaimed
  <2>2. Unclaimed(g)[b] = g.staked[b] * (g.stored - g.read[b]) + Precision * g.owed[b]
    BY DEF Unclaimed
  <2>3. h.stored = g.stored /\ h.read = g.read /\ h.owed = g.owed
    BY <1>7
  <2> QED
    BY ONLY <2>1, <2>2, <2>3, <1>14, b \in Accounts
<1>17. SumFunctionOnSet(Unclaimed(h), Accounts) = SumFunctionOnSet(Unclaimed(g), Accounts)
  BY <1>16, AccountsAreFinite, SumOfSame
<1>18. \A weth \in Int : Backed(g, weth) => Backed(h, weth)
  BY <1>7, <1>17 DEF Backed
<1> QED
  BY <1>1, <1>4, <1>5, <1>7, <1>12, <1>15, <1>18 DEF h

\* _stake credits the account and adds to its stake.
LEMMA StakedKeeps ==
    ASSUME now \in Nat, NEW f, FarmOK(f), NEW a \in Accounts, NEW n \in Nat
    PROVE  /\ FarmOK(Staked(f, a, n))
           /\ Staked(f, a, n).supply = f.supply + n
           /\ \A b \in Accounts : Earned(Staked(f, a, n), b) = Earned(f, b)
           /\ \A weth \in Int : Backed(f, weth) => Backed(Staked(f, a, n), weth)
<1> DEFINE m == f.staked[a] + n
           g == Updated(f, {a})
           h == Staked(f, a, n)
<1>1. f.staked[a] \in Nat /\ f.supply \in Nat
  BY FarmFields DEF FarmOK
<1>2. g.supply = f.supply /\ g.staked = f.staked
  BY UpdatedFields DEF FarmOK
<1>3. m \in Nat /\ f.supply - f.staked[a] + m = f.supply + n
  BY <1>1
<1>4. h = Restaked(f, a, m)
  BY <1>2, <1>3 DEF Staked, Restaked
<1> HIDE DEF m, h
<1>5. /\ FarmOK(h)
      /\ h.supply = f.supply - f.staked[a] + m
      /\ \A b \in Accounts : Earned(h, b) = Earned(f, b)
      /\ \A weth \in Int : Backed(f, weth) => Backed(h, weth)
  BY <1>3, <1>4, StakeMoves
<1> QED
  BY <1>3, <1>5 DEF h

\* withdraw credits the account and takes from its stake.
LEMMA UnstakedKeeps ==
    ASSUME now \in Nat, NEW f, FarmOK(f), NEW a \in Accounts, NEW n \in Nat, n <= f.staked[a]
    PROVE  /\ FarmOK(Unstaked(f, a, n))
           /\ Unstaked(f, a, n).supply = f.supply - n
           /\ \A b \in Accounts : Earned(Unstaked(f, a, n), b) = Earned(f, b)
           /\ \A weth \in Int : Backed(f, weth) => Backed(Unstaked(f, a, n), weth)
<1> DEFINE m == f.staked[a] - n
           g == Updated(f, {a})
           h == Unstaked(f, a, n)
<1>1. f.staked[a] \in Nat /\ f.supply \in Nat
  BY FarmFields DEF FarmOK
<1>2. g.supply = f.supply /\ g.staked = f.staked
  BY UpdatedFields DEF FarmOK
<1>3. m \in Nat /\ f.supply - f.staked[a] + m = f.supply - n
  BY <1>1
<1>4. h = Restaked(f, a, m)
  BY <1>2, <1>3 DEF Unstaked, Restaked
<1> HIDE DEF m, h
<1>5. /\ FarmOK(h)
      /\ h.supply = f.supply - f.staked[a] + m
      /\ \A b \in Accounts : Earned(h, b) = Earned(f, b)
      /\ \A weth \in Int : Backed(f, weth) => Backed(h, weth)
  BY <1>3, <1>4, StakeMoves
<1> QED
  BY <1>3, <1>5 DEF h

\* getReward and withdrawFor pay an account what it has earned, and it starts from nothing.
LEMMA ClaimedKeeps ==
    ASSUME now \in Nat, NEW f, FarmOK(f), NEW a \in Accounts
    PROVE  /\ FarmOK(Claimed(f, a))
           /\ Claimed(f, a).supply = f.supply
           /\ Earned(Claimed(f, a), a) = 0
           /\ \A b \in Accounts \ {a} : Earned(Claimed(f, a), b) = Earned(f, b)
           /\ \A weth \in Int : Backed(f, weth) => Backed(Claimed(f, a), weth - Earned(f, a))
<1> DEFINE g == Updated(f, {a})
           h == Claimed(f, a)
<1>1. FarmOK(g) /\ Current(g) /\ g.supply = f.supply
  BY UpdatedOK, UpdatedFields DEF FarmOK
<1>2. g.read[a] = g.stored /\ g.owed[a] = Earned(f, a)
  BY UpdatedFields DEF FarmOK
<1>3. h = [g EXCEPT !.owed[a] = 0]
  BY DEF Claimed
<1>4. \A b \in Accounts : Earned(g, b) = Earned(f, b)
  BY UpdatedEarned
<1>5. \A weth \in Int : Backed(f, weth) => Backed(g, weth)
  BY UpdatedBacked
<1>6. Earned(f, a) \in Nat /\ Precision \in Nat \ {0}
  BY EarnedIsNat, ScalesArePositive
<1> HIDE DEF g, h
<1>7. /\ g \in FarmStorage /\ g.staked \in [Accounts -> Nat] /\ g.owed \in [Accounts -> Nat]
      /\ g.read \in [Accounts -> Nat] /\ {g.stored, g.finish, g.last, g.rate} \subseteq Nat
  BY <1>1, FarmFields DEF FarmOK
<1>8. /\ h.staked = g.staked /\ h.supply = g.supply /\ h.finish = g.finish /\ h.rate = g.rate
      /\ h.last = g.last /\ h.stored = g.stored /\ h.read = g.read
      /\ h.owed[a] = 0 /\ \A b \in Accounts : b # a => h.owed[b] = g.owed[b]
      /\ h \in FarmStorage
  BY <1>3, <1>7 DEF FarmStorage
<1>9. Applicable(h) = Applicable(g)
  BY <1>8 DEF Applicable
<1>10. FarmOK(h) /\ Current(h)
  BY <1>1, <1>8, <1>9 DEF FarmOK, Current
<1>11. RewardPerToken(h) = g.stored /\ RewardPerToken(g) = g.stored
  BY <1>1, <1>8, <1>10, CurrentReward
<1>12. \A b \in Accounts \ {a} : Earned(h, b) = Earned(g, b)
  BY <1>8, <1>11 DEF Earned
<1>13. g.staked[a] * (g.stored - g.read[a]) = 0
  BY <1>2, <1>7
<1>14. Earned(h, a) = 0
  <2>1. Earned(h, a) = 0 \div Precision + 0
    BY <1>8, <1>11, <1>13 DEF Earned
  <2>2. 0 \div Precision = 0
    BY <1>6
  <2> QED
    BY <2>1, <2>2
<1>15. /\ \A b \in Accounts : Unclaimed(g)[b] \in Int /\ Unclaimed(h)[b] \in Int
       /\ \A b \in Accounts \ {a} : Unclaimed(h)[b] = Unclaimed(g)[b]
       /\ Unclaimed(h)[a] = 0 /\ Unclaimed(g)[a] = Precision * Earned(f, a)
  <2>1. \A b \in Accounts : Unclaimed(g)[b] = g.staked[b] * (g.stored - g.read[b]) + Precision * g.owed[b]
    BY DEF Unclaimed
  <2>2. \A b \in Accounts : Unclaimed(h)[b] = g.staked[b] * (g.stored - g.read[b]) + Precision * h.owed[b]
    BY <1>8 DEF Unclaimed
  <2>3. \A b \in Accounts : g.staked[b] * (g.stored - g.read[b]) \in Int /\ Precision * g.owed[b] \in Int
    <3>1. \A s, st, x \in Nat : s * (st - x) \in Int
      BY SMT
    <3> QED
      BY <1>6, <1>7, <3>1, ProductIsNat
  <2>4. \A b \in Accounts \ {a} : Unclaimed(h)[b] = Unclaimed(g)[b]
    BY <1>8, <2>1, <2>2
  <2>5. Unclaimed(h)[a] = 0
    <3>1. Precision * 0 = 0
      BY <1>6
    <3> QED
      BY <1>8, <1>13, <2>2, <3>1
  <2>6. Unclaimed(g)[a] = Precision * Earned(f, a)
    <3>1. Precision * Earned(f, a) \in Nat
      BY <1>6, ProductIsNat
    <3> QED
      BY <1>2, <1>13, <2>1, <3>1
  <2>7. \A b \in Accounts : Unclaimed(g)[b] \in Int
    BY <2>1, <2>3
  <2> QED
    BY <2>4, <2>5, <2>6, <2>7
<1> DEFINE Sum(x) == SumFunctionOnSet(x, Accounts)
<1>16. Sum(Unclaimed(h)) = Sum(Unclaimed(g)) - Unclaimed(g)[a] + Unclaimed(h)[a]
  BY <1>15, AccountsAreFinite, SumOfChanged
<1>17. Sum(Unclaimed(g)) \in Int
  BY <1>15, AccountsAreFinite, SumIsNumber
<1>18. ASSUME NEW weth \in Int, Backed(g, weth)
       PROVE  Backed(h, weth - Earned(f, a))
  <2> DEFINE rest == Precision * ((g.finish - g.last) * g.rate)
             e == Precision * Earned(f, a)
  <2>1. rest \in Int /\ e \in Int /\ Precision * weth \in Int
    <3>1. \A x, y \in Int : x * y \in Int
      BY SMT
    <3>2. g.finish - g.last \in Int /\ g.rate \in Int /\ Precision \in Int /\ Earned(f, a) \in Int
      BY <1>6, <1>7
    <3> QED
      BY ONLY <3>1, <3>2, weth \in Int
  <2>2. Precision * (weth - Earned(f, a)) = Precision * weth - e
    BY <1>6
  <2>3. Sum(Unclaimed(h)) = Sum(Unclaimed(g)) - e
    BY <1>15, <1>16, <1>17, <2>1
  <2>4. Sum(Unclaimed(g)) + rest <= Precision * weth
    BY <1>18 DEF Backed
  <2>5. Sum(Unclaimed(h)) + rest <= Precision * weth - e
    <3> HIDE DEF Sum, rest, e
    <3> QED
      BY <1>17, <2>1, <2>3, <2>4
  <2> QED
    BY <1>8, <2>2, <2>5 DEF Backed
<1> QED
  BY <1>1, <1>4, <1>5, <1>8, <1>10, <1>12, <1>14, <1>18 DEF h

\* What is left of the stream is what was not yet rewarded of it.
LEMMA LeftIsLeft ==
    ASSUME now \in Nat, NEW f, FarmOK(f)
    PROVE  Leftover(f) \in Nat /\ Leftover(f) = (f.finish - Applicable(f)) * f.rate
<1>1. f.finish \in Nat /\ f.rate \in Nat
  BY FarmFields DEF FarmOK
<1>2. CASE now >= f.finish
  <2>1. Applicable(f) = f.finish /\ f.finish - f.finish = 0
    BY <1>1, <1>2 DEF Applicable, Earlier
  <2>2. 0 * f.rate = 0
    BY <1>1
  <2>3. Leftover(f) = 0
    BY <1>2 DEF Leftover
  <2> QED
    BY <2>1, <2>2, <2>3
<1>3. CASE ~(now >= f.finish)
  <2>1. Applicable(f) = now
    BY <1>1, <1>3 DEF Applicable, Earlier
  <2>2. Leftover(f) = (f.finish - now) * f.rate
    BY <1>3 DEF Leftover
  <2>3. f.finish - now \in Nat
    BY <1>1, <1>3
  <2>4. (f.finish - now) * f.rate \in Nat
    BY <1>1, <2>3, ProductIsNat
  <2> QED
    BY <2>1, <2>2, <2>4
<1> QED
  BY <1>2, <1>3

\* notifyRewardAmount starts the stream again with what is left of it and the new reward.
LEMMA NotifiedKeeps ==
    ASSUME now \in Nat, NEW f, FarmOK(f), NEW reward \in Nat
    PROVE  /\ FarmOK(Notified(f, reward))
           /\ Notified(f, reward).supply = f.supply
           /\ Notified(f, reward).staked = f.staked
           /\ \A a \in Accounts : Earned(Notified(f, reward), a) = Earned(f, a)
           /\ \A weth \in Int : Backed(f, weth) => Backed(Notified(f, reward), weth + reward)
<1> DEFINE g == Updated(f, {})
           h == Notified(f, reward)
           total == reward + Leftover(f)
           rate == total \div Duration
<1>1. /\ FarmOK(g) /\ Current(g) /\ g.supply = f.supply /\ g.staked = f.staked
      /\ g.finish = f.finish /\ g.rate = f.rate /\ g.last = Applicable(f)
  BY UpdatedOK, UpdatedFields DEF FarmOK
<1>2. h = [g EXCEPT !.rate = rate, !.last = now, !.finish = now + Duration]
  BY DEF Notified
<1>3. \A b \in Accounts : Earned(g, b) = Earned(f, b)
  BY UpdatedEarned
<1>4. \A weth \in Int : Backed(f, weth) => Backed(g, weth)
  BY UpdatedBacked
<1>5. f.finish \in Nat /\ f.rate \in Nat /\ Precision \in Nat \ {0} /\ Duration \in Nat \ {0}
  BY FarmFields, ScalesArePositive DEF FarmOK
<1>6. Leftover(f) \in Nat /\ Leftover(f) = (g.finish - g.last) * g.rate
  BY <1>1, LeftIsLeft
<1>7. total \in Nat
  BY <1>6
<1> HIDE DEF total
<1>8. rate \in Nat /\ rate * Duration <= total
  BY <1>5, <1>7, RoundsDown
<1> HIDE DEF g, h, rate
<1>9. g \in FarmStorage /\ g.stored \in Nat
  BY <1>1, FarmFields DEF FarmOK
<1>10. /\ h.staked = g.staked /\ h.supply = g.supply /\ h.stored = g.stored /\ h.read = g.read
       /\ h.owed = g.owed /\ h.finish = now + Duration /\ h.rate = rate /\ h.last = now
       /\ h \in FarmStorage
  <2>1. now + Duration \in Nat
    BY <1>5
  <2> QED
    BY ONLY <1>2, <1>8, <1>9, <2>1, now \in Nat DEF FarmStorage
<1>11. Applicable(h) = now
  BY <1>5, <1>10 DEF Applicable, Earlier
<1>12. FarmOK(h) /\ Current(h)
  BY <1>1, <1>10, <1>11 DEF FarmOK, Current
<1>13. RewardPerToken(h) = g.stored /\ RewardPerToken(g) = g.stored
  BY <1>1, <1>10, <1>12, CurrentReward
<1>14. \A b \in Accounts : Earned(h, b) = Earned(g, b)
  BY <1>10, <1>13 DEF Earned
<1>15. Unclaimed(h) = Unclaimed(g)
  BY <1>10 DEF Unclaimed
<1>16. ASSUME NEW weth \in Int, Backed(g, weth)
       PROVE  Backed(h, weth + reward)
  <2> DEFINE owing == SumFunctionOnSet(Unclaimed(g), Accounts)
             left == Leftover(f)
             stream == (h.finish - h.last) * h.rate
  <2>1. stream = rate * Duration
    <3>1. h.finish - h.last = Duration
      BY <1>5, <1>10
    <3>2. Duration * rate = rate * Duration
      BY <1>5, <1>8
    <3> QED
      BY <1>10, <3>1, <3>2
  <2>2. stream \in Nat /\ left \in Nat /\ stream <= reward + left
    <3>1. rate * Duration \in Nat
      BY <1>5, <1>8, ProductIsNat
    <3> QED
      BY <1>6, <1>8, <2>1, <3>1 DEF total
  <2>3. owing + Precision * left <= Precision * weth
    BY <1>6, <1>16 DEF Backed
  <2>4. owing \in Int
    <3>1. \A b \in Accounts : Unclaimed(g)[b] \in Int
      <4> TAKE b \in Accounts
      <4>1. Unclaimed(g)[b] = g.staked[b] * (g.stored - g.read[b]) + Precision * g.owed[b]
        BY DEF Unclaimed
      <4>2. {g.staked[b], g.read[b], g.owed[b], g.stored, Precision} \subseteq Nat
        BY <1>5, <1>9, FarmFields
      <4>3. \A s, st, x, p, o \in Nat : s * (st - x) + p * o \in Int
        BY SMT
      <4> QED
        BY ONLY <4>1, <4>2, <4>3
    <3> QED
      BY <3>1, AccountsAreFinite, SumIsNumber
  <2> HIDE DEF owing, left, stream
  <2>5. Precision * stream <= Precision * (reward + left)
    BY <1>5, <2>2, FactorKeepsOrder
  <2>6. /\ Precision * (reward + left) = Precision * reward + Precision * left
        /\ Precision * (weth + reward) = Precision * weth + Precision * reward
    BY <1>5, <2>2
  <2>7. {Precision * stream, Precision * left, Precision * reward, Precision * weth} \subseteq Int
    <3>1. \A x, y \in Int : x * y \in Int
      BY SMT
    <3> QED
      BY <1>5, <2>2, <3>1
  <2>8. owing + Precision * stream <= Precision * (weth + reward)
    BY ONLY <2>3, <2>4, <2>5, <2>6, <2>7
  <2> QED
    BY <1>15, <2>8 DEF Backed, owing, stream
<1> QED
  BY <1>1, <1>3, <1>4, <1>10, <1>12, <1>14, <1>16 DEF h

\* What a harvest sends the farm is a natural: the protocol's part is one percent.
LEMMA ToFarmIsNat ==
    ASSUME NEW swapped \in Nat, fees \in [weth: Nat, token: Nat]
    PROVE  ToFarm(swapped) \in Nat /\ (fees.weth + swapped = 0 => ToFarm(swapped) = 0)
<1> DEFINE total == fees.weth + swapped
<1>1. total \in Nat
  OBVIOUS
<1> HIDE DEF total
<1>2. (total * 100) \div 10000 \in Nat /\ (total * 100) \div 10000 <= total
  BY <1>1
<1>3. total - (total * 100) \div 10000 \in Nat /\ (total = 0 => total - (total * 100) \div 10000 = 0)
  BY <1>1, <1>2
<1> QED
  BY <1>3 DEF ToFarm, FeeBps, BasisPoints, total

\* A harvest, with nothing to send perhaps.
LEMMA HarvestsKeeps ==
    ASSUME now \in Nat, NEW f, FarmOK(f), fees \in [weth: Nat, token: Nat], NEW swapped \in Nat
    PROVE  /\ FarmOK(Harvests(swapped, f))
           /\ Harvests(swapped, f).supply = f.supply
           /\ Harvests(swapped, f).staked = f.staked
           /\ \A a \in Accounts : Earned(Harvests(swapped, f), a) = Earned(f, a)
           /\ \A weth \in Int :
                 Backed(f, weth) => Backed(Harvests(swapped, f), weth + ToFarm(swapped))
<1>1. ToFarm(swapped) \in Nat /\ (fees.weth + swapped = 0 => ToFarm(swapped) = 0)
  BY ToFarmIsNat
<1>2. CASE fees.weth + swapped = 0
  <2>1. Harvests(swapped, f) = f /\ \A weth \in Int : weth + ToFarm(swapped) = weth
    BY <1>1, <1>2 DEF Harvests
  <2> QED
    BY <2>1
<1>3. CASE fees.weth + swapped # 0
  <2>1. Harvests(swapped, f) = Notified(f, ToFarm(swapped))
    BY <1>3 DEF Harvests
  <2> DEFINE reward == ToFarm(swapped)
  <2>2. reward \in Nat
    BY <1>1
  <2> HIDE DEF reward
  <2>3. /\ FarmOK(Notified(f, reward))
        /\ Notified(f, reward).supply = f.supply
        /\ Notified(f, reward).staked = f.staked
        /\ \A a \in Accounts : Earned(Notified(f, reward), a) = Earned(f, a)
        /\ \A weth \in Int : Backed(f, weth) => Backed(Notified(f, reward), weth + reward)
    BY <2>2, NotifiedKeeps
  <2> QED
    BY <2>1, <2>3 DEF reward
<1> QED
  BY <1>2, <1>3

\* What is backed before the roundings is backed after them.
LEMMA EarnedIsBacked ==
    ASSUME now \in Nat, NEW f, FarmOK(f), NEW weth \in Int, Backed(f, weth)
    PROVE  weth >= Leftover(f) + SumFunction([a \in Accounts |-> Earned(f, a)])
<1> DEFINE g == Updated(f, Accounts)
           earned == [a \in Accounts |-> Earned(f, a)]
           left == Leftover(f)
           due == SumFunctionOnSet(earned, Accounts)
<1>1. Backed(g, weth)
  BY UpdatedBacked
<1>2. /\ g.finish = f.finish /\ g.rate = f.rate /\ g.last = Applicable(f)
      /\ \A a \in Accounts : g.owed[a] = Earned(f, a) /\ g.read[a] = g.stored
      /\ \A a \in Accounts : g.staked[a] = f.staked[a] /\ f.staked[a] \in Nat
      /\ g.stored \in Nat
  BY UpdatedFields, FarmFields, RewardGrows DEF FarmOK
<1>3. left \in Nat /\ left = (g.finish - g.last) * g.rate
  BY <1>2, LeftIsLeft
<1>4. Precision \in Nat \ {0} /\ \A a \in Accounts : earned[a] \in Nat /\ earned[a] = Earned(f, a)
  BY ScalesArePositive, EarnedIsNat
<1> HIDE DEF g, earned, left
<1>5. \A a \in Accounts : earned[a] \in Int /\ Unclaimed(g)[a] = Precision * earned[a]
  <2> TAKE a \in Accounts
  <2>1. Unclaimed(g)[a] = g.staked[a] * (g.stored - g.read[a]) + Precision * g.owed[a]
    BY DEF Unclaimed
  <2>2. g.staked[a] * (g.stored - g.read[a]) = 0
    BY <1>2
  <2>3. Precision * earned[a] \in Nat /\ g.owed[a] = earned[a]
    BY <1>2, <1>4, ProductIsNat
  <2> QED
    BY <1>4, <2>1, <2>2, <2>3
<1>6. SumFunctionOnSet(Unclaimed(g), Accounts) = Precision * due
  BY <1>4, <1>5, AccountsAreFinite, SumOfMultiples
<1>7. due \in Int
  BY <1>5, AccountsAreFinite, SumIsNumber
<1> HIDE DEF due
<1>8. Precision * due + Precision * left <= Precision * weth
  BY <1>1, <1>3, <1>6 DEF Backed
<1>9. Precision * (due + left) <= Precision * weth
  BY <1>3, <1>4, <1>7, <1>8
<1>10. due + left <= weth
  BY <1>3, <1>4, <1>7, <1>9, FactorTellsOrder
<1>11. SumFunction(earned) = due
  BY DEF SumFunction, SumFunctionOnSet, FoldFunction, FoldFunctionOnSet, due, earned
<1> QED
  BY <1>3, <1>7, <1>10, <1>11 DEF left, earned

-----------------------------------------------------------------------------
(* The vault *)

\* The conjuncts of StakesTypeOK that are about shares and liquidity.
VaultOK ==
    /\ shares \in [Holders -> Nat]
    /\ supply = SumFunction(shares)
    /\ supply > 0 => shares[Dead] >= MinShares
    /\ liquidity \in Nat /\ liquidity >= supply /\ (supply = 0 => liquidity = 0)

\* The supply is a number, and no holder has more; while it is not zero, less than all.
LEMMA SupplyIsNat ==
    ASSUME VaultOK
    PROVE  /\ supply \in Nat
           /\ \A h \in Holders : shares[h] \in Nat /\ shares[h] <= supply
           /\ supply > 0 => \A h \in Holders \ {Dead} : shares[h] < supply
<1>1. shares \in [Holders -> Nat] /\ supply = SumFunction(shares) /\ Dead \in Holders
  BY DEF VaultOK, Holders
<1>2. /\ SumFunction(shares) \in Nat
      /\ \A h \in Holders : shares[h] <= SumFunction(shares)
      /\ \A h, k \in Holders : h # k => shares[h] + shares[k] <= SumFunction(shares)
  BY <1>1, HoldersAreFinite, ValuesWithinSum
<1>3. ASSUME supply > 0, NEW h \in Holders \ {Dead}
      PROVE  shares[h] < supply
  <2>1. shares[h] + shares[Dead] <= supply /\ shares[Dead] >= MinShares /\ MinShares \in Nat \ {0}
    BY <1>1, <1>2, <1>3, ScalesArePositive DEF VaultOK
  <2>2. shares[h] \in Nat /\ shares[Dead] \in Nat /\ supply \in Nat
    BY <1>1, <1>2
  <2> QED
    BY ONLY <2>1, <2>2
<1> QED
  BY <1>1, <1>2, <1>3

\* Shares that move between two holders, who may be one, leave the sum.
LEMMA SharesMove ==
    ASSUME VaultOK, NEW from \in Holders, NEW to \in Holders, NEW n \in Nat, shares[from] >= n,
           from # Dead, UNCHANGED <<supply, liquidity>>,
           shares' = Moved(from, to, n)
    PROVE  /\ VaultOK'
           /\ from # to => shares'[from] = shares[from] - n /\ shares'[to] = shares[to] + n
           /\ \A h \in Holders \ {from} : shares'[h] >= shares[h]
<1> DEFINE mid == [shares EXCEPT ![from] = @ - n]
           end == shares'
<1>1. shares \in [Holders -> Nat] /\ from \in Holders /\ to \in Holders /\ n \in Nat
  BY DEF VaultOK
<1>2. shares[from] \in Nat /\ shares[from] - n \in Nat
  BY <1>1
<1>3. /\ mid \in [Holders -> Nat] /\ mid[from] = shares[from] - n
      /\ \A h \in Holders \ {from} : mid[h] = shares[h]
  BY <1>1, <1>2
<1>4. end = [mid EXCEPT ![to] = mid[to] + n]
  BY <1>1 DEF Moved
<1> HIDE DEF mid, end
<1>5. mid[to] \in Nat /\ mid[to] + n \in Nat
  BY <1>1, <1>3
<1>6. /\ end \in [Holders -> Nat] /\ end[to] = mid[to] + n
      /\ \A h \in Holders \ {to} : end[h] = mid[h]
  BY <1>1, <1>3, <1>4, <1>5
<1>7. SumFunction(mid) = SumFunction(shares) - shares[from] + mid[from]
  BY <1>1, <1>3, HoldersAreFinite, OneValueChanged
<1>8. SumFunction(end) = SumFunction(mid) - mid[to] + end[to]
  BY <1>1, <1>3, <1>6, HoldersAreFinite, OneValueChanged
<1>9. SumFunction(shares) \in Nat /\ SumFunction(mid) \in Nat
  BY <1>1, <1>3, HoldersAreFinite, ValuesWithinSum
<1>10. SumFunction(end) = SumFunction(shares)
  BY <1>1, <1>2, <1>3, <1>5, <1>6, <1>7, <1>8, <1>9
<1>11. \A h \in Holders \ {from} : end[h] >= shares[h]
  <2> TAKE h \in Holders \ {from}
  <2>1. mid[h] = shares[h] /\ shares[h] \in Nat
    BY <1>1, <1>3
  <2>2. end[h] = mid[h] \/ (h = to /\ end[h] = mid[h] + n)
    BY <1>6
  <2> QED
    BY <1>1, <2>1, <2>2
<1>12. from # to => end[from] = shares[from] - n /\ end[to] = shares[to] + n
  BY <1>1, <1>3, <1>6
<1>13. supply' > 0 => end[Dead] >= MinShares
  <2>1. supply' = supply /\ Dead \in Holders \ {from} /\ shares[Dead] \in Nat /\ end[Dead] \in Nat
        /\ MinShares \in Nat
    BY <1>1, <1>6, ScalesArePositive DEF Holders
  <2>2. supply > 0 => shares[Dead] >= MinShares
    BY DEF VaultOK
  <2>3. end[Dead] >= shares[Dead]
    BY <1>11, <2>1
  <2> QED
    BY ONLY <2>1, <2>2, <2>3
<1> QED
  BY <1>6, <1>10, <1>11, <1>12, <1>13 DEF VaultOK, end

\* What every step may do to a share's worth.
WorthStays == liquidity' * supply >= liquidity * supply'

\* A deposit mints shares in proportion to its liquidity, rounded down.
LEMMA AddsKeeps ==
    ASSUME VaultOK, NEW liq \in Nat \ {0}, NEW to \in Accounts \cup {Farm}, Adds(liq, to)
    PROVE  /\ VaultOK' /\ WorthStays
           /\ Minted(liq) \in Nat
           /\ shares'[to] = shares[to] + Minted(liq)
           /\ \A h \in Holders : shares'[h] >= shares[h]
<1> DEFINE locked == IF supply = 0 THEN MinShares ELSE 0
           minted == Minted(liq)
           mid == [shares EXCEPT ![Dead] = @ + locked]
           end == shares'
<1>1. /\ minted > 0 /\ liquidity' = liquidity + liq /\ supply' = supply + locked + minted
      /\ end = [mid EXCEPT ![to] = mid[to] + minted]
  BY DEF Adds
<1>2. /\ shares \in [Holders -> Nat] /\ Dead \in Holders /\ to \in Holders /\ to # Dead
      /\ supply = SumFunction(shares) /\ supply \in Nat /\ liquidity \in Nat /\ liquidity >= supply
      /\ MinShares \in Nat \ {0} /\ liq \in Nat
  BY HoldersDiffer, SupplyIsNat, ScalesArePositive DEF VaultOK, Holders
<1>3. minted \in Nat
  <2>1. CASE supply = 0
    BY <1>1, <1>2, <2>1 DEF Minted
  <2>2. CASE supply # 0
    <3>1. liq * supply \in Nat /\ liquidity \in Nat \ {0} /\ minted = (liq * supply) \div liquidity
      BY <1>2, <2>2, ProductIsNat DEF Minted
    <3> QED
      BY <3>1, RoundsDown
  <2> QED
    BY <2>1, <2>2
<1>4. supply = 0 => supply' = liq /\ liquidity = 0
  BY <1>1, <1>2 DEF Minted, VaultOK
<1>5. supply # 0 => minted * liquidity <= liq * supply /\ liquidity \in Nat \ {0}
  <2> SUFFICES ASSUME supply # 0
               PROVE  minted * liquidity <= liq * supply /\ liquidity \in Nat \ {0}
    OBVIOUS
  <2>1. liq * supply \in Nat /\ liquidity \in Nat \ {0} /\ minted = (liq * supply) \div liquidity
    BY <1>2, ProductIsNat DEF Minted
  <2> QED
    BY <2>1, RoundsDown
<1>6. locked \in Nat
  BY <1>2
<1>7. /\ mid \in [Holders -> Nat] /\ mid[Dead] = shares[Dead] + locked
      /\ \A h \in Holders \ {Dead} : mid[h] = shares[h]
  BY <1>2, <1>6
<1> HIDE DEF mid, end, minted
<1>8. /\ end \in [Holders -> Nat] /\ end[to] = mid[to] + minted
      /\ \A h \in Holders \ {to} : end[h] = mid[h]
  BY <1>1, <1>2, <1>3, <1>7
<1>9. SumFunction(mid) = SumFunction(shares) - shares[Dead] + mid[Dead]
  BY <1>2, <1>7, HoldersAreFinite, OneValueChanged
<1>10. SumFunction(end) = SumFunction(mid) - mid[to] + end[to]
  BY <1>2, <1>7, <1>8, HoldersAreFinite, OneValueChanged
<1>11. mid[to] \in Nat /\ shares[Dead] \in Nat /\ SumFunction(mid) \in Nat
  BY <1>2, <1>7, HoldersAreFinite, ValuesWithinSum
<1>12. supply' = SumFunction(end)
  BY <1>1, <1>2, <1>3, <1>6, <1>7, <1>8, <1>9, <1>10, <1>11
<1>13. \A h \in Holders : end[h] >= shares[h]
  <2> TAKE h \in Holders
  <2>1. shares[h] \in Nat /\ (mid[h] = shares[h] \/ mid[h] = shares[h] + locked)
    BY <1>2, <1>7
  <2>2. end[h] = mid[h] \/ end[h] = mid[h] + minted
    BY <1>8
  <2> QED
    BY ONLY <1>3, <1>6, <2>1, <2>2
<1>14. end[to] = shares[to] + minted
  BY <1>2, <1>7, <1>8
<1>15. end[Dead] >= MinShares
  <2>1. end[Dead] = shares[Dead] + locked
    BY <1>2, <1>7, <1>8
  <2>2. supply # 0 => shares[Dead] >= MinShares
    BY <1>2 DEF VaultOK
  <2> QED
    BY <1>2, <1>6, <1>11, <2>1, <2>2
<1>16. supply' \in Nat \ {0} /\ liquidity' \in Nat /\ liquidity' >= supply'
  <2>1. CASE supply = 0
    BY <1>1, <1>2, <1>4, <2>1
  <2>2. CASE supply # 0
    <3>1. minted <= liq
      <4>1. liq * supply <= liq * liquidity
        BY <1>2, FactorKeepsOrder
      <4>2. {liq * supply, liq * liquidity, minted * liquidity} \subseteq Nat
        BY <1>2, <1>3, ProductIsNat
      <4>3. liquidity * minted = minted * liquidity /\ liquidity * liq = liq * liquidity
        BY <1>2, <1>3
      <4>4. liquidity * minted <= liquidity * liq
        BY <1>5, <2>2, <4>1, <4>2, <4>3
      <4> QED
        BY <1>2, <1>3, <1>5, <2>2, <4>4, FactorTellsOrder
    <3>2. supply' = supply + minted
      BY <1>1, <1>2, <1>3, <2>2
    <3> QED
      BY <1>1, <1>2, <1>3, <2>2, <3>1, <3>2
  <2> QED
    BY <2>1, <2>2
<1>17. WorthStays
  <2>1. CASE supply = 0
    BY <1>1, <1>2, <1>4, <1>16, <2>1 DEF WorthStays
  <2>2. CASE supply # 0
    <3>1. supply' = supply + minted /\ liquidity' = liquidity + liq
      BY <1>1, <1>2, <1>3, <2>2
    <3>2. (liquidity + liq) * supply = liquidity * supply + liq * supply
      BY <1>2
    <3>3. liquidity * (supply + minted) = liquidity * supply + minted * liquidity
      BY <1>2, <1>3
    <3>4. {liquidity * supply, liq * supply, minted * liquidity} \subseteq Nat
      BY <1>2, <1>3, ProductIsNat
    <3>5. (liquidity + liq) * supply >= liquidity * (supply + minted)
      BY <1>5, <2>2, <3>2, <3>3, <3>4
    <3> QED
      BY <3>1, <3>5 DEF WorthStays
  <2> QED
    BY <2>1, <2>2
<1>18. VaultOK'
  BY <1>8, <1>12, <1>15, <1>16 DEF VaultOK, end
<1> QED
  BY <1>3, <1>13, <1>14, <1>17, <1>18 DEF end, minted

\* A withdrawal takes a share's part of the liquidity, rounded down, and never the last shares.
LEMMA BurnsKeeps ==
    ASSUME VaultOK, NEW n \in Nat \ {0}, NEW from \in Accounts \cup {Farm}, Burns(n, from)
    PROVE  /\ VaultOK' /\ WorthStays
           /\ shares'[from] = shares[from] - n
           /\ \A h \in Holders \ {from} : shares'[h] = shares[h]
<1> DEFINE end == shares'
           slice == Slice(n)
<1>1. /\ shares[from] >= n /\ liquidity' = liquidity - slice /\ supply' = supply - n
      /\ end = [shares EXCEPT ![from] = shares[from] - n]
  BY DEF Burns
<1>2. /\ shares \in [Holders -> Nat] /\ Dead \in Holders /\ from \in Holders \ {Dead}
      /\ supply = SumFunction(shares) /\ supply \in Nat /\ liquidity \in Nat /\ liquidity >= supply
      /\ shares[from] \in Nat /\ shares[from] <= supply
  BY HoldersDiffer, SupplyIsNat DEF VaultOK, Holders
<1>3. supply > 0 /\ n < supply /\ supply' \in Nat \ {0}
  <2>1. supply > 0
    BY <1>1, <1>2
  <2>2. shares[from] < supply
    BY <1>2, <2>1, SupplyIsNat
  <2> QED
    BY <1>1, <1>2, <2>1, <2>2
<1>4. slice \in Nat /\ slice * supply <= liquidity * n
  <2>1. liquidity * n \in Nat /\ slice = (liquidity * n) \div supply
    BY <1>2, ProductIsNat DEF Slice
  <2> QED
    BY <1>2, <1>3, <2>1, RoundsDown
<1> HIDE DEF end, slice
<1>5. /\ end \in [Holders -> Nat] /\ end[from] = shares[from] - n
      /\ \A h \in Holders \ {from} : end[h] = shares[h]
  BY <1>1, <1>2
<1>6. SumFunction(end) = SumFunction(shares) - shares[from] + end[from]
  BY <1>2, <1>5, HoldersAreFinite, OneValueChanged
<1>7. supply' = SumFunction(end)
  BY <1>1, <1>2, <1>5, <1>6
<1>8. end[Dead] >= MinShares
  BY <1>2, <1>3, <1>5 DEF VaultOK
<1>9. {liquidity * supply, liquidity * n, slice * supply} \subseteq Nat
  BY <1>2, <1>4, ProductIsNat
<1>10. /\ (liquidity - slice) * supply = liquidity * supply - slice * supply
       /\ liquidity * (supply - n) = liquidity * supply - liquidity * n
  BY <1>2, <1>4
<1>11. (liquidity - slice) * supply >= liquidity * (supply - n)
  BY <1>4, <1>9, <1>10
<1>12. WorthStays
  BY <1>1, <1>11 DEF WorthStays
<1>13. liquidity' \in Nat /\ liquidity' >= supply'
  <2> DEFINE l == liquidity - slice
             s == supply - n
  <2>1. l \in Int /\ s \in Nat
    BY <1>1, <1>2, <1>3, <1>4
  <2>2. s * supply <= s * liquidity
    BY <1>2, <2>1, FactorKeepsOrder
  <2>3. liquidity * s <= l * supply
    BY <1>11
  <2> HIDE DEF l, s
  <2>4. s * liquidity = liquidity * s /\ s * supply = supply * s /\ l * supply = supply * l
    BY <1>2, <2>1
  <2>5. {s * supply, s * liquidity} \subseteq Nat /\ l * supply \in Int
    BY <1>2, <2>1, ProductIsNat
  <2>6. supply * s <= supply * l
    BY <2>2, <2>3, <2>4, <2>5
  <2>7. s <= l
    BY <1>2, <1>3, <2>1, <2>6, FactorTellsOrder
  <2> QED
    BY <1>1, <2>1, <2>7 DEF l, s
<1>14. VaultOK'
  BY <1>3, <1>5, <1>7, <1>8, <1>13 DEF VaultOK, end
<1> QED
  BY <1>5, <1>12, <1>14 DEF end

-----------------------------------------------------------------------------
(* The inductive invariant, and what every step keeps with it *)

StakesInv == StakesTypeOK /\ Backed(farm, farmWeth)

\* What every step may do to what an account has earned.
EarnedStays == \A a \in Accounts : paid'[a] + Earned(farm, a)' >= paid[a] + Earned(farm, a)

\* The parts of the invariant.
LEMMA InvParts ==
    StakesInv <=> /\ VaultOK /\ FarmOK(farm) /\ Backed(farm, farmWeth)
                  /\ farm.supply <= shares[Farm]
                  /\ fees \in [weth: Nat, token: Nat] /\ waiting \in Nat
                  /\ farmWeth \in Nat /\ paid \in [Accounts -> Nat] /\ now \in Nat
BY DEF StakesInv, StakesTypeOK, VaultOK, FarmOK

\* A call takes no time, so all it does to the farm is in its storage.
LEMMA CallKeeps ==
    ASSUME StakesInv, UNCHANGED now, VaultOK', WorthStays,
           FarmOK(farm'), Backed(farm', farmWeth'), farm'.supply <= shares'[Farm],
           fees' \in [weth: Nat, token: Nat], waiting' \in Nat,
           farmWeth' \in Nat, paid' \in [Accounts -> Nat],
           \A a \in Accounts : paid'[a] + Earned(farm', a) >= paid[a] + Earned(farm, a)
    PROVE  StakesInv' /\ WorthStays /\ EarnedStays
<1>1. Applicable(farm)' = Applicable(farm')
  BY DEF Applicable
<1>2. RewardPerToken(farm)' = RewardPerToken(farm')
  BY <1>1 DEF RewardPerToken
<1>3. \A a \in Accounts : Earned(farm, a)' = Earned(farm', a)
  BY <1>2 DEF Earned
<1>4. FarmOK(farm)'
  BY <1>1 DEF FarmOK
<1>5. Backed(farm, farmWeth)'
  BY DEF Backed, Unclaimed
<1>6. now' \in Nat
  BY InvParts
<1>7. StakesInv'
  BY <1>4, <1>5, <1>6 DEF StakesInv, StakesTypeOK, VaultOK, FarmOK
<1> QED
  BY <1>3, <1>7 DEF EarnedStays

\* A step that mints and burns nothing.
LEMMA SameWorth ==
    ASSUME VaultOK, UNCHANGED <<supply, liquidity>>
    PROVE  WorthStays
<1>1. supply \in Nat /\ liquidity \in Nat
  BY SupplyIsNat DEF VaultOK
<1>2. liquidity * supply \in Nat
  BY <1>1, ProductIsNat
<1> QED
  BY <1>2 DEF WorthStays

\* A step that leaves the vault's shares and liquidity alone.
LEMMA VaultStays ==
    ASSUME VaultOK, UNCHANGED <<shares, supply, liquidity>>
    PROVE  VaultOK' /\ WorthStays
<1>1. VaultOK'
  BY DEF VaultOK
<1> QED
  BY <1>1, SameWorth

\* Nobody has staked more than all.
LEMMA StakeWithinSupply ==
    ASSUME FarmOK(farm), NEW a \in Accounts
    PROVE  farm.staked[a] \in Nat /\ farm.staked[a] <= farm.supply
<1> DEFINE staked == farm.staked
<1>1. staked \in [Accounts -> Nat] /\ farm.supply = SumFunction(staked)
  BY FarmFields DEF FarmOK
<1> HIDE DEF staked
<1>2. staked[a] <= SumFunction(staked)
  BY <1>1, AccountsAreFinite, ValuesWithinSum
<1> QED
  BY <1>1, <1>2 DEF staked

\* The fees are collected, and sold or kept waiting.
LEMMA CollectsKeeps ==
    ASSUME StakesInv, NEW swapped \in Proceeds, Collects(swapped)
    PROVE  /\ swapped \in Nat /\ ToFarm(swapped) \in Nat
           /\ fees' \in [weth: Nat, token: Nat] /\ waiting' \in Nat
<1>1. fees \in [weth: Nat, token: Nat] /\ waiting \in Nat
  BY InvParts
<1>2. fees.token \in Nat
  BY <1>1
<1>3. swapped \in Nat
  BY <1>1, <1>2 DEF Proceeds
<1> QED
  BY <1>1, <1>2, <1>3, ToFarmIsNat DEF Collects, NoFees

\* The farm after a harvest, as a step of the system finds it.
LEMMA HarvestedFarm ==
    ASSUME StakesInv, NEW swapped \in Proceeds, Collects(swapped),
           NEW f, FarmOK(f), NEW weth \in Nat, Backed(f, weth)
    PROVE  /\ FarmOK(Harvests(swapped, f))
           /\ Harvests(swapped, f).supply = f.supply
           /\ \A a \in Accounts : Earned(Harvests(swapped, f), a) = Earned(f, a)
           /\ weth + ToFarm(swapped) \in Nat
           /\ Backed(Harvests(swapped, f), weth + ToFarm(swapped))
<1>1. now \in Nat /\ fees \in [weth: Nat, token: Nat]
  BY InvParts
<1>2. swapped \in Nat /\ ToFarm(swapped) \in Nat
  BY CollectsKeeps
<1>3. weth \in Int /\ weth + ToFarm(swapped) \in Nat
  BY <1>2
<1>4. /\ FarmOK(Harvests(swapped, f))
      /\ Harvests(swapped, f).supply = f.supply
      /\ \A a \in Accounts : Earned(Harvests(swapped, f), a) = Earned(f, a)
      /\ \A w \in Int : Backed(f, w) => Backed(Harvests(swapped, f), w + ToFarm(swapped))
  BY <1>1, <1>2, HarvestsKeeps
<1> QED
  BY <1>3, <1>4

\* What an account is paid, and everybody has had since.
LEMMA PaysKeeps ==
    ASSUME StakesInv, NEW a \in Accounts, Pays(a, Earned(farm, a))
    PROVE  /\ Earned(farm, a) \in Nat /\ farmWeth - Earned(farm, a) \in Nat
           /\ paid' \in [Accounts -> Nat] /\ paid'[a] = paid[a] + Earned(farm, a)
           /\ \A b \in Accounts \ {a} : paid'[b] = paid[b]
<1>1. farmWeth \in Nat /\ paid \in [Accounts -> Nat] /\ now \in Nat /\ FarmOK(farm)
  BY InvParts
<1>2. Earned(farm, a) \in Nat
  BY <1>1, EarnedIsNat
<1>3. Earned(farm, a) <= farmWeth /\ paid' = [paid EXCEPT ![a] = paid[a] + Earned(farm, a)]
  BY DEF Pays
<1> QED
  BY <1>1, <1>2, <1>3

\* Paid out is as good as earned.
LEMMA PaidIsEarned ==
    ASSUME StakesInv, NEW a \in Accounts, NEW g, Earned(g, a) = 0,
           \A b \in Accounts \ {a} : Earned(g, b) = Earned(farm, b),
           paid'[a] = paid[a] + Earned(farm, a), \A b \in Accounts \ {a} : paid'[b] = paid[b]
    PROVE  \A b \in Accounts : paid'[b] + Earned(g, b) >= paid[b] + Earned(farm, b)
<1> TAKE b \in Accounts
<1>1. paid[b] \in Nat /\ Earned(farm, b) \in Nat
  BY InvParts, EarnedIsNat
<1>2. CASE b = a
  BY <1>1, <1>2
<1>3. CASE b # a
  BY <1>1, <1>3
<1> QED
  BY <1>2, <1>3

\* Nobody is paid.
LEMMA NobodyPaid ==
    ASSUME StakesInv, UNCHANGED paid, NEW g, FarmOK(farm),
           \A a \in Accounts : Earned(g, a) = Earned(farm, a)
    PROVE  /\ paid' \in [Accounts -> Nat]
           /\ \A a \in Accounts : paid'[a] + Earned(g, a) >= paid[a] + Earned(farm, a)
<1>1. paid \in [Accounts -> Nat] /\ now \in Nat
  BY InvParts
<1>2. \A a \in Accounts : Earned(farm, a) \in Nat
  BY <1>1, EarnedIsNat
<1> QED
  BY <1>1, <1>2

-----------------------------------------------------------------------------
(* Calls of the vault *)

\* deposit
LEMMA DepositStep ==
    ASSUME StakesInv, NEW to \in Accounts, NEW liq \in Deposits, Deposit(to, liq)
    PROVE  StakesInv' /\ WorthStays /\ EarnedStays
<1>1. PICK swapped \in Proceeds :
        /\ Collects(swapped)
        /\ Adds(liq, to)
        /\ farm' = Harvests(swapped, farm)
        /\ farmWeth' = farmWeth + ToFarm(swapped)
        /\ UNCHANGED <<paid, now>>
  BY DEF Deposit
<1>2. /\ VaultOK /\ FarmOK(farm) /\ Backed(farm, farmWeth) /\ farm.supply <= shares[Farm]
      /\ farmWeth \in Nat /\ farm.supply \in Nat /\ Farm \in Holders
  BY InvParts, FarmFields DEF FarmOK, Holders
<1>3. VaultOK' /\ WorthStays /\ shares'[Farm] >= shares[Farm]
  <2>1. liq \in Nat \ {0}
    BY StakesConstants
  <2> QED
    BY <1>1, <1>2, <2>1, AddsKeeps
<1>4. /\ FarmOK(farm') /\ farm'.supply = farm.supply /\ farmWeth' \in Nat /\ Backed(farm', farmWeth')
      /\ \A a \in Accounts : Earned(farm', a) = Earned(farm, a)
  BY <1>1, <1>2, HarvestedFarm
<1>5. farm'.supply <= shares'[Farm]
  <2>1. shares[Farm] \in Nat /\ shares'[Farm] \in Nat
    BY <1>2, <1>3 DEF VaultOK
  <2> QED
    BY <1>2, <1>3, <1>4, <2>1
<1>6. fees' \in [weth: Nat, token: Nat] /\ waiting' \in Nat
  BY <1>1, CollectsKeeps
<1>7. /\ paid' \in [Accounts -> Nat]
      /\ \A a \in Accounts : paid'[a] + Earned(farm', a) >= paid[a] + Earned(farm, a)
  BY <1>1, <1>2, <1>4, NobodyPaid
<1> QED
  BY <1>1, <1>3, <1>4, <1>5, <1>6, <1>7, CallKeeps

\* withdraw
LEMMA WithdrawStep ==
    ASSUME StakesInv, NEW a \in Accounts, NEW n \in Amounts, Withdraw(a, n)
    PROVE  StakesInv' /\ WorthStays /\ EarnedStays
<1>1. PICK swapped \in Proceeds :
        /\ Collects(swapped)
        /\ Burns(n, a)
        /\ farm' = Harvests(swapped, farm)
        /\ farmWeth' = farmWeth + ToFarm(swapped)
        /\ UNCHANGED <<paid, now>>
  BY DEF Withdraw
<1>2. /\ VaultOK /\ FarmOK(farm) /\ Backed(farm, farmWeth) /\ farm.supply <= shares[Farm]
      /\ farmWeth \in Nat /\ Farm \in Holders \ {a}
  BY InvParts, HoldersDiffer DEF Holders
<1>3. VaultOK' /\ WorthStays /\ shares'[Farm] = shares[Farm]
  <2>1. n \in Nat \ {0}
    BY StakesConstants
  <2> QED
    BY <1>1, <1>2, <2>1, BurnsKeeps
<1>4. /\ FarmOK(farm') /\ farm'.supply = farm.supply /\ farmWeth' \in Nat /\ Backed(farm', farmWeth')
      /\ \A b \in Accounts : Earned(farm', b) = Earned(farm, b)
  BY <1>1, <1>2, HarvestedFarm
<1>5. fees' \in [weth: Nat, token: Nat] /\ waiting' \in Nat
  BY <1>1, CollectsKeeps
<1>6. /\ paid' \in [Accounts -> Nat]
      /\ \A b \in Accounts : paid'[b] + Earned(farm', b) >= paid[b] + Earned(farm, b)
  BY <1>1, <1>2, <1>4, NobodyPaid
<1> QED
  BY <1>1, <1>2, <1>3, <1>4, <1>5, <1>6, CallKeeps

\* harvest
LEMMA HarvestStep ==
    ASSUME StakesInv, Harvest
    PROVE  StakesInv' /\ WorthStays /\ EarnedStays
<1>1. PICK swapped \in Proceeds :
        /\ Collects(swapped)
        /\ farm' = Harvests(swapped, farm)
        /\ farmWeth' = farmWeth + ToFarm(swapped)
        /\ UNCHANGED <<shares, supply, liquidity, paid, now>>
  BY DEF Harvest
<1>2. /\ VaultOK /\ FarmOK(farm) /\ Backed(farm, farmWeth) /\ farm.supply <= shares[Farm]
      /\ farmWeth \in Nat
  BY InvParts
<1>3. VaultOK' /\ WorthStays
  BY <1>1, <1>2, VaultStays
<1>4. /\ FarmOK(farm') /\ farm'.supply = farm.supply /\ farmWeth' \in Nat /\ Backed(farm', farmWeth')
      /\ \A a \in Accounts : Earned(farm', a) = Earned(farm, a)
  BY <1>1, <1>2, HarvestedFarm
<1>5. fees' \in [weth: Nat, token: Nat] /\ waiting' \in Nat
  BY <1>1, CollectsKeeps
<1>6. /\ paid' \in [Accounts -> Nat]
      /\ \A a \in Accounts : paid'[a] + Earned(farm', a) >= paid[a] + Earned(farm, a)
  BY <1>1, <1>2, <1>4, NobodyPaid
<1> QED
  BY <1>1, <1>2, <1>3, <1>4, <1>5, <1>6, CallKeeps

\* transfer and transferFrom: the farm's shares may grow with nobody's stake.
LEMMA TransferStep ==
    ASSUME StakesInv, NEW a \in Accounts, NEW to \in Accounts \cup {Farm}, NEW n \in Amounts,
           Transfer(a, to, n)
    PROVE  StakesInv' /\ WorthStays /\ EarnedStays
<1>1. /\ VaultOK /\ FarmOK(farm) /\ Backed(farm, farmWeth) /\ farm.supply <= shares[Farm]
      /\ farmWeth \in Nat /\ farm.supply \in Nat
      /\ fees \in [weth: Nat, token: Nat] /\ waiting \in Nat
      /\ Farm \in Holders \ {a} /\ a \in Holders /\ to \in Holders /\ a # Dead
  BY InvParts, FarmFields, HoldersDiffer DEF FarmOK, Holders
<1>2. /\ shares[a] >= n /\ shares' = Moved(a, to, n)
      /\ UNCHANGED <<supply, liquidity, fees, waiting, farm, farmWeth, paid, now>>
  BY DEF Transfer
<1>3. n \in Nat
  BY StakesConstants
<1>4. VaultOK' /\ shares'[Farm] >= shares[Farm]
  BY <1>1, <1>2, <1>3, SharesMove
<1>5. WorthStays
  BY <1>1, <1>2, SameWorth
<1>6. farm'.supply <= shares'[Farm]
  <2>1. shares[Farm] \in Nat /\ shares'[Farm] \in Nat
    BY <1>1, <1>4 DEF VaultOK
  <2> QED
    BY <1>1, <1>2, <1>4, <2>1
<1>7. /\ paid' \in [Accounts -> Nat]
      /\ \A b \in Accounts : paid'[b] + Earned(farm', b) >= paid[b] + Earned(farm, b)
  BY <1>1, <1>2, NobodyPaid
<1>8. FarmOK(farm') /\ Backed(farm', farmWeth')
  BY <1>1, <1>2
<1> QED
  BY <1>1, <1>2, <1>4, <1>5, <1>6, <1>7, <1>8, CallKeeps

-----------------------------------------------------------------------------
(* Calls of the farm *)

\* stake and stakeFor
LEMMA StakeStep ==
    ASSUME StakesInv, NEW a \in Accounts, NEW to \in Accounts, NEW n \in Amounts, Stake(a, to, n)
    PROVE  StakesInv' /\ WorthStays /\ EarnedStays
<1>1. /\ VaultOK /\ FarmOK(farm) /\ Backed(farm, farmWeth) /\ farm.supply <= shares[Farm]
      /\ farmWeth \in Nat /\ farm.supply \in Nat /\ now \in Nat
      /\ fees \in [weth: Nat, token: Nat] /\ waiting \in Nat
      /\ Farm \in Holders /\ a \in Holders /\ a # Farm /\ a # Dead
  BY InvParts, FarmFields, HoldersDiffer DEF FarmOK, Holders
<1>2. /\ shares[a] >= n /\ shares' = Moved(a, Farm, n) /\ farm' = Staked(farm, to, n)
      /\ UNCHANGED <<supply, liquidity, fees, waiting, farmWeth, paid, now>>
  BY DEF Stake
<1>3. n \in Nat
  BY StakesConstants
<1>4. VaultOK' /\ shares'[Farm] = shares[Farm] + n
  BY <1>1, <1>2, <1>3, SharesMove
<1>5. WorthStays
  BY <1>1, <1>2, SameWorth
<1>6. /\ FarmOK(farm') /\ farm'.supply = farm.supply + n /\ Backed(farm', farmWeth)
      /\ \A b \in Accounts : Earned(farm', b) = Earned(farm, b)
  <2>1. /\ FarmOK(Staked(farm, to, n))
        /\ Staked(farm, to, n).supply = farm.supply + n
        /\ \A b \in Accounts : Earned(Staked(farm, to, n), b) = Earned(farm, b)
        /\ \A weth \in Int : Backed(farm, weth) => Backed(Staked(farm, to, n), weth)
    BY <1>1, <1>3, StakedKeeps
  <2> QED
    BY <1>1, <1>2, <2>1
<1>7. farm'.supply <= shares'[Farm]
  <2>1. shares[Farm] \in Nat
    BY <1>1 DEF VaultOK
  <2> QED
    BY <1>1, <1>3, <1>4, <1>6, <2>1
<1>8. /\ paid' \in [Accounts -> Nat]
      /\ \A b \in Accounts : paid'[b] + Earned(farm', b) >= paid[b] + Earned(farm, b)
  BY <1>1, <1>2, <1>6, NobodyPaid
<1> QED
  BY <1>1, <1>2, <1>4, <1>5, <1>6, <1>7, <1>8, CallKeeps

\* withdraw of the farm: the shares are there, since the farm holds all that is staked.
LEMMA UnstakeStep ==
    ASSUME StakesInv, NEW a \in Accounts, NEW n \in Amounts, Unstake(a, n)
    PROVE  StakesInv' /\ WorthStays /\ EarnedStays
<1>1. /\ VaultOK /\ FarmOK(farm) /\ Backed(farm, farmWeth) /\ farm.supply <= shares[Farm]
      /\ farmWeth \in Nat /\ farm.supply \in Nat /\ now \in Nat
      /\ fees \in [weth: Nat, token: Nat] /\ waiting \in Nat
      /\ Farm \in Holders /\ a \in Holders /\ a # Farm /\ Farm # Dead
  BY InvParts, FarmFields, HoldersDiffer DEF FarmOK, Holders
<1>2. /\ n <= farm.staked[a] /\ shares' = Moved(Farm, a, n) /\ farm' = Unstaked(farm, a, n)
      /\ UNCHANGED <<supply, liquidity, fees, waiting, farmWeth, paid, now>>
  <2>1. farm.staked[a] >= n /\ farm.staked[a] \in Nat /\ n \in Nat
    BY <1>1, FarmFields, StakesConstants DEF Unstake, FarmOK
  <2> QED
    BY <2>1 DEF Unstake
<1>3. n \in Nat
  BY StakesConstants
<1>4. shares[Farm] \in Nat /\ shares[Farm] >= n
  <2>1. farm.staked[a] <= farm.supply /\ farm.staked[a] \in Nat
    BY <1>1, StakeWithinSupply
  <2>2. shares[Farm] \in Nat
    BY <1>1 DEF VaultOK
  <2> QED
    BY <1>1, <1>2, <1>3, <2>1, <2>2
<1>5. VaultOK' /\ shares'[Farm] = shares[Farm] - n
  BY <1>1, <1>2, <1>3, <1>4, SharesMove
<1>6. WorthStays
  BY <1>1, <1>2, SameWorth
<1>7. /\ FarmOK(farm') /\ farm'.supply = farm.supply - n /\ Backed(farm', farmWeth)
      /\ \A b \in Accounts : Earned(farm', b) = Earned(farm, b)
  BY <1>1, <1>2, <1>3, UnstakedKeeps
<1>8. farm'.supply <= shares'[Farm]
  BY <1>1, <1>3, <1>4, <1>5, <1>7
<1>9. /\ paid' \in [Accounts -> Nat]
      /\ \A b \in Accounts : paid'[b] + Earned(farm', b) >= paid[b] + Earned(farm, b)
  BY <1>1, <1>2, <1>7, NobodyPaid
<1> QED
  BY <1>1, <1>2, <1>5, <1>6, <1>7, <1>8, <1>9, CallKeeps

\* getReward
LEMMA GetRewardStep ==
    ASSUME StakesInv, NEW a \in Accounts, GetReward(a)
    PROVE  StakesInv' /\ WorthStays /\ EarnedStays
<1>1. /\ VaultOK /\ FarmOK(farm) /\ Backed(farm, farmWeth) /\ farm.supply <= shares[Farm]
      /\ farmWeth \in Nat /\ now \in Nat /\ paid \in [Accounts -> Nat]
      /\ fees \in [weth: Nat, token: Nat] /\ waiting \in Nat
  BY InvParts
<1>2. /\ Pays(a, Earned(farm, a)) /\ farm' = Claimed(farm, a)
      /\ farmWeth' = farmWeth - Earned(farm, a)
      /\ UNCHANGED <<shares, supply, liquidity, fees, waiting, now>>
  BY DEF GetReward
<1>3. VaultOK' /\ WorthStays
  BY <1>1, <1>2, VaultStays
<1>4. /\ Earned(farm, a) \in Nat /\ farmWeth' \in Nat
      /\ paid' \in [Accounts -> Nat] /\ paid'[a] = paid[a] + Earned(farm, a)
      /\ \A b \in Accounts \ {a} : paid'[b] = paid[b]
  BY <1>2, PaysKeeps
<1>5. /\ FarmOK(farm') /\ farm'.supply = farm.supply
      /\ Earned(farm', a) = 0
      /\ \A b \in Accounts \ {a} : Earned(farm', b) = Earned(farm, b)
      /\ \A weth \in Int : Backed(farm, weth) => Backed(farm', weth - Earned(farm, a))
  BY <1>1, <1>2, ClaimedKeeps
<1>6. Backed(farm', farmWeth')
  BY <1>1, <1>2, <1>5
<1>7. \A b \in Accounts : paid'[b] + Earned(farm', b) >= paid[b] + Earned(farm, b)
  BY <1>1, <1>4, <1>5, PaidIsEarned
<1> QED
  BY <1>1, <1>2, <1>3, <1>4, <1>5, <1>6, <1>7, CallKeeps

-----------------------------------------------------------------------------
(* Calls of the zap *)

\* zapETH, zapWETH, zapToken, zapBoth: the shares are minted to the farm and staked.
LEMMA ZapStep ==
    ASSUME StakesInv, NEW a \in Accounts, NEW liq \in Deposits, Zap(a, liq)
    PROVE  StakesInv' /\ WorthStays /\ EarnedStays
<1>1. PICK swapped \in Proceeds :
        /\ Collects(swapped)
        /\ Adds(liq, Farm)
        /\ farm' = Staked(Harvests(swapped, farm), a, Minted(liq))
        /\ farmWeth' = farmWeth + ToFarm(swapped)
        /\ UNCHANGED <<paid, now>>
  BY DEF Zap
<1> DEFINE g == Harvests(swapped, farm)
           h == Staked(g, a, Minted(liq))
<1>2. /\ VaultOK /\ FarmOK(farm) /\ Backed(farm, farmWeth) /\ farm.supply <= shares[Farm]
      /\ farmWeth \in Nat /\ farm.supply \in Nat /\ now \in Nat /\ Farm \in Holders
  BY InvParts, FarmFields DEF FarmOK, Holders
<1>3. VaultOK' /\ WorthStays /\ Minted(liq) \in Nat /\ shares'[Farm] = shares[Farm] + Minted(liq)
  <2>1. liq \in Nat \ {0}
    BY StakesConstants
  <2> QED
    BY <1>1, <1>2, <2>1, AddsKeeps
<1>4. /\ FarmOK(g) /\ g.supply = farm.supply /\ farmWeth' \in Nat /\ Backed(g, farmWeth')
      /\ \A b \in Accounts : Earned(g, b) = Earned(farm, b)
  BY <1>1, <1>2, HarvestedFarm
<1> HIDE DEF g
<1>5. /\ FarmOK(h) /\ h.supply = g.supply + Minted(liq)
      /\ \A b \in Accounts : Earned(h, b) = Earned(g, b)
      /\ \A weth \in Int : Backed(g, weth) => Backed(h, weth)
  BY <1>2, <1>3, <1>4, StakedKeeps
<1>6. farm' = h
  BY <1>1 DEF g
<1> HIDE DEF h
<1>7. /\ FarmOK(farm') /\ Backed(farm', farmWeth') /\ farm'.supply = farm.supply + Minted(liq)
      /\ \A b \in Accounts : Earned(farm', b) = Earned(farm, b)
  BY <1>4, <1>5, <1>6
<1>8. farm'.supply <= shares'[Farm]
  <2>1. shares[Farm] \in Nat
    BY <1>2 DEF VaultOK
  <2> QED
    BY <1>2, <1>3, <1>7, <2>1
<1>9. fees' \in [weth: Nat, token: Nat] /\ waiting' \in Nat
  BY <1>1, CollectsKeeps
<1>10. /\ paid' \in [Accounts -> Nat]
       /\ \A b \in Accounts : paid'[b] + Earned(farm', b) >= paid[b] + Earned(farm, b)
  BY <1>1, <1>2, <1>7, NobodyPaid
<1> QED
  BY <1>1, <1>3, <1>4, <1>7, <1>8, <1>9, <1>10, CallKeeps

\* compound: claimed, harvested and staked in one transaction.
LEMMA CompoundStep ==
    ASSUME StakesInv, NEW a \in Accounts, NEW liq \in Deposits, Compound(a, liq)
    PROVE  StakesInv' /\ WorthStays /\ EarnedStays
<1>1. PICK swapped \in Proceeds :
        /\ Pays(a, Earned(farm, a))
        /\ Collects(swapped)
        /\ Adds(liq, Farm)
        /\ farm' = Staked(Harvests(swapped, Claimed(farm, a)), a, Minted(liq))
        /\ farmWeth' = farmWeth - Earned(farm, a) + ToFarm(swapped)
        /\ UNCHANGED now
  BY DEF Compound
<1> DEFINE c == Claimed(farm, a)
           g == Harvests(swapped, c)
           h == Staked(g, a, Minted(liq))
           rest == farmWeth - Earned(farm, a)
<1>2. /\ VaultOK /\ FarmOK(farm) /\ Backed(farm, farmWeth) /\ farm.supply <= shares[Farm]
      /\ farmWeth \in Nat /\ farm.supply \in Nat /\ now \in Nat /\ Farm \in Holders
  BY InvParts, FarmFields DEF FarmOK, Holders
<1>3. VaultOK' /\ WorthStays /\ Minted(liq) \in Nat /\ shares'[Farm] = shares[Farm] + Minted(liq)
  <2>1. liq \in Nat \ {0}
    BY StakesConstants
  <2> QED
    BY <1>1, <1>2, <2>1, AddsKeeps
<1>4. /\ rest \in Nat
      /\ paid' \in [Accounts -> Nat] /\ paid'[a] = paid[a] + Earned(farm, a)
      /\ \A b \in Accounts \ {a} : paid'[b] = paid[b]
  BY <1>1, PaysKeeps
<1>5. /\ FarmOK(c) /\ c.supply = farm.supply /\ Backed(c, rest)
      /\ Earned(c, a) = 0
      /\ \A b \in Accounts \ {a} : Earned(c, b) = Earned(farm, b)
  <2>1. /\ FarmOK(c) /\ c.supply = farm.supply
        /\ Earned(c, a) = 0
        /\ \A b \in Accounts \ {a} : Earned(c, b) = Earned(farm, b)
        /\ \A weth \in Int : Backed(farm, weth) => Backed(c, weth - Earned(farm, a))
    BY <1>2, ClaimedKeeps
  <2> QED
    BY <1>2, <2>1
<1> HIDE DEF c, rest
<1>6. /\ FarmOK(g) /\ g.supply = c.supply
      /\ rest + ToFarm(swapped) \in Nat /\ Backed(g, rest + ToFarm(swapped))
      /\ \A b \in Accounts : Earned(g, b) = Earned(c, b)
  BY <1>1, <1>4, <1>5, HarvestedFarm
<1> HIDE DEF g
<1>7. /\ FarmOK(h) /\ h.supply = g.supply + Minted(liq)
      /\ \A b \in Accounts : Earned(h, b) = Earned(g, b)
      /\ \A weth \in Int : Backed(g, weth) => Backed(h, weth)
  BY <1>2, <1>3, <1>6, StakedKeeps
<1>8. farm' = h /\ farmWeth' = rest + ToFarm(swapped)
  BY <1>1 DEF c, g, rest
<1> HIDE DEF h
<1>9. /\ FarmOK(farm') /\ Backed(farm', farmWeth') /\ farmWeth' \in Nat
      /\ farm'.supply = farm.supply + Minted(liq)
      /\ Earned(farm', a) = 0
      /\ \A b \in Accounts \ {a} : Earned(farm', b) = Earned(farm, b)
  BY <1>5, <1>6, <1>7, <1>8
<1>10. farm'.supply <= shares'[Farm]
  <2>1. shares[Farm] \in Nat
    BY <1>2 DEF VaultOK
  <2> QED
    BY <1>2, <1>3, <1>9, <2>1
<1>11. fees' \in [weth: Nat, token: Nat] /\ waiting' \in Nat
  BY <1>1, CollectsKeeps
<1>12. \A b \in Accounts : paid'[b] + Earned(farm', b) >= paid[b] + Earned(farm, b)
  BY <1>2, <1>4, <1>9, PaidIsEarned
<1> QED
  BY <1>1, <1>3, <1>4, <1>9, <1>10, <1>11, <1>12, CallKeeps

\* zapOut, zapOutToETH: the shares burnt are the farm's, and as many leave the stake.
LEMMA ZapOutStep ==
    ASSUME StakesInv, NEW a \in Accounts, NEW n \in Amounts, ZapOut(a, n)
    PROVE  StakesInv' /\ WorthStays /\ EarnedStays
<1>1. PICK swapped \in Proceeds :
        /\ farm.staked[a] >= n
        /\ Pays(a, Earned(farm, a))
        /\ Collects(swapped)
        /\ Burns(n, Farm)
        /\ farm' = Harvests(swapped, Claimed(Unstaked(farm, a, n), a))
        /\ farmWeth' = farmWeth - Earned(farm, a) + ToFarm(swapped)
        /\ UNCHANGED now
  BY DEF ZapOut
<1> DEFINE u == Unstaked(farm, a, n)
           c == Claimed(u, a)
           g == Harvests(swapped, c)
           rest == farmWeth - Earned(farm, a)
<1>2. /\ VaultOK /\ FarmOK(farm) /\ Backed(farm, farmWeth) /\ farm.supply <= shares[Farm]
      /\ farmWeth \in Nat /\ farm.supply \in Nat /\ now \in Nat /\ Farm \in Holders
  BY InvParts, FarmFields DEF FarmOK, Holders
<1>3. n \in Nat \ {0} /\ farm.staked[a] \in Nat /\ n <= farm.staked[a]
  <2>1. n \in Nat \ {0}
    BY StakesConstants
  <2>2. farm.staked[a] \in Nat
    BY <1>2, StakeWithinSupply
  <2> QED
    BY <1>1, <2>1, <2>2
<1>4. VaultOK' /\ WorthStays /\ shares'[Farm] = shares[Farm] - n
  BY <1>1, <1>2, <1>3, BurnsKeeps
<1>5. /\ rest \in Nat /\ Earned(farm, a) \in Nat
      /\ paid' \in [Accounts -> Nat] /\ paid'[a] = paid[a] + Earned(farm, a)
      /\ \A b \in Accounts \ {a} : paid'[b] = paid[b]
  BY <1>1, PaysKeeps
<1>6. /\ FarmOK(u) /\ u.supply = farm.supply - n /\ Backed(u, farmWeth)
      /\ \A b \in Accounts : Earned(u, b) = Earned(farm, b)
  <2>1. /\ FarmOK(u) /\ u.supply = farm.supply - n
        /\ \A b \in Accounts : Earned(u, b) = Earned(farm, b)
        /\ \A weth \in Int : Backed(farm, weth) => Backed(u, weth)
    BY <1>2, <1>3, UnstakedKeeps
  <2> QED
    BY <1>2, <2>1
<1> HIDE DEF u
<1>7. /\ FarmOK(c) /\ c.supply = u.supply /\ Backed(c, rest)
      /\ Earned(c, a) = 0
      /\ \A b \in Accounts \ {a} : Earned(c, b) = Earned(u, b)
  <2>1. /\ FarmOK(c) /\ c.supply = u.supply
        /\ Earned(c, a) = 0
        /\ \A b \in Accounts \ {a} : Earned(c, b) = Earned(u, b)
        /\ \A weth \in Int : Backed(u, weth) => Backed(c, weth - Earned(u, a))
    BY <1>2, <1>6, ClaimedKeeps
  <2>2. Earned(u, a) = Earned(farm, a) /\ farmWeth \in Int
    BY <1>2, <1>6
  <2> QED
    BY <1>6, <2>1, <2>2
<1> HIDE DEF c, rest
<1>8. /\ FarmOK(g) /\ g.supply = c.supply
      /\ rest + ToFarm(swapped) \in Nat /\ Backed(g, rest + ToFarm(swapped))
      /\ \A b \in Accounts : Earned(g, b) = Earned(c, b)
  BY <1>1, <1>5, <1>7, HarvestedFarm
<1>9. farm' = g /\ farmWeth' = rest + ToFarm(swapped)
  BY <1>1 DEF c, u, rest
<1> HIDE DEF g
<1>10. /\ FarmOK(farm') /\ Backed(farm', farmWeth') /\ farmWeth' \in Nat
       /\ farm'.supply = farm.supply - n
       /\ Earned(farm', a) = 0
       /\ \A b \in Accounts \ {a} : Earned(farm', b) = Earned(farm, b)
  BY <1>6, <1>7, <1>8, <1>9
<1>11. farm'.supply <= shares'[Farm]
  <2>1. shares[Farm] \in Nat
    BY <1>2 DEF VaultOK
  <2> QED
    BY <1>2, <1>3, <1>4, <1>10, <2>1
<1>12. fees' \in [weth: Nat, token: Nat] /\ waiting' \in Nat
  BY <1>1, CollectsKeeps
<1>13. \A b \in Accounts : paid'[b] + Earned(farm', b) >= paid[b] + Earned(farm, b)
  BY <1>2, <1>5, <1>10, PaidIsEarned
<1> QED
  BY <1>1, <1>4, <1>5, <1>10, <1>11, <1>12, <1>13, CallKeeps

-----------------------------------------------------------------------------
(* The pool and the chain *)

\* The pool's fees and a donation touch nothing of the farm.
LEMMA SurroundingsStep ==
    ASSUME StakesInv,
           \/ \E income \in Incomes : PoolPays(income)
           \/ \E liq \in Deposits : Donate(liq)
    PROVE  StakesInv' /\ WorthStays /\ EarnedStays
<1>1. /\ VaultOK /\ FarmOK(farm) /\ Backed(farm, farmWeth) /\ farm.supply <= shares[Farm]
      /\ farmWeth \in Nat /\ fees \in [weth: Nat, token: Nat] /\ waiting \in Nat
  BY InvParts
<1>2. UNCHANGED <<shares, supply, waiting, farm, farmWeth, paid, now>>
  BY DEF PoolPays, Donate
<1>3. /\ FarmOK(farm') /\ Backed(farm', farmWeth') /\ farm'.supply <= shares'[Farm]
      /\ farmWeth' \in Nat /\ waiting' \in Nat
  BY <1>1, <1>2
<1>4. /\ paid' \in [Accounts -> Nat]
      /\ \A b \in Accounts : paid'[b] + Earned(farm', b) >= paid[b] + Earned(farm, b)
  BY <1>1, <1>2, NobodyPaid
<1>5. ASSUME NEW income \in Incomes, PoolPays(income)
      PROVE  fees' \in [weth: Nat, token: Nat] /\ VaultOK' /\ WorthStays
  <2>1. income \in [weth: Nat, token: Nat]
    BY StakesConstants
  <2>2. fees' = [weth |-> fees.weth + income.weth, token |-> fees.token + income.token]
        /\ UNCHANGED liquidity
    BY <1>5 DEF PoolPays
  <2>3. fees' \in [weth: Nat, token: Nat]
    BY <1>1, <2>1, <2>2
  <2> QED
    BY <1>1, <1>2, <2>2, <2>3, VaultStays
<1>6. ASSUME NEW liq \in Deposits, Donate(liq)
      PROVE  fees' \in [weth: Nat, token: Nat] /\ VaultOK' /\ WorthStays
  <2>1. liq \in Nat \ {0}
    BY StakesConstants
  <2>2. supply > 0 /\ liquidity' = liquidity + liq /\ UNCHANGED fees
    BY <1>6 DEF Donate
  <2>3. supply \in Nat /\ liquidity \in Nat
    BY <1>1, SupplyIsNat DEF VaultOK
  <2>4. VaultOK'
    BY <1>1, <1>2, <2>1, <2>2, <2>3 DEF VaultOK
  <2>5. supply * liquidity <= supply * (liquidity + liq)
    BY <2>1, <2>3, FactorKeepsOrder
  <2>6. supply * liquidity = liquidity * supply
        /\ supply * (liquidity + liq) = (liquidity + liq) * supply
    BY <2>1, <2>3
  <2>7. WorthStays
    BY <1>2, <2>2, <2>5, <2>6 DEF WorthStays
  <2> QED
    BY <1>1, <2>2, <2>4, <2>7
<1>7. UNCHANGED now
  BY <1>2
<1>8. fees' \in [weth: Nat, token: Nat] /\ VaultOK' /\ WorthStays
  BY <1>5, <1>6
<1> QED
  BY <1>3, <1>4, <1>7, <1>8, CallKeeps

\* As time passes rewards accrue: what an account has earned does not fall.
LEMMA TickStep ==
    ASSUME StakesInv, Tick
    PROVE  StakesInv' /\ WorthStays /\ EarnedStays
<1>1. /\ VaultOK /\ FarmOK(farm) /\ Backed(farm, farmWeth) /\ farm.supply <= shares[Farm]
      /\ farmWeth \in Nat /\ fees \in [weth: Nat, token: Nat] /\ waiting \in Nat
      /\ paid \in [Accounts -> Nat] /\ now \in Nat
  BY InvParts
<1>2. now' = now + 1
      /\ UNCHANGED <<shares, supply, liquidity, fees, waiting, farm, farmWeth, paid>>
  BY DEF Tick
<1> DEFINE A == Applicable(farm)
           B == Applicable(farm)'
           R == RewardPerToken(farm)
           Q == RewardPerToken(farm)'
<1>3. /\ farm.finish \in Nat /\ farm.last \in Nat /\ farm.rate \in Nat /\ farm.stored \in Nat
      /\ farm.supply \in Nat
      /\ \A a \in Accounts : farm.staked[a] \in Nat /\ farm.read[a] \in Nat /\ farm.owed[a] \in Nat
  BY <1>1, FarmFields DEF FarmOK
<1>4. A \in Nat /\ B \in Nat /\ A <= B /\ farm.last <= A
  <2>1. farm.last <= A
    BY <1>1 DEF FarmOK
  <2>2. B = IF now' < farm.finish THEN now' ELSE farm.finish
    BY <1>2 DEF Applicable, Earlier
  <2>3. A = IF now < farm.finish THEN now ELSE farm.finish
    BY DEF Applicable, Earlier
  <2> QED
    BY <1>1, <1>2, <1>3, <2>1, <2>2, <2>3
<1>5. /\ R = IF farm.supply = 0 THEN farm.stored
             ELSE farm.stored + ((A - farm.last) * farm.rate * Precision) \div farm.supply
      /\ Q = IF farm.supply = 0 THEN farm.stored
             ELSE farm.stored + ((B - farm.last) * farm.rate * Precision) \div farm.supply
  BY <1>2 DEF RewardPerToken
<1>6. R \in Nat /\ farm.stored <= R
  BY <1>1, RewardGrows
<1>7. FarmOK(farm)'
  <2>1. farm' = farm
    BY <1>2
  <2>2. farm'.last <= Applicable(farm)'
    BY <1>3, <1>4, <2>1
  <2> QED
    BY <1>1, <2>1, <2>2 DEF FarmOK
<1> HIDE DEF A, B, R, Q
<1>8. Q \in Nat /\ R <= Q
  <2>1. CASE farm.supply = 0
    BY <1>3, <1>5, <2>1
  <2>2. CASE farm.supply # 0
    <3> DEFINE u == (A - farm.last) * farm.rate
               v == (B - farm.last) * farm.rate
    <3>1. u \in Nat /\ v \in Nat /\ u <= v
      <4>1. A - farm.last \in Nat /\ B - farm.last \in Nat /\ A - farm.last <= B - farm.last
        BY <1>3, <1>4
      <4>2. farm.rate * (A - farm.last) <= farm.rate * (B - farm.last)
        BY <1>3, <4>1, FactorKeepsOrder
      <4>3. u = farm.rate * (A - farm.last) /\ v = farm.rate * (B - farm.last)
        BY <1>3, <4>1
      <4> QED
        BY <1>3, <4>1, <4>2, <4>3, ProductIsNat
    <3> HIDE DEF u, v
    <3>2. u * Precision \in Nat /\ v * Precision \in Nat /\ u * Precision <= v * Precision
      <4>1. Precision * u <= Precision * v /\ Precision \in Nat
        BY <3>1, ScalesArePositive, FactorKeepsOrder
      <4>2. u * Precision = Precision * u /\ v * Precision = Precision * v
        BY <3>1, <4>1
      <4> QED
        BY <3>1, <4>1, <4>2, ProductIsNat
    <3>3. (u * Precision) \div farm.supply <= (v * Precision) \div farm.supply
          /\ (u * Precision) \div farm.supply \in Nat /\ (v * Precision) \div farm.supply \in Nat
      BY <1>3, <2>2, <3>2, DivisionIsMonotone, RoundsDown
    <3>4. R = farm.stored + (u * Precision) \div farm.supply
          /\ Q = farm.stored + (v * Precision) \div farm.supply
      BY <1>5, <2>2 DEF u, v
    <3> QED
      BY <1>3, <3>3, <3>4
  <2> QED
    BY <2>1, <2>2
<1>9. EarnedStays
  <2> SUFFICES ASSUME NEW a \in Accounts
               PROVE  paid'[a] + Earned(farm, a)' >= paid[a] + Earned(farm, a)
    BY DEF EarnedStays
  <2> DEFINE s == farm.staked[a]
             x == farm.read[a]
             o == farm.owed[a]
             p == paid[a]
             e == (s * (R - x)) \div Precision
             f == (s * (Q - x)) \div Precision
  <2>1. s \in Nat /\ x \in Nat /\ o \in Nat /\ x <= farm.stored /\ p \in Nat /\ paid'[a] = p
    BY <1>1, <1>2, <1>3 DEF FarmOK
  <2>2. Earned(farm, a) = e + o
    BY DEF Earned, R
  <2>3. Earned(farm, a)' = f + o
    BY <1>2 DEF Earned, Q
  <2> HIDE DEF s, x, o, p
  <2>4. R - x \in Nat /\ Q - x \in Nat /\ R - x <= Q - x
    BY <1>3, <1>6, <1>8, <2>1
  <2>5. s * (R - x) \in Nat /\ s * (Q - x) \in Nat /\ s * (R - x) <= s * (Q - x)
    BY <2>1, <2>4, ProductIsNat, FactorKeepsOrder
  <2>6. e \in Nat /\ f \in Nat /\ e <= f
    BY <2>5, ScalesArePositive, DivisionIsMonotone, RoundsDown
  <2> HIDE DEF e, f
  <2>7. p + (f + o) >= p + (e + o)
    BY ONLY <2>1, <2>6
  <2>8. paid'[a] = p /\ paid[a] = p
    BY <2>1 DEF p
  <2> QED
    BY ONLY <2>2, <2>3, <2>7, <2>8
<1>10. VaultOK' /\ WorthStays
  BY <1>1, <1>2, VaultStays
<1>11. Backed(farm, farmWeth)'
  <2>1. UNCHANGED <<farm, farmWeth>>
    BY <1>2
  <2> QED
    BY <1>1, <2>1 DEF Backed, Unclaimed
<1>12. StakesInv'
  <2>1. now' \in Nat
    BY <1>1, <1>2
  <2> QED
    BY <1>1, <1>2, <1>7, <1>10, <1>11, <2>1 DEF StakesInv, StakesTypeOK, VaultOK, FarmOK
<1> QED
  BY <1>9, <1>10, <1>12

-----------------------------------------------------------------------------
(* The specification *)

\* In the beginning there is nothing to share.
LEMMA StakesStart == StakesInit => StakesInv
<1> SUFFICES ASSUME StakesInit
             PROVE  StakesInv
  OBVIOUS
<1> DEFINE zero(S) == [x \in S |-> 0]
           due == Unclaimed(farm)
<1>1. ASSUME NEW S, IsFiniteSet(S)
      PROVE  zero(S) \in [S -> Nat] /\ SumFunction(zero(S)) = 0
  <2>1. \A x \in S : zero(S)[x] = 0
    OBVIOUS
  <2> HIDE DEF zero
  <2>2. SumFunctionOnSet(zero(S), S) = 0
    BY <1>1, <2>1, SumOfZeros
  <2> QED
    BY <2>2 DEF SumFunction, SumFunctionOnSet, FoldFunction, FoldFunctionOnSet, zero
<1>2. /\ farm.staked = zero(Accounts) /\ farm.read = zero(Accounts) /\ farm.owed = zero(Accounts)
      /\ farm.finish = 0 /\ farm.rate = 0 /\ farm.last = 0 /\ farm.stored = 0 /\ farm.supply = 0
      /\ farm \in FarmStorage
  BY DEF StakesInit, FarmStorage
<1>3. shares = zero(Holders) /\ paid = zero(Accounts) /\ now = 0 /\ farmWeth = 0 /\ waiting = 0
      /\ supply = 0 /\ liquidity = 0 /\ fees = NoFees
  BY DEF StakesInit
<1>4. \A a \in Accounts : farm.staked[a] = 0 /\ farm.read[a] = 0 /\ farm.owed[a] = 0
  BY <1>2
<1>5. /\ zero(Accounts) \in [Accounts -> Nat] /\ SumFunction(zero(Accounts)) = 0
      /\ zero(Holders) \in [Holders -> Nat] /\ SumFunction(zero(Holders)) = 0
      /\ \A h \in Holders : zero(Holders)[h] = 0
  BY <1>1, AccountsAreFinite, HoldersAreFinite
<1> HIDE DEF zero
<1>6. VaultOK
  BY <1>3, <1>5 DEF VaultOK
<1>7. FarmOK(farm)
  <2>1. farm.last <= Applicable(farm)
    BY <1>2, <1>3 DEF Applicable, Earlier
  <2> QED
    BY <1>2, <1>4, <1>5, <2>1 DEF FarmOK
<1>8. \A a \in Accounts : due[a] = 0
  <2> TAKE a \in Accounts
  <2>1. due[a] = farm.staked[a] * (farm.stored - farm.read[a]) + Precision * farm.owed[a]
    BY DEF Unclaimed
  <2>2. due[a] = 0 * (0 - 0) + Precision * 0
    BY <1>2, <1>4, <2>1
  <2> QED
    BY <2>2, ScalesArePositive
<1> HIDE DEF due
<1>9. SumFunctionOnSet(due, Accounts) = 0
  BY <1>8, AccountsAreFinite, SumOfZeros
<1>10. Backed(farm, farmWeth)
  <2>1. Precision * ((0 - 0) * 0) = 0 /\ Precision * 0 = 0
    BY ScalesArePositive
  <2> QED
    BY <1>2, <1>3, <1>9, <2>1 DEF Backed, due
<1>11. farm.supply <= shares[Farm]
  BY <1>2, <1>3, <1>5 DEF Holders
<1>12. fees \in [weth: Nat, token: Nat] /\ waiting \in Nat /\ farmWeth \in Nat
       /\ paid \in [Accounts -> Nat] /\ now \in Nat
  BY <1>3, <1>5 DEF NoFees
<1> QED
  BY <1>6, <1>7, <1>10, <1>11, <1>12, InvParts

\* Every call keeps the invariant, what a share is worth and what everyone has earned.
LEMMA StakesStep ==
    StakesInv /\ [StakesNext]_stakesVars => StakesInv' /\ WorthStays /\ EarnedStays
<1> SUFFICES ASSUME StakesInv, [StakesNext]_stakesVars
             PROVE  StakesInv' /\ WorthStays /\ EarnedStays
  OBVIOUS
<1>1. CASE VaultCalls
  <2>1. CASE \E a \in Accounts, liq \in Deposits : Deposit(a, liq)
    BY <2>1, DepositStep
  <2>2. CASE \E a \in Accounts, n \in Amounts : Withdraw(a, n)
    BY <2>2, WithdrawStep
  <2>3. CASE \E a \in Accounts, to \in Accounts \cup {Farm}, n \in Amounts : Transfer(a, to, n)
    BY <2>3, TransferStep
  <2>4. CASE Harvest
    BY <2>4, HarvestStep
  <2> QED
    BY <1>1, <2>1, <2>2, <2>3, <2>4 DEF VaultCalls
<1>2. CASE FarmCalls
  <2> SUFFICES ASSUME NEW a \in Accounts,
                      \/ GetReward(a)
                      \/ \E n \in Amounts : Unstake(a, n) \/ \E to \in Accounts : Stake(a, to, n)
               PROVE  StakesInv' /\ WorthStays /\ EarnedStays
    BY <1>2 DEF FarmCalls
  <2>1. CASE GetReward(a)
    BY <2>1, GetRewardStep
  <2>2. CASE \E n \in Amounts : Unstake(a, n)
    BY <2>2, UnstakeStep
  <2>3. CASE \E n \in Amounts, to \in Accounts : Stake(a, to, n)
    BY <2>3, StakeStep
  <2> QED
    BY <2>1, <2>2, <2>3
<1>3. CASE ZapCalls
  <2> SUFFICES ASSUME NEW a \in Accounts,
                      \/ \E liq \in Deposits : Zap(a, liq) \/ Compound(a, liq)
                      \/ \E n \in Amounts : ZapOut(a, n)
               PROVE  StakesInv' /\ WorthStays /\ EarnedStays
    BY <1>3 DEF ZapCalls
  <2>1. CASE \E liq \in Deposits : Zap(a, liq)
    BY <2>1, ZapStep
  <2>2. CASE \E liq \in Deposits : Compound(a, liq)
    BY <2>2, CompoundStep
  <2>3. CASE \E n \in Amounts : ZapOut(a, n)
    BY <2>3, ZapOutStep
  <2> QED
    BY <2>1, <2>2, <2>3
<1>4. CASE Surroundings
  BY <1>4, SurroundingsStep, TickStep DEF Surroundings
<1>5. CASE UNCHANGED stakesVars
  <2>1. UNCHANGED <<shares, supply, liquidity, fees, waiting, farm, farmWeth, paid, now>>
    BY <1>5 DEF stakesVars
  <2>2. /\ VaultOK /\ FarmOK(farm) /\ Backed(farm, farmWeth) /\ farm.supply <= shares[Farm]
        /\ farmWeth \in Nat /\ fees \in [weth: Nat, token: Nat] /\ waiting \in Nat
    BY InvParts
  <2>3. VaultOK' /\ WorthStays
    BY <2>1, <2>2, VaultStays
  <2>4. /\ FarmOK(farm') /\ Backed(farm', farmWeth') /\ farm'.supply <= shares'[Farm]
        /\ farmWeth' \in Nat /\ waiting' \in Nat /\ fees' \in [weth: Nat, token: Nat]
    BY <2>1, <2>2
  <2>5. /\ paid' \in [Accounts -> Nat]
        /\ \A a \in Accounts : paid'[a] + Earned(farm', a) >= paid[a] + Earned(farm, a)
    BY <2>1, <2>2, NobodyPaid
  <2> QED
    BY <2>1, <2>3, <2>4, <2>5, CallKeeps
<1> QED
  BY <1>1, <1>2, <1>3, <1>4, <1>5 DEF StakesNext

\* So the invariant holds from the first deposit on.
LEMMA StakesInvHolds == StakesSpec => []StakesInv
BY StakesStart, StakesStep, PTL DEF StakesSpec

\* Shares add up to the supply and stakes to the farm's, which holds them; the supply never
\* returns to zero, and a share is never less than a unit of liquidity.
THEOREM StakesTypes == StakesSpec => []StakesTypeOK
<1>1. StakesInv => StakesTypeOK
  BY DEF StakesInv
<1> QED
  BY <1>1, StakesInvHolds, PTL

\* The farm can pay all that everyone has earned and the rest of its stream (withdrawFor,
\* notifyRewardAmount), whatever was rounded away on the way.
THEOREM RewardsAreBacked == StakesSpec => []RewardsBacked
<1>1. StakesInv => RewardsBacked
  <2> SUFFICES ASSUME StakesInv
               PROVE  RewardsBacked
    OBVIOUS
  <2> DEFINE due == SumFunction([a \in Accounts |-> Earned(farm, a)])
             left == IF now < farm.finish THEN (farm.finish - now) * farm.rate ELSE 0
  <2>1. now \in Nat /\ farmWeth \in Int /\ FarmOK(farm) /\ Backed(farm, farmWeth)
    BY InvParts
  <2>2. farmWeth >= Leftover(farm) + due
    BY <2>1, EarnedIsBacked
  <2>3. Leftover(farm) = left
    <3>1. farm.finish \in Nat
      BY <2>1, FarmFields DEF FarmOK
    <3> QED
      BY <2>1, <3>1 DEF Leftover
  <2> QED
    BY <2>2, <2>3 DEF RewardsBacked
<1> QED
  BY <1>1, StakesInvHolds, PTL

\* What an account has been paid and has earned never falls: each call credits it before it
\* changes the stake, the stream or the rewards (the modifier update).
THEOREM EarningsAreKept == StakesSpec => EarnedKept
<1>1. StakesInv /\ [StakesNext]_stakesVars
        => [\A a \in Accounts : paid'[a] + Earned(farm, a)' >= paid[a] + Earned(farm, a)]_stakesVars
  BY StakesStep DEF EarnedStays
<1> QED
  BY <1>1, StakesInvHolds, PTL DEF StakesSpec, EarnedKept

\* No deposit, withdrawal or donation lowers what a share redeems for.
THEOREM WorthIsKept == StakesSpec => WorthKept
<1>1. StakesInv /\ [StakesNext]_stakesVars
        => [liquidity' * supply >= liquidity * supply']_stakesVars
  BY StakesStep DEF WorthStays
<1> QED
  BY <1>1, StakesInvHolds, PTL DEF StakesSpec, WorthKept
=============================================================================
