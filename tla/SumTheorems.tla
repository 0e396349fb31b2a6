---------------------------- MODULE SumTheorems -----------------------------
(***************************************************************************)
(* What the proofs about money need to know of a sum over a finite set,    *)
(* SumFunctionOnSet(f, S) of the community module Functions.  It is        *)
(* defined by a recursive function over the subsets of S that takes out    *)
(* one chosen element at a time; the lemmas here show that such a function *)
(* exists, that the choice does not matter, and how the sum changes with   *)
(* the set and with the values.                                            *)
(*                                                                         *)
(* Induction is over the subsets of a finite set, with the subsets for     *)
(* which the claim holds collected in a set (SubsetInduction).             *)
(***************************************************************************)
EXTENDS Integers, Functions, FiniteSets, FiniteSetTheorems, WellFoundedInduction, TLAPS

\* What the recursive function of a sum says of one subset.
Chosen(s) == CHOOSE x \in s : TRUE
SumStep(f, s, h) == IF s = {} THEN 0 ELSE f[Chosen(s)] + h[s \ {Chosen(s)}]

\* h sums f over every subset of S.
SumsUp(f, S, h) == h = [s \in SUBSET S |-> SumStep(f, s, h)]

-----------------------------------------------------------------------------
(* Induction *)

\* A nonempty set of naturals has a least element.
LEMMA LeastNatural ==
    ASSUME NEW T, T \subseteq Nat, T # {}
    PROVE  \E k \in T : \A m \in T : k <= m
<1>1. \E k \in T : \A m \in T : ~(<<m, k>> \in OpToRel(<, Nat))
  BY WFMin, NatLessThanWellFounded
<1>2. PICK k \in T : \A m \in T : ~(<<m, k>> \in OpToRel(<, Nat))
  BY <1>1
<1>3. ASSUME NEW m \in T
      PROVE  k <= m
  <2>1. ~(<<m, k>> \in OpToRel(<, Nat))
    BY <1>2
  <2>2. ~(m < k)
    BY <2>1 DEF OpToRel
  <2> QED
    BY <2>2
<1> QED
  BY <1>3

\* What holds for a subset of a finite set as soon as it holds for those with one
\* element less holds for all its subsets.
LEMMA SubsetInduction ==
    ASSUME NEW S, IsFiniteSet(S), NEW G,
           \A s \in SUBSET S : (\A x \in s : s \ {x} \in G) => s \in G
    PROVE  SUBSET S \subseteq G
<1> SUFFICES ASSUME NEW u \in SUBSET S, u \notin G
             PROVE  FALSE
  OBVIOUS
<1> DEFINE T == {Cardinality(s) : s \in (SUBSET S) \ G}
<1>1. T \subseteq Nat /\ T # {}
  <2>1. ASSUME NEW s \in SUBSET S
        PROVE  Cardinality(s) \in Nat
    BY FS_Subset, FS_CardinalityType
  <2> QED
    BY <2>1
<1>2. PICK k \in T : \A m \in T : k <= m
  <2> HIDE DEF T
  <2> QED
    BY <1>1, LeastNatural
<1>3. PICK s \in (SUBSET S) \ G : k = Cardinality(s)
  BY <1>2
<1>4. ASSUME NEW x \in s
      PROVE  s \ {x} \in G
  <2>1. IsFiniteSet(s)
    BY <1>3, FS_Subset
  <2>2. Cardinality(s \ {x}) = Cardinality(s) - 1 /\ Cardinality(s) \in Nat
    BY <2>1, FS_RemoveElement, FS_CardinalityType
  <2>3. s \ {x} \notin G => Cardinality(s \ {x}) \in T
    BY <1>3
  <2> QED
    BY <1>2, <1>3, <2>2, <2>3
<1> QED
  BY <1>3, <1>4

-----------------------------------------------------------------------------
(* The recursive function of the sum *)

\* A finite set has one: of the subsets of up to n elements for every n, each from
\* the one before, hence of all of them.
LEMMA SumsExist ==
    ASSUME NEW f, NEW S, IsFiniteSet(S)
    PROVE  \E h : SumsUp(f, S, h)
<1> DEFINE Upto(n) == {t \in SUBSET S : Cardinality(t) <= n}
           For(n) == \E h : h = [t \in Upto(n) |-> SumStep(f, t, h)]
<1>1. \A t \in SUBSET S : IsFiniteSet(t) /\ Cardinality(t) \in Nat
  BY FS_Subset, FS_CardinalityType
<1>2. ASSUME NEW k \in Nat, k # 0 => For(k - 1)
      PROVE  For(k)
  <2> DEFINE g == IF k = 0 THEN << >> ELSE CHOOSE h : h = [t \in Upto(k - 1) |-> SumStep(f, t, h)]
             h == [t \in Upto(k) |-> SumStep(f, t, g)]
  <2>1. ASSUME NEW t \in Upto(k)
        PROVE  SumStep(f, t, g) = SumStep(f, t, h)
    <3>1. CASE t = {}
      BY <3>1 DEF SumStep
    <3>2. CASE t # {}
      <4> DEFINE c == Chosen(t)
                 u == t \ {c}
      <4>1. c \in t
        BY <3>2 DEF Chosen
      <4>2. Cardinality(u) = Cardinality(t) - 1 /\ Cardinality(u) \in Nat
        BY <1>1, <4>1, FS_RemoveElement
      <4>3. k # 0 /\ u \in Upto(k - 1) /\ u \in Upto(k)
        BY <1>1, <4>1, <4>2
      <4>4. g = [v \in Upto(k - 1) |-> SumStep(f, v, g)]
        <5>1. \E x : x = [v \in Upto(k - 1) |-> SumStep(f, v, x)]
          BY <1>2, <4>3
        <5>2. g = CHOOSE x : x = [v \in Upto(k - 1) |-> SumStep(f, v, x)]
          BY <4>3
        <5> HIDE DEF g, Upto
        <5> QED
          BY <5>1, <5>2
      <4>5. g[u] = h[u]
        <5> HIDE DEF g, u, Upto
        <5> QED
          BY <4>3, <4>4
      <4> QED
        BY <3>2, <4>5 DEF SumStep
    <3> QED
      BY <3>1, <3>2
  <2>2. h = [t \in Upto(k) |-> SumStep(f, t, h)]
    <3> HIDE DEF g, Upto
    <3> QED
      BY <2>1
  <2> QED
    BY <2>2
<1>3. For(Cardinality(S))
  <2> DEFINE T == {n \in Nat : ~For(n)}
  <2> HIDE DEF For
  <2>1. ASSUME T # {}
        PROVE  FALSE
    <3>1. PICK k \in T : \A m \in T : k <= m
      BY <2>1, LeastNatural
    <3>2. k \in Nat /\ ~For(k)
      BY <3>1
    <3>3. ASSUME k # 0
          PROVE  For(k - 1)
      <4>1. k - 1 \in Nat /\ ~(k <= k - 1)
        BY <3>2, <3>3
      <4> QED
        BY <3>1, <4>1
    <3> QED
      BY <1>2, <3>2, <3>3
  <2> QED
    BY <1>1, <2>1
<1>4. Upto(Cardinality(S)) = SUBSET S
  <2>1. \A t \in SUBSET S : Cardinality(t) <= Cardinality(S)
    BY FS_Subset
  <2> QED
    BY <2>1
<1> QED
  <2> HIDE DEF Upto
  <2> QED
    BY <1>3, <1>4 DEF SumsUp

\* Where the values agree, so do the sums, also those over different sets.
LEMMA SumsAgree ==
    ASSUME NEW f, NEW e, NEW S, NEW T, IsFiniteSet(S), S \subseteq T,
           \A x \in S : f[x] = e[x],
           NEW g, SumsUp(f, S, g), NEW h, SumsUp(e, T, h)
    PROVE  \A s \in SUBSET S : g[s] = h[s]
<1> DEFINE G == {s \in SUBSET S : g[s] = h[s]}
<1>1. ASSUME NEW s \in SUBSET S, \A x \in s : s \ {x} \in G
      PROVE  s \in G
  <2>1. g[s] = SumStep(f, s, g) /\ h[s] = SumStep(e, s, h)
    BY DEF SumsUp
  <2>2. SumStep(f, s, g) = SumStep(e, s, h)
    <3>1. s # {} => Chosen(s) \in s
      BY DEF Chosen
    <3> QED
      BY <1>1, <3>1 DEF SumStep
  <2> QED
    BY <2>1, <2>2
<1>2. SUBSET S \subseteq G
  <2> HIDE DEF G
  <2> QED
    BY <1>1, SubsetInduction
<1> QED
  BY <1>2

\* The community module's sum is the value of such a function.
LEMMA SumIsOfOne ==
    ASSUME NEW f, NEW S, IsFiniteSet(S)
    PROVE  \E h : SumsUp(f, S, h) /\ SumFunctionOnSet(f, S) = h[S]
<1> DEFINE h == CHOOSE k : k = [s \in SUBSET S |->
                    IF s = {} THEN 0 ELSE f[CHOOSE x \in s : TRUE] + k[s \ {CHOOSE x \in s : TRUE}]]
<1>1. SumFunctionOnSet(f, S) = h[S]
  BY DEF SumFunctionOnSet, FoldFunctionOnSet, MapThenFoldSet
<1>2. h = CHOOSE k : SumsUp(f, S, k)
  BY DEF SumsUp, SumStep, Chosen
<1> HIDE DEF h
<1>3. SumsUp(f, S, h)
  BY <1>2, SumsExist
<1> QED
  BY <1>1, <1>3

-----------------------------------------------------------------------------
(* What a sum is *)

\* The sum of nothing.
LEMMA SumOfNone ==
    ASSUME NEW f
    PROVE  SumFunctionOnSet(f, {}) = 0
<1>1. PICK h : SumsUp(f, {}, h) /\ SumFunctionOnSet(f, {}) = h[{}]
  BY FS_EmptySet, SumIsOfOne
<1> QED
  BY <1>1 DEF SumsUp, SumStep

\* Functions with the same values have the same sum.
LEMMA SumOfSame ==
    ASSUME NEW f, NEW e, NEW S, IsFiniteSet(S), \A x \in S : f[x] = e[x]
    PROVE  SumFunctionOnSet(f, S) = SumFunctionOnSet(e, S)
<1>1. PICK g : SumsUp(f, S, g) /\ SumFunctionOnSet(f, S) = g[S]
  BY SumIsOfOne
<1>2. PICK h : SumsUp(e, S, h) /\ SumFunctionOnSet(e, S) = h[S]
  BY SumIsOfOne
<1>3. S \subseteq S /\ S \in SUBSET S
  OBVIOUS
<1>4. \A s \in SUBSET S : g[s] = h[s]
  BY <1>1, <1>2, <1>3, SumsAgree
<1> QED
  BY <1>1, <1>2, <1>3, <1>4

\* The chosen element and the sum of the others.
LEMMA SumTakesChosen ==
    ASSUME NEW f, NEW S, IsFiniteSet(S), S # {}
    PROVE  SumFunctionOnSet(f, S) = f[Chosen(S)] + SumFunctionOnSet(f, S \ {Chosen(S)})
<1> DEFINE R == S \ {Chosen(S)}
<1>1. PICK h : SumsUp(f, S, h) /\ SumFunctionOnSet(f, S) = h[S]
  BY SumIsOfOne
<1>2. IsFiniteSet(R)
  BY FS_Subset
<1>3. PICK g : SumsUp(f, R, g) /\ SumFunctionOnSet(f, R) = g[R]
  BY <1>2, SumIsOfOne
<1>4. g[R] = h[R]
  <2>1. R \subseteq S /\ R \in SUBSET R /\ \A x \in R : f[x] = f[x]
    OBVIOUS
  <2> HIDE DEF R
  <2>2. \A s \in SUBSET R : g[s] = h[s]
    BY <1>1, <1>2, <1>3, <2>1, SumsAgree
  <2> QED
    BY <2>1, <2>2
<1>5. h[S] = f[Chosen(S)] + h[R]
  BY <1>1 DEF SumsUp, SumStep
<1> QED
  BY <1>1, <1>3, <1>4, <1>5

\* A sum of integers is an integer, of naturals a natural.
LEMMA SumIsNumber ==
    ASSUME NEW f, NEW S, IsFiniteSet(S), NEW N \in {Nat, Int}, \A x \in S : f[x] \in N
    PROVE  SumFunctionOnSet(f, S) \in N
<1> DEFINE G == {s \in SUBSET S : SumFunctionOnSet(f, s) \in N}
<1>1. ASSUME NEW s \in SUBSET S, \A x \in s : s \ {x} \in G
      PROVE  s \in G
  <2>1. CASE s = {}
    BY <2>1, SumOfNone
  <2>2. CASE s # {}
    <3>1. Chosen(s) \in s
      BY <2>2 DEF Chosen
    <3>2. SumFunctionOnSet(f, s) = f[Chosen(s)] + SumFunctionOnSet(f, s \ {Chosen(s)})
      BY <2>2, FS_Subset, SumTakesChosen
    <3>3. SumFunctionOnSet(f, s \ {Chosen(s)}) \in N /\ f[Chosen(s)] \in N
      BY <1>1, <3>1
    <3> QED
      BY <3>2, <3>3
  <2> QED
    BY <2>1, <2>2
<1>2. SUBSET S \subseteq G
  <2> HIDE DEF G
  <2> QED
    BY <1>1, SubsetInduction
<1> QED
  BY <1>2

\* Any element and the sum of the others: the choice does not matter.
LEMMA SumTakesOut ==
    ASSUME NEW f, NEW S, IsFiniteSet(S), \A x \in S : f[x] \in Int, NEW a \in S
    PROVE  SumFunctionOnSet(f, S) = f[a] + SumFunctionOnSet(f, S \ {a})
<1> DEFINE Rest(s, x) == SumFunctionOnSet(f, s \ {x})
           G == {s \in SUBSET S : \A x \in s : SumFunctionOnSet(f, s) = f[x] + Rest(s, x)}
<1>1. ASSUME NEW s \in SUBSET S, \A x \in s : s \ {x} \in G, NEW x \in s
      PROVE  SumFunctionOnSet(f, s) = f[x] + Rest(s, x)
  <2> DEFINE c == Chosen(s)
  <2>1. c \in s /\ SumFunctionOnSet(f, s) = f[c] + Rest(s, c)
    <3>1. IsFiniteSet(s) /\ s # {} /\ Chosen(s) \in s
      BY FS_Subset DEF Chosen
    <3> QED
      BY <3>1, SumTakesChosen
  <2>2. CASE x = c
    BY <2>1, <2>2
  <2>3. CASE x # c
    <3> DEFINE both == SumFunctionOnSet(f, (s \ {x}) \ {c})
    <3>1. Rest(s, x) = f[c] + both
      BY <1>1, <2>1, <2>3
    <3>2. Rest(s, c) = f[x] + both
      <4>1. (s \ {c}) \ {x} = (s \ {x}) \ {c}
        OBVIOUS
      <4>2. x \in s \ {c} /\ s \ {c} \in G
        BY <1>1, <2>1, <2>3
      <4> QED
        BY <4>1, <4>2
    <3>3. both \in Int /\ f[c] \in Int /\ f[x] \in Int
      <4>1. IsFiniteSet((s \ {x}) \ {c}) /\ \A y \in (s \ {x}) \ {c} : f[y] \in Int
        BY FS_Subset
      <4>2. f[c] \in Int /\ f[x] \in Int
        BY <2>1
      <4> QED
        BY <4>1, <4>2, SumIsNumber
    <3> HIDE DEF both, c
    <3> QED
      BY <2>1, <3>1, <3>2, <3>3
  <2> QED
    BY <2>2, <2>3
<1>2. SUBSET S \subseteq G
  <2>1. \A s \in SUBSET S : (\A x \in s : s \ {x} \in G) => s \in G
    BY <1>1
  <2> HIDE DEF G
  <2> QED
    BY <2>1, SubsetInduction
<1> QED
  BY <1>2

-----------------------------------------------------------------------------
(* How a sum changes *)

\* The sum of sums is the sum of both.
LEMMA SumOfSums ==
    ASSUME NEW f, NEW e, NEW g, NEW S, IsFiniteSet(S),
           \A x \in S : f[x] \in Int /\ e[x] \in Int /\ g[x] = f[x] + e[x]
    PROVE  SumFunctionOnSet(g, S) = SumFunctionOnSet(f, S) + SumFunctionOnSet(e, S)
<1> DEFINE Of(h, s) == SumFunctionOnSet(h, s)
           G == {s \in SUBSET S : Of(g, s) = Of(f, s) + Of(e, s)}
<1>1. ASSUME NEW s \in SUBSET S, \A x \in s : s \ {x} \in G
      PROVE  s \in G
  <2>1. CASE s = {}
    BY <2>1, SumOfNone
  <2>2. CASE s # {}
    <3> DEFINE c == Chosen(s)
               r == s \ {c}
    <3>1. c \in s /\ IsFiniteSet(s) /\ IsFiniteSet(r) /\ r \in SUBSET S
      BY <2>2, FS_Subset DEF Chosen
    <3>2. \A h : Of(h, s) = h[c] + Of(h, r)
      BY <2>2, <3>1, SumTakesChosen
    <3>3. Of(g, r) = Of(f, r) + Of(e, r)
      BY <1>1, <3>1
    <3>4. Of(f, r) \in Int /\ Of(e, r) \in Int
      BY <3>1, SumIsNumber
    <3>5. f[c] \in Int /\ e[c] \in Int /\ g[c] = f[c] + e[c]
      BY <3>1
    <3> HIDE DEF c, r, Of
    <3>6. Of(g, s) = Of(f, s) + Of(e, s)
      BY <3>2, <3>3, <3>4, <3>5
    <3> QED
      BY <3>6
  <2> QED
    BY <2>1, <2>2
<1>2. SUBSET S \subseteq G
  <2> HIDE DEF G
  <2> QED
    BY <1>1, SubsetInduction
<1> QED
  BY <1>2

\* A factor common to all values is a factor of the sum.
LEMMA SumOfMultiples ==
    ASSUME NEW k \in Int, NEW f, NEW e, NEW S, IsFiniteSet(S),
           \A x \in S : f[x] \in Int /\ e[x] = k * f[x]
    PROVE  SumFunctionOnSet(e, S) = k * SumFunctionOnSet(f, S)
<1> DEFINE Of(h, s) == SumFunctionOnSet(h, s)
           G == {s \in SUBSET S : Of(e, s) = k * Of(f, s)}
<1>1. ASSUME NEW s \in SUBSET S, \A x \in s : s \ {x} \in G
      PROVE  s \in G
  <2>1. CASE s = {}
    BY <2>1, SumOfNone
  <2>2. CASE s # {}
    <3> DEFINE c == Chosen(s)
               r == s \ {c}
    <3>1. c \in s /\ IsFiniteSet(s) /\ IsFiniteSet(r) /\ r \in SUBSET S
      BY <2>2, FS_Subset DEF Chosen
    <3>2. \A h : Of(h, s) = h[c] + Of(h, r)
      BY <2>2, <3>1, SumTakesChosen
    <3>3. Of(e, r) = k * Of(f, r)
      BY <1>1, <3>1
    <3>4. Of(f, r) \in Int
      BY <3>1, SumIsNumber
    <3>5. f[c] \in Int /\ e[c] = k * f[c]
      BY <3>1
    <3> HIDE DEF c, r, Of
    <3>6. Of(e, s) = k * f[c] + k * Of(f, r) /\ Of(f, s) = f[c] + Of(f, r)
      BY <3>2, <3>3, <3>5
    <3>7. k * (f[c] + Of(f, r)) = k * f[c] + k * Of(f, r)
      BY <3>4, <3>5
    <3> QED
      BY <3>6, <3>7
  <2> QED
    BY <2>1, <2>2
<1>2. SUBSET S \subseteq G
  <2> HIDE DEF G
  <2> QED
    BY <1>1, SubsetInduction
<1> QED
  BY <1>2

\* One value changes, and the sum by as much.
LEMMA SumOfChanged ==
    ASSUME NEW f, NEW e, NEW S, IsFiniteSet(S), NEW a \in S,
           \A x \in S : f[x] \in Int /\ e[x] \in Int,
           \A x \in S \ {a} : e[x] = f[x]
    PROVE  SumFunctionOnSet(e, S) = SumFunctionOnSet(f, S) - f[a] + e[a]
<1> DEFINE R == S \ {a}
<1>1. SumFunctionOnSet(f, S) = f[a] + SumFunctionOnSet(f, R)
  BY SumTakesOut
<1>2. SumFunctionOnSet(e, S) = e[a] + SumFunctionOnSet(e, R)
  BY SumTakesOut
<1>3. IsFiniteSet(R)
  BY FS_Subset
<1>4. SumFunctionOnSet(e, R) = SumFunctionOnSet(f, R)
  BY <1>3, SumOfSame
<1>5. SumFunctionOnSet(f, R) \in Int
  BY <1>3, SumIsNumber
<1> HIDE DEF R
<1> QED
  BY <1>1, <1>2, <1>4, <1>5

\* The sum of nothing but zeros.
LEMMA SumOfZeros ==
    ASSUME NEW f, NEW S, IsFiniteSet(S), \A x \in S : f[x] = 0
    PROVE  SumFunctionOnSet(f, S) = 0
<1>1. \A x \in S : f[x] \in Int /\ f[x] = f[x] + f[x]
  OBVIOUS
<1>2. SumFunctionOnSet(f, S) = SumFunctionOnSet(f, S) + SumFunctionOnSet(f, S)
  BY <1>1, SumOfSums
<1>3. SumFunctionOnSet(f, S) \in Int
  BY <1>1, SumIsNumber
<1>4. \A n \in Int : n = n + n => n = 0
  OBVIOUS
<1> QED
  BY <1>2, <1>3, <1>4

\* A function that is zero outside a part has its sum over that part.
LEMMA SumOfPart ==
    ASSUME NEW f, NEW e, NEW S, IsFiniteSet(S), NEW P, P \subseteq S,
           \A x \in P : f[x] \in Int /\ e[x] = f[x],
           \A x \in S \ P : e[x] = 0
    PROVE  SumFunctionOnSet(e, S) = SumFunctionOnSet(f, P)
<1> DEFINE Of(h, s) == SumFunctionOnSet(h, s)
           G == {s \in SUBSET S : Of(e, s) = Of(f, s \cap P)}
<1>1. ASSUME NEW s \in SUBSET S, \A x \in s : s \ {x} \in G
      PROVE  s \in G
  <2>1. CASE s = {}
    <3>1. s \cap P = s
      BY <2>1
    <3> QED
      BY <2>1, <3>1, SumOfNone
  <2>2. CASE s # {}
    <3> DEFINE c == Chosen(s)
               r == s \ {c}
    <3>1. c \in s /\ IsFiniteSet(s) /\ IsFiniteSet(r \cap P) /\ IsFiniteSet(s \cap P) /\ r \in SUBSET S
      BY <2>2, FS_Subset DEF Chosen
    <3>2. Of(e, s) = e[c] + Of(e, r)
      BY <2>2, <3>1, SumTakesChosen
    <3>3. Of(e, r) = Of(f, r \cap P)
      BY <1>1, <3>1
    <3>4. CASE c \in P
      <4>1. (s \cap P) \ {c} = r \cap P
        OBVIOUS
      <4>2. c \in s \cap P /\ \A x \in s \cap P : f[x] \in Int
        BY <3>1, <3>4
      <4>3. Of(f, s \cap P) = f[c] + Of(f, (s \cap P) \ {c})
        BY <3>1, <4>2, SumTakesOut
      <4> QED
        BY <3>2, <3>3, <3>4, <4>1, <4>3
    <3>5. CASE c \notin P
      <4>1. s \cap P = r \cap P
        BY <3>5
      <4>2. e[c] = 0
        BY <3>1, <3>5
      <4>3. Of(f, r \cap P) \in Int
        BY <3>1, SumIsNumber
      <4> HIDE DEF Of, c, r
      <4>4. Of(e, s) = Of(f, s \cap P)
        <5>1. Of(f, s \cap P) = Of(f, r \cap P)
          BY <4>1
        <5> QED
          BY <3>2, <3>3, <4>2, <4>3, <5>1
      <4> QED
        BY <4>4
    <3> QED
      BY <3>4, <3>5
  <2> QED
    BY <2>1, <2>2
<1>2. SUBSET S \subseteq G
  <2> HIDE DEF G
  <2> QED
    BY <1>1, SubsetInduction
<1>3. S \cap P = P
  OBVIOUS
<1> QED
  BY <1>2, <1>3

\* No sum of smaller values is larger.
LEMMA SumIsMonotone ==
    ASSUME NEW f, NEW e, NEW S, IsFiniteSet(S),
           \A x \in S : f[x] \in Int /\ e[x] \in Int /\ f[x] <= e[x]
    PROVE  SumFunctionOnSet(f, S) <= SumFunctionOnSet(e, S)
<1> DEFINE d == [x \in S |-> e[x] - f[x]]
<1>1. \A x \in S : d[x] \in Nat
  <2>1. \A a, b \in Int : a <= b => b - a \in Nat
    OBVIOUS
  <2> QED
    BY <2>1
<1>2. SumFunctionOnSet(e, S) = SumFunctionOnSet(f, S) + SumFunctionOnSet(d, S)
  <2>1. \A x \in S : f[x] \in Int /\ d[x] \in Int /\ e[x] = f[x] + d[x]
    <3>1. \A a, b \in Int : b - a \in Int /\ b = a + (b - a)
      OBVIOUS
    <3> QED
      BY <3>1
  <2> HIDE DEF d
  <2> QED
    BY <2>1, SumOfSums
<1>3. SumFunctionOnSet(d, S) \in Nat /\ SumFunctionOnSet(f, S) \in Int
  <2> HIDE DEF d
  <2> QED
    BY <1>1, SumIsNumber
<1> QED
  BY <1>2, <1>3

\* A sum over a set is the sum over a part and the sum over the rest.
LEMMA SumOfParts ==
    ASSUME NEW f, NEW S, IsFiniteSet(S), NEW P, P \subseteq S, \A x \in S : f[x] \in Int
    PROVE  SumFunctionOnSet(f, S) = SumFunctionOnSet(f, P) + SumFunctionOnSet(f, S \ P)
<1> DEFINE in == [x \in S |-> IF x \in P THEN f[x] ELSE 0]
           out == [x \in S |-> IF x \in P THEN 0 ELSE f[x]]
<1>1. SumFunctionOnSet(in, S) = SumFunctionOnSet(f, P)
  <2>1. (\A x \in P : f[x] \in Int /\ in[x] = f[x]) /\ (\A x \in S \ P : in[x] = 0)
    OBVIOUS
  <2> HIDE DEF in
  <2> QED
    BY <2>1, SumOfPart
<1>2. SumFunctionOnSet(out, S) = SumFunctionOnSet(f, S \ P)
  <2> DEFINE R == S \ P
  <2>1. R \subseteq S /\ (\A x \in R : f[x] \in Int /\ out[x] = f[x])
        /\ (\A x \in S \ R : out[x] = 0)
    OBVIOUS
  <2> HIDE DEF out, R
  <2>2. SumFunctionOnSet(out, S) = SumFunctionOnSet(f, R)
    BY <2>1, SumOfPart
  <2> QED
    BY <2>2 DEF R
<1>3. \A x \in S : in[x] \in Int /\ out[x] \in Int /\ f[x] = in[x] + out[x]
  OBVIOUS
<1> HIDE DEF in, out
<1>4. SumFunctionOnSet(f, S) = SumFunctionOnSet(in, S) + SumFunctionOnSet(out, S)
  BY <1>3, SumOfSums
<1> QED
  BY <1>1, <1>2, <1>4
=============================================================================
