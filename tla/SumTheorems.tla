----------------------------- MODULE SumTheorems ------------------------------
(***************************************************************************)
(* What SumFunctionOnSet adds up to, for every function and every finite   *)
(* set: the facts about balances, reservations and ledger entries that     *)
(* FundsConserved of both modes rests on.                                  *)
(*                                                                         *)
(* The library states induction for a predicate given as an operator.      *)
(* Here a predicate is the set of the numbers that have it, and the        *)
(* induction is the existence of a least number that has not.              *)
(***************************************************************************)
EXTENDS Functions, FiniteSetTheorems, TLAPS

LEMMA LeastNatural ==
  ASSUME NEW T \in SUBSET Nat, T # {}
  PROVE  \E n \in T : \A m \in T : n <= m
<1>1. PICK n \in T : \A m \in T : <<m, n>> \notin OpToRel(<, Nat)
  BY NatLessThanWellFounded, WFMin
<1>2. \A m \in T : ~(m < n)
  BY <1>1 DEF OpToRel
<1>3. QED BY <1>2

LEMMA SetInduction ==
  ASSUME NEW T, 0 \in T, \A n \in Nat : n \in T => n + 1 \in T
  PROVE  Nat \subseteq T
<1> SUFFICES ASSUME Nat \ T # {} PROVE FALSE
  OBVIOUS
<1>1. PICK n \in Nat \ T : \A m \in Nat \ T : n <= m
  BY LeastNatural
<1>2. n - 1 \in Nat /\ n - 1 \in T
  BY <1>1
<1>3. QED BY <1>1, <1>2

-----------------------------------------------------------------------------
(* The sum unfolds, one chosen element at a time.                          *)

Pick(s) == CHOOSE x \in s : TRUE

Peel(f, g, s) == IF s = {} THEN 0 ELSE f[Pick(s)] + g[s \ {Pick(s)}]

Unrolled(f, S, g) == g = [s \in SUBSET S |-> Peel(f, g, s)]

LEMMA SumIsUnrolled ==
  ASSUME NEW f, NEW S
  PROVE  SumFunctionOnSet(f, S) = (CHOOSE g : Unrolled(f, S, g))[S]
  BY DEF SumFunctionOnSet, FoldFunctionOnSet, MapThenFoldSet, Unrolled, Peel, Pick

LEMMA Smaller ==
  ASSUME NEW S, IsFiniteSet(S), NEW s \in SUBSET S
  PROVE  /\ Cardinality(s) \in Nat
         /\ Cardinality(s) <= Cardinality(S)
         /\ Cardinality(s) <= 0 <=> s = {}
         /\ \A x \in s : s \ {x} \in SUBSET S /\ Cardinality(s \ {x}) = Cardinality(s) - 1
         /\ s # {} => Pick(s) \in s
<1>1. IsFiniteSet(s) /\ Cardinality(s) <= Cardinality(S)
  BY FS_Subset
<1>2. Cardinality(s) \in Nat
  BY <1>1, FS_CardinalityType
<1>3. \A x \in s : Cardinality(s \ {x}) = Cardinality(s) - 1
  BY <1>1, FS_RemoveElement
<1>4. s # {} => Pick(s) \in s
  BY DEF Pick
<1>5. QED BY <1>1, <1>2, <1>3, <1>4, FS_EmptySet

\* There is a function that unfolds the sum on every subset of a finite set.
LEMMA Unrolls ==
  ASSUME NEW f, NEW S, IsFiniteSet(S)
  PROVE  \E g : Unrolled(f, S, g)
<1> DEFINE UpTo(n, g) == \A s \in SUBSET S : Cardinality(s) <= n => g[s] = Peel(f, g, s)
           T == {n \in Nat : \E g : UpTo(n, g)}
           Next(g) == [s \in SUBSET S |-> Peel(f, g, s)]
<1>1. ASSUME NEW n \in Nat, NEW g, UpTo(n, g) PROVE UpTo(n + 1, Next(g))
  <2> SUFFICES ASSUME NEW s \in SUBSET S, Cardinality(s) <= n + 1
               PROVE  Next(g)[s] = Peel(f, Next(g), s)
    OBVIOUS
  <2>1. CASE s = {}
    BY <2>1 DEF Peel
  <2>2. CASE s # {}
    <3> DEFINE r == s \ {Pick(s)}
    <3>1. r \in SUBSET S /\ Cardinality(r) <= n
      BY <2>2, Smaller
    <3>2. Next(g)[r] = g[r]
      BY <1>1, <3>1
    <3>3. QED BY <2>2, <3>2 DEF Peel
  <2>3. QED BY <2>1, <2>2
<1>2. 0 \in T
  <2>1. UpTo(0, [s \in SUBSET S |-> 0])
    BY Smaller DEF Peel
  <2>2. QED BY <2>1
<1>3. \A n \in Nat : n \in T => n + 1 \in T
  <2> HIDE DEF UpTo, Next
  <2>1. QED BY <1>1
<1>4. Cardinality(S) \in T
  <2>1. Nat \subseteq T
    BY <1>2, <1>3, SetInduction
  <2>2. QED BY <2>1, FS_CardinalityType
<1>5. PICK g : UpTo(Cardinality(S), g)
  BY <1>4
<1>6. \A s \in SUBSET S : g[s] = Peel(f, g, s)
  BY <1>5, Smaller
<1>7. Next(g) = [s \in SUBSET S |-> Peel(f, Next(g), s)]
  <2>1. \A s \in SUBSET S : Next(g)[s] = g[s] /\ s \ {Pick(s)} \in SUBSET S
    BY <1>6
  <2>2. \A s \in SUBSET S : Peel(f, Next(g), s) = Peel(f, g, s)
    <3> HIDE DEF Next
    <3>1. QED BY <2>1 DEF Peel
  <2>3. QED BY <2>2
<1>8. QED BY <1>7 DEF Unrolled

\* Two functions that unfold the sum agree, whatever the sets they are for.
LEMMA UnrollsAgree ==
  ASSUME NEW f, NEW S, IsFiniteSet(S), NEW R \in SUBSET S, NEW g, NEW h, Unrolled(f, S, g), Unrolled(f, R, h)
  PROVE  g[R] = h[R]
<1> DEFINE T == {n \in Nat : \A s \in SUBSET R : Cardinality(s) <= n => g[s] = h[s]}
<1>1. \A s \in SUBSET R : g[s] = Peel(f, g, s) /\ h[s] = Peel(f, h, s)
  BY DEF Unrolled
<1>2. 0 \in T
  <2>1. \A s \in SUBSET R : Cardinality(s) <= 0 => s = {}
    BY Smaller
  <2>2. {} \in SUBSET R => g[{}] = h[{}]
    BY <1>1 DEF Peel
  <2>3. QED BY <2>1, <2>2
<1>3. ASSUME NEW n \in Nat, n \in T PROVE n + 1 \in T
  <2> SUFFICES ASSUME NEW s \in SUBSET R, Cardinality(s) <= n + 1 PROVE g[s] = h[s]
    OBVIOUS
  <2>1. CASE s = {}
    BY <1>1, <2>1 DEF Peel
  <2>2. CASE s # {}
    <3>1. s \ {Pick(s)} \in SUBSET R /\ Cardinality(s \ {Pick(s)}) <= n
      BY <2>2, Smaller
    <3>2. QED BY <1>1, <1>3, <2>2, <3>1 DEF Peel
  <2>3. QED BY <2>1, <2>2
<1>4. Nat \subseteq T
  <2> HIDE DEF T
  <2>1. QED BY <1>2, <1>3, SetInduction
<1>5. Cardinality(R) \in T
  BY <1>4, Smaller
<1>6. QED BY <1>5, Smaller

LEMMA SumPeels ==
  ASSUME NEW f, NEW S, IsFiniteSet(S)
  PROVE  SumFunctionOnSet(f, S) =
           IF S = {} THEN 0 ELSE f[Pick(S)] + SumFunctionOnSet(f, S \ {Pick(S)})
<1> DEFINE G(s) == CHOOSE g : Unrolled(f, s, g)
<1>1. \A s \in SUBSET S : Unrolled(f, s, G(s)) /\ SumFunctionOnSet(f, s) = G(s)[s]
  BY FS_Subset, Unrolls, SumIsUnrolled
<1>2. G(S)[S] = Peel(f, G(S), S)
  BY <1>1 DEF Unrolled
<1> DEFINE R == S \ {Pick(S)}
<1>3. G(S)[R] = G(R)[R]
  <2>1. R \in SUBSET S /\ Unrolled(f, S, G(S)) /\ Unrolled(f, R, G(R))
    BY <1>1
  <2> HIDE DEF G, R
  <2>2. QED BY <2>1, UnrollsAgree
<1>4. SumFunctionOnSet(f, S) = G(S)[S] /\ SumFunctionOnSet(f, R) = G(R)[R]
  BY <1>1
<1>5. QED BY <1>2, <1>3, <1>4 DEF Peel

-----------------------------------------------------------------------------
(* The facts used elsewhere.                                               *)

LEMMA SumEmpty == \A f : SumFunctionOnSet(f, {}) = 0
  BY SumPeels, FS_EmptySet

\* Any element can be taken out, not just the one the sum begins with.
LEMMA SumRemove ==
  ASSUME NEW S, IsFiniteSet(S), NEW f, \A x \in S : f[x] \in Int
  PROVE  /\ SumFunctionOnSet(f, S) \in Int
         /\ \A x \in S : SumFunctionOnSet(f, S) = f[x] + SumFunctionOnSet(f, S \ {x})
<1> DEFINE Sum(s) == SumFunctionOnSet(f, s)
           Good(s) == Sum(s) \in Int /\ \A x \in s : Sum(s) = f[x] + Sum(s \ {x})
           T == {n \in Nat : \A s \in SUBSET S : Cardinality(s) <= n => Good(s)}
<1>1. 0 \in T
  <2>1. \A s \in SUBSET S : Cardinality(s) <= 0 => s = {}
    BY Smaller
  <2>2. Good({})
    BY SumEmpty
  <2> HIDE DEF Good
  <2>3. QED BY <2>1, <2>2
<1>2. ASSUME NEW n \in Nat, n \in T PROVE n + 1 \in T
  <2>a. Good({})
    BY SumEmpty
  <2> SUFFICES ASSUME NEW s \in SUBSET S, Cardinality(s) <= n + 1, s # {} PROVE Good(s)
    <3> HIDE DEF Good
    <3>1. QED BY <2>a
  <2> DEFINE c == Pick(s)
  <2>1. c \in s /\ f[c] \in Int /\ Sum(s) = f[c] + Sum(s \ {c})
    BY Smaller, FS_Subset, SumPeels
  <2>b. \A x \in s : s \ {x} \in SUBSET S /\ Cardinality(s \ {x}) <= n
    BY Smaller
  <2>2. \A x \in s : s \ {x} \in SUBSET S /\ Cardinality(s \ {x}) <= n /\ Good(s \ {x})
    <3> HIDE DEF Good
    <3>1. QED BY <1>2, <2>b
  <2>3. Sum(s) \in Int
    BY <2>1, <2>2
  <2>4. ASSUME NEW x \in s PROVE Sum(s) = f[x] + Sum(s \ {x})
    <3>1. CASE x = c
      BY <2>1, <3>1
    <3>2. CASE x # c
      <4>1. Sum(s \ {c}) = f[x] + Sum((s \ {c}) \ {x})
        BY <2>1, <2>2, <3>2
      <4>2. Sum(s \ {x}) = f[c] + Sum((s \ {x}) \ {c})
        BY <2>1, <2>2, <3>2
      <4>3. (s \ {c}) \ {x} = (s \ {x}) \ {c}
        OBVIOUS
      <4>4. Cardinality((s \ {x}) \ {c}) <= n /\ (s \ {x}) \ {c} \in SUBSET S
        <5> DEFINE r == s \ {x}
        <5>1. r \in SUBSET S /\ Cardinality(r) <= n /\ c \in r
          BY <2>1, <2>2, <3>2
        <5> HIDE DEF r, c
        <5>2. Cardinality(r) \in Nat /\ r \ {c} \in SUBSET S /\ Cardinality(r \ {c}) = Cardinality(r) - 1
          BY <5>1, Smaller
        <5>3. QED BY <5>1, <5>2 DEF r
      <4>5. Sum((s \ {x}) \ {c}) \in Int /\ f[x] \in Int
        BY <1>2, <4>4
      <4>6. Sum(s) = f[c] + (f[x] + Sum((s \ {x}) \ {c}))
        BY <2>1, <4>1, <4>3
      <4>7. Sum(s) = f[x] + (f[c] + Sum((s \ {x}) \ {c}))
        BY <2>1, <4>5, <4>6
      <4>8. QED BY <4>2, <4>7
    <3>3. QED BY <3>1, <3>2
  <2>5. QED BY <2>3, <2>4
<1>3. Nat \subseteq T
  <2> HIDE DEF T
  <2>1. QED BY <1>1, <1>2, SetInduction
<1>4. Cardinality(S) \in T
  BY <1>3, FS_CardinalityType
<1>5. Good(S)
  BY <1>4, FS_CardinalityType
<1>6. QED BY <1>5

LEMMA SumAdd ==
  ASSUME NEW S, IsFiniteSet(S), NEW x, x \notin S, NEW f, \A y \in S \cup {x} : f[y] \in Int
  PROVE  SumFunctionOnSet(f, S \cup {x}) = SumFunctionOnSet(f, S) + f[x]
<1> DEFINE R == S \cup {x}
<1>1. IsFiniteSet(R) /\ x \in R /\ R \ {x} = S
  BY FS_AddElement
<1>2. SumFunctionOnSet(f, R) = f[x] + SumFunctionOnSet(f, R \ {x})
  BY <1>1, SumRemove
<1>3. SumFunctionOnSet(f, S) \in Int /\ f[x] \in Int
  BY SumRemove
<1>4. SumFunctionOnSet(f, R) = f[x] + SumFunctionOnSet(f, S)
  BY <1>1, <1>2
<1>5. QED BY <1>3, <1>4

LEMMA SumLess ==
  ASSUME NEW S, IsFiniteSet(S), NEW x \in S, NEW f, \A y \in S : f[y] \in Int
  PROVE  SumFunctionOnSet(f, S \ {x}) = SumFunctionOnSet(f, S) - f[x]
<1>1. SumFunctionOnSet(f, S \ {x}) \in Int
  BY FS_RemoveElement, SumRemove
<1>2. QED BY <1>1, SumRemove

\* The sum looks at no other values of the function.
LEMMA SumSame ==
  ASSUME NEW S, IsFiniteSet(S), NEW f, NEW g, \A x \in S : f[x] = g[x] /\ f[x] \in Int
  PROVE  SumFunctionOnSet(f, S) = SumFunctionOnSet(g, S)
<1> DEFINE Same(s) == SumFunctionOnSet(f, s) = SumFunctionOnSet(g, s)
           T == {n \in Nat : \A s \in SUBSET S : Cardinality(s) <= n => Same(s)}
<1>1. Same({})
  BY SumEmpty
<1>2. 0 \in T
  <2>1. \A s \in SUBSET S : Cardinality(s) <= 0 => s = {}
    BY Smaller
  <2> HIDE DEF Same
  <2>2. QED BY <1>1, <2>1
<1>3. ASSUME NEW n \in Nat, n \in T PROVE n + 1 \in T
  <2>1. ASSUME NEW s \in SUBSET S, Cardinality(s) <= n + 1, NEW x \in s PROVE Same(s)
    <3>1. s \ {x} \in SUBSET S /\ Cardinality(s \ {x}) <= n
      BY <2>1, Smaller
    <3>2. Same(s \ {x})
      <4> HIDE DEF Same
      <4>1. QED BY <1>3, <3>1
    <3>3. IsFiniteSet(s)
      BY FS_Subset
    <3>4. SumFunctionOnSet(f, s) = f[x] + SumFunctionOnSet(f, s \ {x})
      BY <3>3, SumRemove
    <3>5. SumFunctionOnSet(g, s) = g[x] + SumFunctionOnSet(g, s \ {x})
      BY <3>3, SumRemove
    <3>6. QED BY <3>2, <3>4, <3>5
  <2> HIDE DEF Same
  <2>2. \A s \in SUBSET S : Cardinality(s) <= n + 1 => Same(s)
    BY <1>1, <2>1
  <2>3. QED BY <2>2
<1>4. Nat \subseteq T
  <2> HIDE DEF T
  <2>1. QED BY <1>2, <1>3, SetInduction
<1>5. QED BY <1>4, FS_CardinalityType

\* No summand that is not negative exceeds a sum of such.
LEMMA SumCovers ==
  ASSUME NEW S, IsFiniteSet(S), NEW f, \A x \in S : f[x] \in Nat
  PROVE  /\ SumFunctionOnSet(f, S) \in Nat
         /\ \A x \in S : SumFunctionOnSet(f, S) >= f[x]
<1> DEFINE Natural(s) == SumFunctionOnSet(f, s) \in Nat
           T == {n \in Nat : \A s \in SUBSET S : Cardinality(s) <= n => Natural(s)}
<1>1. Natural({})
  BY SumEmpty
<1>2. 0 \in T
  <2>1. \A s \in SUBSET S : Cardinality(s) <= 0 => s = {}
    BY Smaller
  <2> HIDE DEF Natural
  <2>2. QED BY <1>1, <2>1
<1>3. ASSUME NEW n \in Nat, n \in T PROVE n + 1 \in T
  <2>1. ASSUME NEW s \in SUBSET S, Cardinality(s) <= n + 1, NEW x \in s PROVE Natural(s)
    <3>1. s \ {x} \in SUBSET S /\ Cardinality(s \ {x}) <= n
      BY <2>1, Smaller
    <3>2. Natural(s \ {x})
      <4> HIDE DEF Natural
      <4>1. QED BY <1>3, <3>1
    <3>3. IsFiniteSet(s)
      BY FS_Subset
    <3>4. SumFunctionOnSet(f, s) = f[x] + SumFunctionOnSet(f, s \ {x})
      BY <3>3, SumRemove
    <3>5. x \in S /\ f[x] \in Nat
      OBVIOUS
    <3>6. QED BY <3>2, <3>4, <3>5
  <2> HIDE DEF Natural
  <2>2. \A s \in SUBSET S : Cardinality(s) <= n + 1 => Natural(s)
    BY <1>1, <2>1
  <2>3. QED BY <2>2
<1>4. Nat \subseteq T
  <2> HIDE DEF T
  <2>1. QED BY <1>2, <1>3, SetInduction
<1>5. \A s \in SUBSET S : Natural(s)
  BY <1>4, FS_CardinalityType, FS_Subset
<1>6. SumFunctionOnSet(f, S) \in Nat
  BY <1>5
<1>7. ASSUME NEW x \in S PROVE SumFunctionOnSet(f, S) >= f[x]
  <2>1. SumFunctionOnSet(f, S) = f[x] + SumFunctionOnSet(f, S \ {x})
    BY SumRemove
  <2>2. SumFunctionOnSet(f, S \ {x}) \in Nat /\ f[x] \in Nat
    BY <1>5
  <2>3. QED BY <2>1, <2>2
<1>8. QED BY <1>6, <1>7

=============================================================================
