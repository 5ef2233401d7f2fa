--------------------------- MODULE NumberTheorems ---------------------------
(***************************************************************************)
(* What the proofs about the components share: induction over the natural  *)
(* numbers for a set of them, remainders, and sums over finite sets.       *)
(***************************************************************************)
EXTENDS Integers, FiniteSets, FiniteSetTheorems, WellFoundedInduction, TLAPS

-----------------------------------------------------------------------------
(* Induction.  The theorems of the library take a predicate, which the     *)
(* provers cannot instantiate; these take a set.                           *)

\* Every set of natural numbers that is not empty has a smallest one.
LEMMA SmallestNumber ==
  ASSUME NEW T, T \subseteq Nat, T # {}
  PROVE \E x \in T : \A y \in T : x <= y
<1> DEFINE Less == {pair \in Nat \X Nat : pair[1] < pair[2]}
<1>1. Less = OpToRel(<, Nat)
  BY DEF OpToRel
<1>2. IsWellFoundedOn(Less, Nat)
  BY <1>1, NatLessThanWellFounded
<1>3. PICK x \in T : \A y \in T : <<y, x>> \notin Less
  <2> HIDE DEF Less
  <2> QED
    BY <1>2, WFMin
<1>4. ASSUME NEW y \in T PROVE x <= y
  <2>1. <<y, x>> \in Nat \X Nat /\ <<y, x>> \notin Less /\ x \in Nat /\ y \in Nat
    BY <1>3
  <2>2. ~(y < x)
    BY <2>1
  <2> QED
    BY <2>1, <2>2
<1> QED
  BY <1>4

\* A set of numbers that has 0 and with each number the next one has them all.
LEMMA SetInduction ==
  ASSUME NEW S, 0 \in S, \A n \in Nat : n \in S => n + 1 \in S
  PROVE Nat \subseteq S
<1> SUFFICES ASSUME Nat \ S # {} PROVE FALSE
  OBVIOUS
<1>1. PICK x \in Nat \ S : \A y \in Nat \ S : x <= y
  BY SmallestNumber
<1>2. x # 0 /\ x - 1 \in Nat /\ x - 1 \in S
  BY <1>1
<1> QED
  BY <1>1, <1>2

-----------------------------------------------------------------------------
(* Remainders *)

\* A multiple of n that is less than n is none.
LEMMA SmallMultiple ==
  ASSUME NEW n \in Nat, n > 0, NEW k \in Int, NEW c \in Int, n * k = c, c > -n, c < n
  PROVE  k = 0
<1>1. CASE k >= 1
  <2>1. n * (k - 1) >= 0
    BY <1>1
  <2> QED
    BY <2>1
<1>2. CASE k <= -1
  <2>1. n * (-1 - k) >= 0
    BY <1>2
  <2> QED
    BY <2>1
<1> QED
  BY <1>1, <1>2

\* Quotient and remainder.
LEMMA Quotient ==
  ASSUME NEW a \in Int, NEW n \in Nat, n > 0
  PROVE  a \div n \in Int /\ a = n * (a \div n) + (a % n) /\ a % n \in 0..n - 1
BY SMT

\* They are the only ones.
LEMMA RemainderUnique ==
  ASSUME NEW a \in Int, NEW n \in Nat, n > 0, NEW q \in Int, NEW r \in 0..n - 1, a = n * q + r
  PROVE  a % n = r
<1> DEFINE d == a \div n
           s == a % n
<1>1. d \in Int /\ s \in 0..n - 1 /\ n * q + r = n * d + s
  BY Quotient
<1> HIDE DEF d, s
<1>2. n * (d - q) = r - s /\ d - q \in Int /\ r - s > -n /\ r - s < n /\ r - s \in Int
  BY <1>1
<1>3. d - q = 0
  BY <1>2, SmallMultiple
<1> QED
  BY <1>1, <1>3 DEF s

-----------------------------------------------------------------------------
(* Sums over finite sets *)

\* What the folds of the community modules make of +, the order left to CHOOSE.
IsSumOn(f, U, v) ==
  f = [s \in SUBSET U |-> IF s = {} THEN 0
                          ELSE LET x == CHOOSE x \in s : TRUE IN v[x] + f[s \ {x}]]
SumsOn(U, v) == CHOOSE f : IsSumOn(f, U, v)
SumOver(U, v) == SumsOn(U, v)[U]

\* What holds of a finite set when it holds of one that is larger by one element.
LEMMA SubsetInduction ==
  ASSUME NEW U, IsFiniteSet(U), NEW F, F \subseteq SUBSET U, {} \in F,
         \A s \in SUBSET U : s # {} /\ (\A x \in s : s \ {x} \in F) => s \in F
  PROVE  F = SUBSET U
<1> DEFINE S == {n \in Nat : \A s \in SUBSET U : Cardinality(s) = n => s \in F}
<1>1. \A s \in SUBSET U : IsFiniteSet(s) /\ Cardinality(s) \in Nat
  BY FS_Subset, FS_CardinalityType
<1>2. 0 \in S
  BY <1>1, FS_EmptySet
<1>3. ASSUME NEW n \in Nat, n \in S PROVE n + 1 \in S
  <2> SUFFICES ASSUME NEW s \in SUBSET U, Cardinality(s) = n + 1 PROVE s \in F
    OBVIOUS
  <2>1. s # {}
    BY <1>1, FS_EmptySet
  <2>2. ASSUME NEW x \in s PROVE s \ {x} \in F
    <3>1. Cardinality(s \ {x}) = Cardinality(s) - 1
      BY <1>1, FS_RemoveElement
    <3>2. Cardinality(s \ {x}) = n /\ s \ {x} \in SUBSET U
      BY <3>1
    <3> QED
      BY <1>3, <3>2
  <2> QED
    BY <2>1, <2>2
<1> HIDE DEF S
<1>4. Nat \subseteq S
  BY <1>2, <1>3, SetInduction
<1> QED
  BY <1>1, <1>4 DEF S

\* The equation of the sum has a solution: one for the sets of n elements at most gives
\* one for those of n + 1.
LEMMA SumExists ==
  ASSUME NEW U, IsFiniteSet(U), NEW v, \A x \in U : v[x] \in Int
  PROVE  /\ SumsOn(U, v) \in [SUBSET U -> Int]
         /\ IsSumOn(SumsOn(U, v), U, v)
<1> DEFINE Sum(f, s) == IF s = {} THEN 0 ELSE LET x == CHOOSE x \in s : TRUE IN v[x] + f[s \ {x}]
           UpTo(n) == {s \in SUBSET U : Cardinality(s) <= n}
           S == {n \in Nat : \E f \in [UpTo(n) -> Int] : \A s \in UpTo(n) : f[s] = Sum(f, s)}
<1>1. \A s \in SUBSET U : IsFiniteSet(s) /\ Cardinality(s) \in Nat
  BY FS_Subset, FS_CardinalityType
<1>2. ASSUME NEW s \in SUBSET U, s # {}
      PROVE LET x == CHOOSE x \in s : TRUE IN
            /\ x \in s /\ x \in U /\ v[x] \in Int /\ s \ {x} \in SUBSET U
            /\ Cardinality(s \ {x}) = Cardinality(s) - 1
  <2> DEFINE x == CHOOSE x \in s : TRUE
  <2>1. x \in s
    BY <1>2
  <2> HIDE DEF x
  <2>2. x \in U /\ v[x] \in Int /\ s \ {x} \in SUBSET U
    BY <2>1
  <2>3. Cardinality(s \ {x}) = Cardinality(s) - 1
    BY <1>1, <2>1, FS_RemoveElement
  <2> QED
    BY <2>1, <2>2, <2>3 DEF x
<1>3. 0 \in S
  <2> DEFINE f == [s \in UpTo(0) |-> 0]
  <2>1. \A s \in UpTo(0) : s = {}
    BY <1>1, FS_EmptySet
  <2>2. f \in [UpTo(0) -> Int] /\ \A s \in UpTo(0) : f[s] = Sum(f, s)
    BY <2>1
  <2> QED
    BY <2>2
<1>4. ASSUME NEW n \in Nat, n \in S PROVE n + 1 \in S
  <2>1. PICK f \in [UpTo(n) -> Int] : \A s \in UpTo(n) : f[s] = Sum(f, s)
    BY <1>4
  <2> DEFINE g == [s \in UpTo(n + 1) |-> IF s \in UpTo(n) THEN f[s] ELSE Sum(f, s)]
  <2>2. ASSUME NEW s \in UpTo(n + 1)
        PROVE /\ Sum(f, s) \in Int /\ g[s] = Sum(f, s)
              /\ Sum(g, s) = Sum(f, s)
    <3>1. CASE s = {}
      BY <2>1, <3>1
    <3>2. CASE s # {}
      <4> DEFINE x == CHOOSE x \in s : TRUE
      <4>1. v[x] \in Int /\ s \ {x} \in UpTo(n) /\ s \ {x} \in UpTo(n + 1)
        BY <1>1, <1>2, <3>2
      <4> HIDE DEF x
      <4>2. f[s \ {x}] \in Int /\ g[s \ {x}] = f[s \ {x}]
        BY <2>1, <4>1
      <4>3. Sum(f, s) = v[x] + f[s \ {x}] /\ Sum(g, s) = v[x] + g[s \ {x}]
        BY <3>2 DEF x
      <4>4. g[s] = Sum(f, s)
        BY <2>1
      <4> QED
        BY <4>1, <4>2, <4>3, <4>4
    <3> QED
      BY <3>1, <3>2
  <2>3. g \in [UpTo(n + 1) -> Int]
    BY <2>1, <2>2
  <2>4. \A s \in UpTo(n + 1) : g[s] = Sum(g, s)
    BY <2>2
  <2> HIDE DEF g, UpTo, Sum
  <2>5. \E h \in [UpTo(n + 1) -> Int] : \A s \in UpTo(n + 1) : h[s] = Sum(h, s)
    BY <2>3, <2>4
  <2> QED
    BY <2>5
<1> HIDE DEF S
<1>5. Cardinality(U) \in S
  <2>1. Nat \subseteq S
    BY <1>3, <1>4, SetInduction
  <2> QED
    BY <2>1, FS_CardinalityType
<1>6. UpTo(Cardinality(U)) = SUBSET U
  BY FS_Subset
<1>7. \E f : f \in [SUBSET U -> Int] /\ IsSumOn(f, U, v)
  <2>1. PICK f \in [SUBSET U -> Int] : \A s \in SUBSET U : f[s] = Sum(f, s)
    BY <1>5, <1>6 DEF S
  <2>2. f = [s \in SUBSET U |-> Sum(f, s)]
    BY <2>1
  <2> QED
    BY <2>1, <2>2 DEF IsSumOn
<1>8. IsSumOn(SumsOn(U, v), U, v)
  BY <1>7 DEF SumsOn
<1> DEFINE f == SumsOn(U, v)
<1>9. /\ DOMAIN f = SUBSET U /\ f = [s \in SUBSET U |-> f[s]]
      /\ \A s \in SUBSET U : f[s] = Sum(f, s)
  BY <1>8 DEF IsSumOn
<1> HIDE DEF f
<1>10. {s \in SUBSET U : f[s] \in Int} = SUBSET U
  <2> DEFINE F == {s \in SUBSET U : f[s] \in Int}
  <2>1. f[{}] = 0
    BY <1>9
  <2>2. ASSUME NEW s \in SUBSET U, s # {}, \A x \in s : s \ {x} \in F PROVE s \in F
    <3> DEFINE x == CHOOSE x \in s : TRUE
    <3>1. x \in s /\ v[x] \in Int
      BY <1>2, <2>2
    <3>2. f[s] = v[x] + f[s \ {x}]
      BY <1>9, <2>2
    <3> HIDE DEF x
    <3>3. f[s \ {x}] \in Int
      BY <2>2, <3>1
    <3>4. f[s] \in Int
      BY <3>1, <3>2, <3>3
    <3> QED
      BY <3>4
  <2>3. F \subseteq SUBSET U /\ {} \in F
    BY <2>1
  <2> HIDE DEF F
  <2>4. F = SUBSET U
    BY <2>2, <2>3, SubsetInduction
  <2> QED
    BY <2>4 DEF F
<1> QED
  BY <1>8, <1>9, <1>10 DEF f

\* Any element may be taken first.
LEMMA SumTakesAny ==
  ASSUME NEW U, IsFiniteSet(U), NEW v, \A x \in U : v[x] \in Int,
         NEW s \in SUBSET U, NEW x \in s
  PROVE  SumsOn(U, v)[s] = v[x] + SumsOn(U, v)[s \ {x}]
<1> DEFINE f == SumsOn(U, v)
           F == {r \in SUBSET U : \A y \in r : f[r] = v[y] + f[r \ {y}]}
<1>1. f \in [SUBSET U -> Int] /\ IsSumOn(f, U, v)
  BY SumExists
<1> HIDE DEF f
<1>2. ASSUME NEW r \in SUBSET U, r # {}
      PROVE LET z == CHOOSE z \in r : TRUE IN z \in r /\ f[r] = v[z] + f[r \ {z}]
  BY <1>1, <1>2 DEF IsSumOn
<1>3. {} \in F /\ F \subseteq SUBSET U
  OBVIOUS
<1>4. ASSUME NEW r \in SUBSET U, r # {}, \A y \in r : r \ {y} \in F PROVE r \in F
  <2> SUFFICES ASSUME NEW y \in r PROVE f[r] = v[y] + f[r \ {y}]
    OBVIOUS
  <2> DEFINE z == CHOOSE z \in r : TRUE
  <2>1. z \in r /\ f[r] = v[z] + f[r \ {z}]
    BY <1>2
  <2> HIDE DEF z
  <2>2. CASE z = y
    BY <2>1, <2>2
  <2>3. CASE z # y
    <3>1. r \ {z} \in F /\ r \ {y} \in F /\ y \in r \ {z} /\ z \in r \ {y}
      BY <1>4, <2>1, <2>3
    <3> DEFINE rest == (r \ {y}) \ {z}
    <3>2. rest = (r \ {z}) \ {y} /\ rest \in SUBSET U
      OBVIOUS
    <3>3. v[y] \in Int /\ v[z] \in Int /\ f[rest] \in Int
      BY <1>1, <2>1, <3>2
    <3>4. f[r \ {z}] = v[y] + f[rest] /\ f[r \ {y}] = v[z] + f[rest]
      BY <3>1, <3>2
    <3> HIDE DEF rest
    <3> QED
      BY <2>1, <3>3, <3>4
  <2> QED
    BY <2>2, <2>3
<1> HIDE DEF F
<1>5. F = SUBSET U
  BY <1>3, <1>4, SubsetInduction
<1> QED
  BY <1>5 DEF F, f

\* The sum over a set is the same inside every larger one.
LEMMA SumRestricts ==
  ASSUME NEW U, IsFiniteSet(U), NEW v, \A x \in U : v[x] \in Int, NEW T \in SUBSET U
  PROVE  SumsOn(U, v)[T] = SumOver(T, v)
<1> DEFINE f == SumsOn(U, v)
           g == SumsOn(T, v)
           F == {r \in SUBSET T : f[r] = g[r]}
<1>1. IsFiniteSet(T) /\ \A x \in T : v[x] \in Int
  BY FS_Subset
<1>2. IsSumOn(f, U, v) /\ IsSumOn(g, T, v)
  BY <1>1, SumExists
<1>3. /\ f[{}] = 0 /\ g[{}] = 0
  BY <1>2 DEF IsSumOn
<1>4. ASSUME NEW r \in SUBSET T, NEW x \in r
      PROVE f[r] = v[x] + f[r \ {x}] /\ g[r] = v[x] + g[r \ {x}]
  <2>1. r \in SUBSET U
    OBVIOUS
  <2>2. f[r] = v[x] + f[r \ {x}]
    BY <2>1, SumTakesAny
  <2>3. g[r] = v[x] + g[r \ {x}]
    BY <1>1, SumTakesAny
  <2> QED
    BY <2>2, <2>3
<1> HIDE DEF f, g
<1>5. ASSUME NEW r \in SUBSET T, r # {}, \A x \in r : r \ {x} \in F PROVE r \in F
  BY <1>4, <1>5
<1>6. {} \in F /\ F \subseteq SUBSET T
  BY <1>3
<1> HIDE DEF F
<1>7. F = SUBSET T
  BY <1>1, <1>5, <1>6, SubsetInduction
<1> QED
  BY <1>7 DEF F, f, g, SumOver

\* A sum by its parts: nothing, and one element more.
LEMMA SumOverParts ==
  ASSUME NEW T, IsFiniteSet(T), NEW v, \A x \in T : v[x] \in Int
  PROVE  /\ SumOver({}, v) = 0
         /\ SumOver(T, v) \in Int
         /\ \A x \in T : SumOver(T, v) = v[x] + SumOver(T \ {x}, v)
<1>1. SumOver({}, v) = 0
  <2>1. IsSumOn(SumsOn({}, v), {}, v)
    BY FS_EmptySet, SumExists
  <2> QED
    BY <2>1 DEF IsSumOn, SumOver
<1>2. SumOver(T, v) \in Int
  <2>1. SumsOn(T, v) \in [SUBSET T -> Int]
    BY SumExists
  <2> QED
    BY <2>1 DEF SumOver
<1>3. ASSUME NEW x \in T PROVE SumOver(T, v) = v[x] + SumOver(T \ {x}, v)
  <2>1. SumOver(T, v) = v[x] + SumsOn(T, v)[T \ {x}]
    BY SumTakesAny DEF SumOver
  <2>2. SumsOn(T, v)[T \ {x}] = SumOver(T \ {x}, v)
    BY SumRestricts
  <2> QED
    BY <2>1, <2>2
<1> QED
  BY <1>1, <1>2, <1>3

\* A sum depends on its terms only.
LEMMA SumOfEquals ==
  ASSUME NEW T, IsFiniteSet(T), NEW v, NEW w,
         \A x \in T : v[x] \in Int /\ w[x] = v[x]
  PROVE  SumOver(T, v) = SumOver(T, w)
<1> DEFINE F == {r \in SUBSET T : SumOver(r, v) = SumOver(r, w)}
<1>1. \A r \in SUBSET T : IsFiniteSet(r) /\ \A x \in r : v[x] \in Int /\ w[x] \in Int
  BY FS_Subset
<1>2. {} \in F /\ F \subseteq SUBSET T
  BY <1>1, SumOverParts
<1>3. ASSUME NEW r \in SUBSET T, r # {}, \A x \in r : r \ {x} \in F PROVE r \in F
  <2>1. PICK x \in r : TRUE
    BY <1>3
  <2>2. SumOver(r, v) = v[x] + SumOver(r \ {x}, v) /\ SumOver(r, w) = w[x] + SumOver(r \ {x}, w)
    BY <1>1, SumOverParts
  <2> QED
    BY <1>3, <2>2
<1> HIDE DEF F
<1>4. F = SUBSET T
  BY <1>2, <1>3, SubsetInduction
<1> QED
  BY <1>4 DEF F
=============================================================================
