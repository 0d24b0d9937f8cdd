----------------------------- MODULE SumLemmas ------------------------------
(***************************************************************************)
(* Lemmas about the sums of the community modules (SumFunctionOnSet, and   *)
(* SumFunction on a sequence), which the accounts of flow control are kept *)
(* with.  The sum is defined by a recursive function on the subsets of its *)
(* set; a fact about every finite set follows by looking at a smallest set *)
(* that breaks it, which exists because strict inclusion is well founded   *)
(* on a finite set's subsets.                                              *)
(***************************************************************************)
EXTENDS Integers, FiniteSets, Functions, FiniteSetTheorems, WellFoundedInduction, TLAPS

\* The function that SumFunctionOnSet chooses.
IsSum(it, f, T) ==
    it = [s \in SUBSET T |-> IF s = {} THEN 0
            ELSE f[CHOOSE x \in s : TRUE] + it[s \ {CHOOSE x \in s : TRUE}]]

-----------------------------------------------------------------------------
(* Sums over finite sets.                                                  *)

\* What the library's definitions come to.
LEMMA SumIs ==
    ASSUME NEW f, NEW T PROVE SumFunctionOnSet(f, T) = (CHOOSE it : IsSum(it, f, T))[T]
  BY DEF SumFunctionOnSet, FoldFunctionOnSet, MapThenFoldSet, IsSum

\* Among some of the subsets of a finite set there is a smallest one.
LEMMA SmallestSet ==
    ASSUME NEW S, IsFiniteSet(S), NEW Z \in SUBSET SUBSET S, Z # {}
    PROVE  \E m \in Z : \A z \in Z : z \subseteq m => z = m
  <1>1. IsWellFoundedOn(StrictSubsetOrdering(S), SUBSET S)
    BY FS_StrictSubsetOrderingWellFounded, FS_FiniteSubsetsOfFinite
  <1>2. PICK m \in Z : \A z \in Z : ~ (<<z, m>> \in StrictSubsetOrdering(S))
    BY <1>1, WFMin, Zenon
  <1>3. ASSUME NEW z \in Z, z \subseteq m PROVE z = m
    BY <1>2, <1>3 DEF StrictSubsetOrdering
  <1> QED  BY <1>3

\* Two such functions agree on a set on which their summands do.
LEMMA SumUnique ==
    ASSUME NEW V, IsFiniteSet(V), NEW T, NEW U, V \subseteq T, V \subseteq U,
           NEW f, NEW g, \A x \in V : f[x] = g[x],
           NEW a, IsSum(a, f, T), NEW b, IsSum(b, g, U)
    PROVE  a[V] = b[V]
  <1> DEFINE Z == {s \in SUBSET V : a[s] # b[s]}
  <1> SUFFICES ASSUME Z # {} PROVE FALSE
    OBVIOUS
  <1>1. PICK m \in Z : \A z \in Z : z \subseteq m => z = m
    <2>1. Z \in SUBSET SUBSET V  OBVIOUS
    <2> HIDE DEF Z
    <2> QED  BY <2>1, SmallestSet
  <1> DEFINE x == CHOOSE x \in m : TRUE
  <1>2. CASE m = {}
    BY <1>2 DEF IsSum
  <1>3. CASE m # {}
    <2>1. x \in m  BY <1>3
    <2>2. m \in SUBSET T /\ m \in SUBSET U /\ m \ {x} \in SUBSET V
      OBVIOUS
    <2>3. a[m] = f[x] + a[m \ {x}]
      BY <1>3, <2>2 DEF IsSum
    <2>4. b[m] = g[x] + b[m \ {x}]
      BY <1>3, <2>2 DEF IsSum
    <2>5. a[m \ {x}] = b[m \ {x}]
      BY <1>1, <2>1, <2>2
    <2> QED  BY <2>1, <2>3, <2>4, <2>5
  <1> QED  BY <1>2, <1>3

\* Such a function exists, for every finite set and any summands.
LEMMA SumExists ==
    ASSUME NEW S, IsFiniteSet(S), NEW f PROVE \E it : IsSum(it, f, S)
  <1> DEFINE Z == {s \in SUBSET S : ~ \E it : IsSum(it, f, s)}
  <1> SUFFICES ASSUME Z # {} PROVE FALSE
    OBVIOUS
  <1>1. PICK m \in Z : \A z \in Z : z \subseteq m => z = m
    <2>1. Z \in SUBSET SUBSET S  OBVIOUS
    <2> HIDE DEF Z
    <2> QED  BY <2>1, SmallestSet
  <1> DEFINE c(s) == CHOOSE x \in s : TRUE
             low(s) == CHOOSE it : IsSum(it, f, s)
             top == [s \in SUBSET m |-> IF s = {} THEN 0 ELSE f[c(s)] + low(s \ {c(s)})[s \ {c(s)}]]
  <1>2. ASSUME NEW s \in SUBSET m, s # m PROVE IsSum(low(s), f, s)
    BY <1>1, <1>2
  <1>3. ASSUME NEW s \in SUBSET m, s # {}
        PROVE  top[s] = f[c(s)] + top[s \ {c(s)}]
    <2>1. c(s) \in s  BY <1>3
    <2> DEFINE r == s \ {c(s)}
               q == r \ {c(r)}
    <2>2. r \in SUBSET m /\ r # m /\ top[s] = f[c(s)] + low(r)[r]
      BY <1>3, <2>1
    <2>3. IsSum(low(r), f, r)  BY <1>2, <2>2
    <2>4. low(r)[r] = top[r]
      <3>1. CASE r = {}
        <4>1. low(r)[r] = 0  BY <2>3, <3>1 DEF IsSum
        <4>2. top[r] = 0  BY <3>1
        <4> QED  BY <4>1, <4>2
      <3>2. CASE r # {}
        <4>1. low(r)[r] = f[c(r)] + low(r)[q]
          BY <2>3, <3>2 DEF IsSum
        <4>2. top[r] = f[c(r)] + low(q)[q]
          BY <2>2, <3>2
        <4>3. c(r) \in r  BY <3>2
        <4>4. q \in SUBSET m /\ q # m /\ q \in SUBSET r /\ q \in SUBSET S /\ r \in SUBSET S
          BY <2>2, <4>3
        <4>5. IsSum(low(q), f, q)  BY <1>2, <4>4
        <4> HIDE DEF q, r, low, c, top
        <4>6. IsFiniteSet(q)  BY <4>4, FS_Subset
        <4>7. q \subseteq q /\ q \subseteq r /\ \A x \in q : f[x] = f[x]  BY <4>4
        <4>8. low(r)[q] = low(q)[q]
          BY ONLY <2>3, <4>5, <4>6, <4>7, SumUnique
        <4> QED  BY <4>1, <4>2, <4>8
      <3> QED  BY <3>1, <3>2
    <2> QED  BY <2>2, <2>4
  <1>4. top = [s \in SUBSET m |-> IF s = {} THEN 0 ELSE f[c(s)] + top[s \ {c(s)}]]
    <2> DEFINE other == [s \in SUBSET m |-> IF s = {} THEN 0 ELSE f[c(s)] + top[s \ {c(s)}]]
    <2>1. \A s \in SUBSET m : top[s] = other[s]
      <3> SUFFICES ASSUME NEW s \in SUBSET m PROVE top[s] = other[s]
        OBVIOUS
      <3>1. CASE s = {}  BY <3>1
      <3>2. CASE s # {}
        <4>1. top[s] = f[c(s)] + top[s \ {c(s)}]  BY <1>3, <3>2
        <4>2. other[s] = f[c(s)] + top[s \ {c(s)}]
          <5> HIDE DEF top, c
          <5> QED  BY <3>2
        <4> HIDE DEF top, other, c
        <4> QED  BY <4>1, <4>2
      <3> QED  BY <3>1, <3>2
    <2>2. DOMAIN top = SUBSET m /\ DOMAIN other = SUBSET m
      OBVIOUS
    <2> QED  BY <2>1, <2>2
  <1>5. IsSum(top, f, m)
    <2> HIDE DEF top
    <2> QED  BY <1>4 DEF IsSum
  <1> QED  BY <1>1, <1>5

\* Sums of functions that agree are equal, and what is chosen for a set serves its subsets.
LEMMA SumAgrees ==
    ASSUME NEW S, IsFiniteSet(S), NEW f, NEW a, IsSum(a, f, S), NEW T \in SUBSET S
    PROVE  SumFunctionOnSet(f, T) = a[T]
  <1>1. IsFiniteSet(T)  BY FS_Subset
  <1>2. PICK b : IsSum(b, f, T)  BY <1>1, SumExists
  <1> DEFINE c == CHOOSE it : IsSum(it, f, T)
  <1>3. IsSum(c, f, T)  BY <1>2
  <1>4. SumFunctionOnSet(f, T) = c[T]  BY SumIs
  <1>5. S \in SUBSET S /\ T \subseteq T /\ T \subseteq S /\ \A x \in T : f[x] = f[x]
    OBVIOUS
  <1> HIDE DEF c
  <1>6. c[T] = a[T]
    BY ONLY <1>1, <1>3, <1>5, IsSum(a, f, S), SumUnique
  <1> QED  BY <1>4, <1>6

\* Equal summands, equal sums.
LEMMA SumSame ==
    ASSUME NEW T, IsFiniteSet(T), NEW f, NEW g, \A x \in T : f[x] = g[x]
    PROVE  SumFunctionOnSet(f, T) = SumFunctionOnSet(g, T)
  <1>1. PICK a : IsSum(a, f, T)  BY SumExists
  <1>2. PICK b : IsSum(b, g, T)  BY SumExists
  <1>3. T \in SUBSET T /\ T \subseteq T  OBVIOUS
  <1>4. SumFunctionOnSet(f, T) = a[T] /\ SumFunctionOnSet(g, T) = b[T]
    BY <1>1, <1>2, <1>3, SumAgrees
  <1>5. a[T] = b[T]  BY ONLY <1>1, <1>2, <1>3, SumUnique, IsFiniteSet(T), \A x \in T : f[x] = g[x]
  <1> QED  BY <1>4, <1>5

\* The sum of nothing.
LEMMA SumEmpty == ASSUME NEW f PROVE SumFunctionOnSet(f, {}) = 0
  <1>1. IsFiniteSet({})  BY FS_EmptySet
  <1>2. PICK a : IsSum(a, f, {})  BY <1>1, SumExists
  <1>3. {} \in SUBSET {}  OBVIOUS
  <1>4. SumFunctionOnSet(f, {}) = a[{}]  BY <1>1, <1>2, <1>3, SumAgrees
  <1>5. a[{}] = 0  BY <1>2 DEF IsSum
  <1> QED  BY <1>4, <1>5

\* The sum by its chosen element.
LEMMA SumChosen ==
    ASSUME NEW T, IsFiniteSet(T), NEW f, T # {}
    PROVE  LET x == CHOOSE x \in T : TRUE
           IN  SumFunctionOnSet(f, T) = f[x] + SumFunctionOnSet(f, T \ {x})
  <1> DEFINE x == CHOOSE x \in T : TRUE
  <1>1. PICK a : IsSum(a, f, T)  BY SumExists
  <1>2. T \in SUBSET T /\ T \ {x} \in SUBSET T  OBVIOUS
  <1>3. a[T] = f[x] + a[T \ {x}]  BY <1>1 DEF IsSum
  <1>4. SumFunctionOnSet(f, T) = a[T] /\ SumFunctionOnSet(f, T \ {x}) = a[T \ {x}]
    <2> HIDE DEF x
    <2> QED  BY <1>1, <1>2, SumAgrees
  <1> QED  BY <1>3, <1>4

\* A sum of integers is an integer.
LEMMA SumInt ==
    ASSUME NEW S, IsFiniteSet(S), NEW f, \A x \in S : f[x] \in Int
    PROVE  SumFunctionOnSet(f, S) \in Int
  <1> DEFINE Z == {s \in SUBSET S : SumFunctionOnSet(f, s) \notin Int}
  <1> SUFFICES ASSUME Z # {} PROVE FALSE
    OBVIOUS
  <1>1. PICK m \in Z : \A z \in Z : z \subseteq m => z = m
    <2>1. Z \in SUBSET SUBSET S  OBVIOUS
    <2> HIDE DEF Z
    <2> QED  BY <2>1, SmallestSet
  <1>2. IsFiniteSet(m)  BY FS_Subset
  <1>3. CASE m = {}  BY <1>3, SumEmpty
  <1>4. CASE m # {}
    <2> DEFINE x == CHOOSE x \in m : TRUE
    <2>1. x \in m  BY <1>4
    <2>2. SumFunctionOnSet(f, m) = f[x] + SumFunctionOnSet(f, m \ {x})
      BY <1>2, <1>4, SumChosen
    <2>3. SumFunctionOnSet(f, m \ {x}) \in Int  BY <1>1, <2>1
    <2> QED  BY <2>1, <2>2, <2>3
  <1> QED  BY <1>3, <1>4

\* An element may be taken out first, whichever it is.
LEMMA SumRemove ==
    ASSUME NEW S, IsFiniteSet(S), NEW f, \A y \in S : f[y] \in Int, NEW x \in S
    PROVE  SumFunctionOnSet(f, S) = f[x] + SumFunctionOnSet(f, S \ {x})
  <1> DEFINE Z == {s \in SUBSET S : \E y \in s :
                     SumFunctionOnSet(f, s) # f[y] + SumFunctionOnSet(f, s \ {y})}
  <1> SUFFICES ASSUME Z # {} PROVE FALSE
    OBVIOUS
  <1>1. PICK m \in Z : \A z \in Z : z \subseteq m => z = m
    <2>1. Z \in SUBSET SUBSET S  OBVIOUS
    <2> HIDE DEF Z
    <2> QED  BY <2>1, SmallestSet
  <1>2. PICK y \in m : SumFunctionOnSet(f, m) # f[y] + SumFunctionOnSet(f, m \ {y})
    OBVIOUS
  <1> DEFINE c == CHOOSE c \in m : TRUE
  <1>3. c \in m /\ m # {}  BY <1>2
  <1>4. IsFiniteSet(m) /\ IsFiniteSet(m \ {c}) /\ IsFiniteSet(m \ {y})
    <2>1. m \in SUBSET S /\ m \ {c} \in SUBSET S /\ m \ {y} \in SUBSET S  OBVIOUS
    <2> QED  BY <2>1, FS_Subset
  <1>5. SumFunctionOnSet(f, m) = f[c] + SumFunctionOnSet(f, m \ {c})
    BY <1>3, <1>4, SumChosen
  <1>6. y # c  BY <1>2, <1>5
  <1>7. SumFunctionOnSet(f, m \ {c}) = f[y] + SumFunctionOnSet(f, (m \ {c}) \ {y})
    <2>1. m \ {c} \in SUBSET S /\ m \ {c} # m /\ m \ {c} \subseteq m /\ y \in m \ {c}
      BY <1>3, <1>6
    <2> HIDE DEF c
    <2> QED  BY <1>1, <2>1
  <1>8. SumFunctionOnSet(f, m \ {y}) = f[c] + SumFunctionOnSet(f, (m \ {y}) \ {c})
    <2>1. m \ {y} \in SUBSET S /\ m \ {y} # m /\ m \ {y} \subseteq m /\ c \in m \ {y}
      BY <1>3, <1>6
    <2> HIDE DEF c
    <2> QED  BY <1>1, <2>1
  <1> DEFINE rest == (m \ {y}) \ {c}
  <1>9. (m \ {c}) \ {y} = rest  OBVIOUS
  <1>10. /\ f[c] \in Int /\ f[y] \in Int
         /\ SumFunctionOnSet(f, rest) \in Int
    <2>1. rest \in SUBSET S /\ c \in S /\ y \in S  BY <1>3
    <2>2. IsFiniteSet(rest)  BY <2>1, FS_Subset
    <2>3. \A z \in rest : f[z] \in Int  OBVIOUS
    <2> HIDE DEF rest
    <2> QED  BY <2>1, <2>2, <2>3, SumInt
  <1>11. SumFunctionOnSet(f, m) = f[c] + (f[y] + SumFunctionOnSet(f, rest))
    <2> HIDE DEF rest, c
    <2> QED  BY <1>5, <1>7, <1>9
  <1>12. SumFunctionOnSet(f, m \ {y}) = f[c] + SumFunctionOnSet(f, rest)
    BY <1>8
  <1> HIDE DEF c, rest, Z
  <1> QED  BY <1>2, <1>10, <1>11, <1>12

\* A sum of which one summand changes.
LEMMA SumChange ==
    ASSUME NEW S, IsFiniteSet(S), NEW f, NEW g, NEW x \in S, g[x] \in Int,
           \A y \in S : f[y] \in Int, \A y \in S : y # x => g[y] = f[y]
    PROVE  SumFunctionOnSet(g, S) = SumFunctionOnSet(f, S) - f[x] + g[x]
  <1> DEFINE R == S \ {x}
  <1>1. IsFiniteSet(R)  BY FS_RemoveElement
  <1>2. SumFunctionOnSet(f, S) = f[x] + SumFunctionOnSet(f, R)  BY SumRemove
  <1>3. \A y \in S : g[y] \in Int  OBVIOUS
  <1>4. SumFunctionOnSet(g, S) = g[x] + SumFunctionOnSet(g, R)  BY <1>3, SumRemove
  <1>5. \A y \in R : f[y] = g[y] /\ f[y] \in Int  OBVIOUS
  <1> HIDE DEF R
  <1>6. SumFunctionOnSet(g, R) = SumFunctionOnSet(f, R)  BY <1>1, <1>5, SumSame
  <1>7. SumFunctionOnSet(f, R) \in Int  BY <1>1, <1>5, SumInt
  <1> QED  BY <1>2, <1>4, <1>6, <1>7

\* A sum of natural numbers is one.
LEMMA SumNat ==
    ASSUME NEW S, IsFiniteSet(S), NEW f, \A x \in S : f[x] \in Nat
    PROVE  SumFunctionOnSet(f, S) \in Nat
  <1> DEFINE Z == {s \in SUBSET S : SumFunctionOnSet(f, s) \notin Nat}
  <1> SUFFICES ASSUME Z # {} PROVE FALSE
    OBVIOUS
  <1>1. PICK m \in Z : \A z \in Z : z \subseteq m => z = m
    <2>1. Z \in SUBSET SUBSET S  OBVIOUS
    <2> HIDE DEF Z
    <2> QED  BY <2>1, SmallestSet
  <1>2. IsFiniteSet(m)  BY FS_Subset
  <1>3. CASE m = {}  BY <1>3, SumEmpty
  <1>4. CASE m # {}
    <2> DEFINE x == CHOOSE x \in m : TRUE
    <2>1. x \in m  BY <1>4
    <2>2. SumFunctionOnSet(f, m) = f[x] + SumFunctionOnSet(f, m \ {x})
      BY <1>2, <1>4, SumChosen
    <2>3. SumFunctionOnSet(f, m \ {x}) \in Nat  BY <1>1, <2>1
    <2> QED  BY <2>1, <2>2, <2>3
  <1> QED  BY <1>3, <1>4

\* No summand exceeds a sum of natural numbers, and a sum of zeros is zero.
LEMMA SumAtLeast ==
    ASSUME NEW S, IsFiniteSet(S), NEW f, \A y \in S : f[y] \in Nat, NEW x \in S
    PROVE  f[x] <= SumFunctionOnSet(f, S)
  <1> DEFINE R == S \ {x}
  <1>1. IsFiniteSet(R) /\ \A y \in R : f[y] \in Nat  BY FS_RemoveElement
  <1>2. SumFunctionOnSet(f, S) = f[x] + SumFunctionOnSet(f, R)  BY SumRemove
  <1> HIDE DEF R
  <1>3. SumFunctionOnSet(f, R) \in Nat  BY <1>1, SumNat
  <1> QED  BY <1>2, <1>3

\* A sum of zeros.
LEMMA SumZero ==
    ASSUME NEW S, IsFiniteSet(S), NEW f, \A x \in S : f[x] = 0
    PROVE  SumFunctionOnSet(f, S) = 0
  <1> DEFINE Z == {s \in SUBSET S : SumFunctionOnSet(f, s) # 0}
  <1> SUFFICES ASSUME Z # {} PROVE FALSE
    OBVIOUS
  <1>1. PICK m \in Z : \A z \in Z : z \subseteq m => z = m
    <2>1. Z \in SUBSET SUBSET S  OBVIOUS
    <2> HIDE DEF Z
    <2> QED  BY <2>1, SmallestSet
  <1>2. IsFiniteSet(m)  BY FS_Subset
  <1>3. CASE m = {}  BY <1>3, SumEmpty
  <1>4. CASE m # {}
    <2> DEFINE x == CHOOSE x \in m : TRUE
    <2>1. x \in m  BY <1>4
    <2>2. SumFunctionOnSet(f, m) = f[x] + SumFunctionOnSet(f, m \ {x})
      BY <1>2, <1>4, SumChosen
    <2>3. SumFunctionOnSet(f, m \ {x}) = 0  BY <1>1, <2>1
    <2> QED  BY <2>1, <2>2, <2>3
  <1> QED  BY <1>3, <1>4

-----------------------------------------------------------------------------
(* Sums over sequences.                                                    *)

\* One element more at the end.
LEMMA SumLonger ==
    ASSUME NEW n \in Nat, NEW f, NEW g, \A i \in 1 .. n : f[i] \in Int /\ g[i] = f[i],
           g[n + 1] \in Int
    PROVE  SumFunctionOnSet(g, 1 .. n + 1) = SumFunctionOnSet(f, 1 .. n) + g[n + 1]
  <1>1. IsFiniteSet(1 .. n + 1) /\ IsFiniteSet(1 .. n)  BY FS_Interval
  <1>2. n + 1 \in 1 .. n + 1 /\ (1 .. n + 1) \ {n + 1} = 1 .. n  OBVIOUS
  <1>3. \A i \in 1 .. n + 1 : g[i] \in Int
    <2> SUFFICES ASSUME NEW i \in 1 .. n + 1 PROVE g[i] \in Int
      OBVIOUS
    <2>1. i \in 1 .. n \/ i = n + 1  OBVIOUS
    <2> QED  BY <2>1
  <1> DEFINE I == 1 .. n + 1
             J == 1 .. n
  <1>4. SumFunctionOnSet(g, I) = g[n + 1] + SumFunctionOnSet(g, I \ {n + 1})
    BY <1>1, <1>2, <1>3, SumRemove
  <1>5. SumFunctionOnSet(g, J) = SumFunctionOnSet(f, J)  BY <1>1, SumSame
  <1>6. SumFunctionOnSet(f, J) \in Int  BY <1>1, SumInt
  <1>7. I \ {n + 1} = J  BY <1>2
  <1> HIDE DEF I, J
  <1>8. SumFunctionOnSet(g, I) = SumFunctionOnSet(f, J) + g[n + 1]
    BY <1>4, <1>5, <1>6, <1>7
  <1> QED  BY <1>8 DEF I, J

\* Every nonempty set of natural numbers has a least element.
LEMMA LeastElement ==
    ASSUME NEW T \in SUBSET Nat, T # {} PROVE \E x \in T : \A y \in T : x <= y
  <1>1. PICK R : IsWellFoundedOn(R, Nat) /\ \A x, y \in Nat : x < y => <<x, y>> \in R
    BY NatLessThanWellFounded DEF OpToRel
  <1>2. T \subseteq Nat /\ IsWellFoundedOn(R, Nat)
    BY <1>1
  <1>3. PICK x \in T : \A y \in T : ~ (<<y, x>> \in R)
    BY ONLY <1>2, T # {}, WFMin, Zenon
  <1>4. ASSUME NEW y \in T PROVE x <= y
    <2>1. ~ (y < x)  BY <1>1, <1>2, <1>3
    <2> QED  BY <1>2, <2>1
  <1> QED  BY <1>4

\* The first element is taken away.
LEMMA SumShorter ==
    ASSUME NEW n \in Nat, n > 0, NEW f, NEW g, \A i \in 1 .. n : f[i] \in Int,
           \A i \in 1 .. n - 1 : g[i] = f[i + 1]
    PROVE  SumFunctionOnSet(g, 1 .. n - 1) = SumFunctionOnSet(f, 1 .. n) - f[1]
  <1> DEFINE Z == {k \in 0 .. n - 1 :
                     SumFunctionOnSet(g, 1 .. k) # SumFunctionOnSet(f, 1 .. k + 1) - f[1]}
  <1>1. ASSUME Z # {} PROVE FALSE
    <2>1. PICK k \in Z : \A y \in Z : k <= y
      <3>1. Z \in SUBSET Nat  OBVIOUS
      <3> HIDE DEF Z
      <3> QED  BY <1>1, <3>1, LeastElement
    <2>2. k \in 0 .. n - 1 /\ SumFunctionOnSet(g, 1 .. k) # SumFunctionOnSet(f, 1 .. k + 1) - f[1]
      OBVIOUS
    <2>3. CASE k = 0
      <3>1. 1 .. 0 = {} /\ 1 .. 1 = {1} /\ {1} \ {1} = {} /\ f[1] \in Int  OBVIOUS
      <3>2. IsFiniteSet({1})  BY FS_Singleton
      <3>3. SumFunctionOnSet(f, {1}) = f[1] + SumFunctionOnSet(f, {})
        BY <3>1, <3>2, SumRemove
      <3>4. SumFunctionOnSet(f, {}) = 0 /\ SumFunctionOnSet(g, {}) = 0  BY SumEmpty
      <3> QED  BY <2>2, <2>3, <3>1, <3>3, <3>4
    <2>4. CASE k > 0
      <3> DEFINE j == k - 1
      <3>1. j \in Nat /\ k = j + 1 /\ j \in 0 .. n - 1 /\ j \notin Z /\ k + 1 = (j + 1) + 1
                /\ j + 1 \in Nat
        BY <2>1, <2>2, <2>4
      <3>2. SumFunctionOnSet(g, 1 .. j) = SumFunctionOnSet(f, 1 .. j + 1) - f[1]
        BY <3>1
      <3>3. /\ \A i \in 1 .. j : g[i] \in Int /\ g[i] = g[i]
            /\ g[j + 1] \in Int /\ g[j + 1] = f[(j + 1) + 1]
        BY <2>2, <3>1
      <3>4. /\ \A i \in 1 .. j + 1 : f[i] \in Int /\ f[i] = f[i]
            /\ f[(j + 1) + 1] \in Int /\ f[1] \in Int
        BY <2>2, <3>1
      <3>5. IsFiniteSet(1 .. j + 1)  BY <3>1, FS_Interval
      <3> HIDE DEF j, Z
      <3>6. SumFunctionOnSet(g, 1 .. j + 1) = SumFunctionOnSet(g, 1 .. j) + g[j + 1]
        BY ONLY <3>1, <3>3, SumLonger
      <3>7. SumFunctionOnSet(f, 1 .. (j + 1) + 1) = SumFunctionOnSet(f, 1 .. j + 1) + f[(j + 1) + 1]
        BY ONLY <3>1, <3>4, SumLonger
      <3>8. SumFunctionOnSet(f, 1 .. j + 1) \in Int
        BY <3>4, <3>5, SumInt
      <3> QED  BY <2>2, <3>1, <3>2, <3>3, <3>4, <3>6, <3>7, <3>8
    <2> QED  BY <2>2, <2>3, <2>4
  <1>2. n - 1 \in 0 .. n - 1 /\ n - 1 + 1 = n  OBVIOUS
  <1> QED  BY <1>1, <1>2

\* A set of naturals that is finite and not empty has a largest element: the smallest of
\* its subsets {y : y >= x} is that of the largest x.
LEMMA LargestElement ==
    ASSUME NEW S, IsFiniteSet(S), S # {}, \A x \in S : x \in Nat
    PROVE  \E x \in S : \A y \in S : x >= y
  <1> DEFINE Above(x) == {y \in S : y >= x}
             Z == {Above(x) : x \in S}
  <1>1. Z \in SUBSET SUBSET S /\ Z # {}
    OBVIOUS
  <1> HIDE DEF Above, Z
  <1>2. PICK m \in Z : \A z \in Z : z \subseteq m => z = m
    BY <1>1, SmallestSet
  <1>3. PICK x \in S : m = Above(x)
    BY DEF Z
  <1>4. ASSUME NEW y \in S, y > x PROVE FALSE
    <2>1. Above(y) \in Z
      BY <1>4 DEF Z
    <2>3. \A z \in Above(y) : z \in Above(x)
      BY <1>4 DEF Above
    <2>4. x \in Above(x) /\ x \notin Above(y)
      BY <1>4 DEF Above
    <2>2. Above(y) = Above(x)
      BY <1>2, <1>3, <2>1, <2>3
    <2> QED  BY <2>2, <2>4
  <1> QED  BY <1>4

=============================================================================
