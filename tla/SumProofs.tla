----------------------------- MODULE SumProofs -----------------------------
(***************************************************************************)
(* Lemmas about SumFunctionOnSet, the sum of a function over a finite set, *)
(* which is how the book's quantities are added up.  The sum is a fold     *)
(* that takes the elements in an order of its own, so the lemmas say that  *)
(* the order does not matter: an element can be taken out first whichever  *)
(* it is.                                                                  *)
(*                                                                         *)
(* The library's induction theorems are about an arbitrary predicate,      *)
(* which cannot be given to the provers here; LeastNatural is used         *)
(* instead, on the size of a smallest counterexample.  At the end, a few   *)
(* facts about minima, maxima and intervals.                               *)
(***************************************************************************)
EXTENDS Integers, Functions, FiniteSets, FiniteSetsExt, FiniteSetTheorems,
        WellFoundedInduction, TLAPS

LEMMA LeastNatural ==
  ASSUME NEW S, S \subseteq Nat, S # {}
  PROVE  \E m \in S : \A n \in S : m <= n
<1>1. PICK m \in S : \A n \in S : ~(<<n, m>> \in OpToRel(<, Nat))
  BY NatLessThanWellFounded, WFMin
<1>2. \A n \in S : ~(n < m)
  BY <1>1 DEF OpToRel
<1>3. m \in Nat /\ \A n \in S : n \in Nat
  BY <1>1
<1>4. \A n \in S : m <= n
  BY <1>2, <1>3
<1>5. QED
  BY <1>1, <1>4

(* A set of subsets of a finite set that is not empty has a smallest member.*)
LEMMA SmallestSet ==
  ASSUME NEW S, IsFiniteSet(S), NEW F, F \subseteq SUBSET S, F # {}
  PROVE  \E T \in F : /\ IsFiniteSet(T)
                      /\ \A U \in F : Cardinality(T) <= Cardinality(U)
<1> DEFINE N == {Cardinality(T) : T \in F}
<1>1. \A T \in F : IsFiniteSet(T) /\ Cardinality(T) \in Nat
  BY FS_Subset, FS_CardinalityType
<1>2. N \subseteq Nat /\ N # {}
  BY <1>1
<1>3. PICK m \in N : \A n \in N : m <= n
  BY <1>2, LeastNatural
<1>4. PICK T \in F : Cardinality(T) = m
  BY <1>3
<1>5. QED
  BY <1>1, <1>3, <1>4

(* Taking an element out of a finite set makes it smaller.                 *)
LEMMA Smaller ==
  ASSUME NEW S, IsFiniteSet(S), NEW x \in S
  PROVE  /\ IsFiniteSet(S \ {x})
         /\ Cardinality(S) \in Nat /\ Cardinality(S \ {x}) \in Nat
         /\ Cardinality(S \ {x}) < Cardinality(S)
<1>1. IsFiniteSet(S \ {x}) /\ Cardinality(S \ {x}) = Cardinality(S) - 1
  BY FS_RemoveElement
<1>2. Cardinality(S) \in Nat /\ Cardinality(S \ {x}) \in Nat
  BY <1>1, FS_CardinalityType
<1>3. QED
  BY <1>1, <1>2

----------------------------------------------------------------------------
(* The fold behind the sum is well-defined.                                *)

Chosen(s) == CHOOSE x \in s : TRUE

SumStep(g, f, s) ==
  IF s = {} THEN 0 ELSE f[Chosen(s)] + g[s \ {Chosen(s)}]

IsSum(g, f, S) == g = [s \in SUBSET S |-> SumStep(g, f, s)]

LEMMA SumIsFold ==
  ASSUME NEW f, NEW S
  PROVE  SumFunctionOnSet(f, S) = (CHOOSE g : IsSum(g, f, S))[S]
BY DEF SumFunctionOnSet, FoldFunctionOnSet, MapThenFoldSet, IsSum, SumStep,
       Chosen

LEMMA ChosenIn ==
  ASSUME NEW s, s # {}
  PROVE  Chosen(s) \in s
BY DEF Chosen

(* There are functions that obey the equation on all sets of up to n       *)
(* elements, whatever n is ...                                             *)
ObeysUpTo(g, f, S, n) ==
  \A s \in SUBSET S : Cardinality(s) <= n => g[s] = SumStep(g, f, s)

LEMMA ObeyingFunction ==
  ASSUME NEW f, NEW S, IsFiniteSet(S), NEW n \in Nat
  PROVE  \E g : ObeysUpTo(g, f, S, n)
<1> DEFINE N == {k \in Nat : ~\E g : ObeysUpTo(g, f, S, k)}
<1> SUFFICES ASSUME N # {} PROVE FALSE
  OBVIOUS
<1>1. PICK m \in N : \A k \in N : m <= k
  BY LeastNatural
<1>2. \A s \in SUBSET S : IsFiniteSet(s) /\ Cardinality(s) \in Nat
  BY FS_Subset, FS_CardinalityType
<1>3. \A s \in SUBSET S : s # {} =>
        /\ s \ {Chosen(s)} \in SUBSET S
        /\ Cardinality(s \ {Chosen(s)}) < Cardinality(s)
  BY <1>2, ChosenIn, Smaller
<1>4. CASE m = 0
  <2> DEFINE g == [s \in SUBSET S |-> 0]
  <2>1. \A s \in SUBSET S : Cardinality(s) <= 0 => s = {}
    BY <1>2, FS_EmptySet
  <2>2. ObeysUpTo(g, f, S, 0)
    BY <2>1 DEF ObeysUpTo, SumStep
  <2>3. QED
    BY <1>1, <1>4, <2>2
<1>5. CASE m # 0
  <2>1. m - 1 \in Nat /\ m - 1 \notin N
    BY <1>1, <1>5
  <2>2. PICK h : ObeysUpTo(h, f, S, m - 1)
    BY <2>1
  <2> DEFINE g == [s \in SUBSET S |-> SumStep(h, f, s)]
  <2>3. \A s \in SUBSET S : Cardinality(s) <= m - 1 => g[s] = h[s]
    BY <2>2 DEF ObeysUpTo
  <2>4. ASSUME NEW s \in SUBSET S, Cardinality(s) <= m
        PROVE  g[s] = SumStep(g, f, s)
    <3>1. CASE s = {}
      BY <3>1 DEF SumStep
    <3>2. CASE s # {}
      <4>1. /\ s \ {Chosen(s)} \in SUBSET S
            /\ Cardinality(s \ {Chosen(s)}) <= m - 1
        BY <1>1, <1>2, <1>3, <2>4, <3>2
      <4>2. g[s \ {Chosen(s)}] = h[s \ {Chosen(s)}]
        BY <2>3, <4>1
      <4>3. g[s] = SumStep(h, f, s)
        OBVIOUS
      <4> HIDE DEF g
      <4>4. QED
        BY <3>2, <4>2, <4>3 DEF SumStep
    <3>3. QED
      BY <3>1, <3>2
  <2>5. ObeysUpTo(g, f, S, m)
    BY <2>4 DEF ObeysUpTo
  <2>6. QED
    BY <1>1, <2>5
<1>6. QED
  BY <1>4, <1>5

(* ... so there is one that obeys it on all subsets of a finite set.       *)
LEMMA SumExists ==
  ASSUME NEW f, NEW S, IsFiniteSet(S)
  PROVE  \E g : IsSum(g, f, S)
<1>1. \A s \in SUBSET S : Cardinality(s) <= Cardinality(S)
  BY FS_Subset
<1>2. PICK h : ObeysUpTo(h, f, S, Cardinality(S))
  BY ObeyingFunction, FS_CardinalityType
<1> DEFINE g == [s \in SUBSET S |-> h[s]]
<1>3. \A s \in SUBSET S : g[s] = h[s] /\ h[s] = SumStep(h, f, s)
  BY <1>1, <1>2 DEF ObeysUpTo
<1>4. \A s \in SUBSET S : s \ {Chosen(s)} \in SUBSET S
  OBVIOUS
<1>5. \A s \in SUBSET S : SumStep(g, f, s) = SumStep(h, f, s)
  BY <1>3, <1>4 DEF SumStep
<1>6. g = [s \in SUBSET S |-> SumStep(g, f, s)]
  BY <1>3, <1>5
<1>7. QED
  BY <1>6 DEF IsSum

(* What a sum is does not depend on the set whose subsets the fold is over.*)
LEMMA SumsAgree ==
  ASSUME NEW f, NEW S, IsFiniteSet(S), NEW T \in SUBSET S,
         NEW g, IsSum(g, f, S), NEW h, IsSum(h, f, T)
  PROVE  g[T] = h[T]
<1> DEFINE F == {s \in SUBSET T : g[s] # h[s]}
<1>1. IsFiniteSet(T)
  BY FS_Subset
<1> SUFFICES ASSUME F # {} PROVE FALSE
  OBVIOUS
<1>2. PICK s \in F : /\ IsFiniteSet(s)
                     /\ \A u \in F : Cardinality(s) <= Cardinality(u)
  BY <1>1, SmallestSet
<1>3. g[s] = SumStep(g, f, s) /\ h[s] = SumStep(h, f, s)
  BY <1>2 DEF IsSum
<1>4. s # {}
  BY <1>2, <1>3 DEF SumStep
<1>5. /\ Cardinality(s \ {Chosen(s)}) < Cardinality(s)
      /\ Cardinality(s) \in Nat /\ Cardinality(s \ {Chosen(s)}) \in Nat
  BY <1>2, <1>4, ChosenIn, Smaller
<1>6. s \ {Chosen(s)} \notin F
  BY <1>2, <1>5
<1>7. g[s \ {Chosen(s)}] = h[s \ {Chosen(s)}]
  BY <1>2, <1>6
<1>8. QED
  BY <1>2, <1>3, <1>4, <1>7 DEF SumStep

----------------------------------------------------------------------------
(* The facts to cite.                                                      *)

LEMMA SumOfNone ==
  ASSUME NEW f
  PROVE  SumFunctionOnSet(f, {}) = 0
<1>1. PICK g : IsSum(g, f, {})
  BY SumExists, FS_EmptySet
<1>2. IsSum((CHOOSE k : IsSum(k, f, {})), f, {})
  BY <1>1
<1>3. QED
  BY <1>2, SumIsFold DEF IsSum, SumStep

LEMMA SumOfSome ==
  ASSUME NEW f, NEW S, IsFiniteSet(S), S # {}
  PROVE  SumFunctionOnSet(f, S) =
           f[Chosen(S)] + SumFunctionOnSet(f, S \ {Chosen(S)})
<1> DEFINE T == S \ {Chosen(S)}
           g == CHOOSE k : IsSum(k, f, S)
           h == CHOOSE k : IsSum(k, f, T)
<1>1. T \in SUBSET S /\ IsFiniteSet(T)
  BY FS_Subset
<1>2. IsSum(g, f, S) /\ IsSum(h, f, T)
  BY <1>1, SumExists
<1>3. SumFunctionOnSet(f, S) = g[S] /\ SumFunctionOnSet(f, T) = h[T]
  BY SumIsFold
<1> HIDE DEF g, h
<1>4. g[T] = h[T]
  BY <1>1, <1>2, SumsAgree
<1>5. g[S] = f[Chosen(S)] + g[T]
  BY <1>2 DEF IsSum, SumStep
<1>6. QED
  BY <1>3, <1>4, <1>5

(* Sums of integers are integers.                                          *)
LEMMA SumType ==
  ASSUME NEW S, IsFiniteSet(S), NEW f, \A x \in S : f[x] \in Int
  PROVE  SumFunctionOnSet(f, S) \in Int
<1> DEFINE F == {T \in SUBSET S : SumFunctionOnSet(f, T) \notin Int}
<1> SUFFICES ASSUME F # {} PROVE FALSE
  OBVIOUS
<1>1. PICK T \in F : /\ IsFiniteSet(T)
                     /\ \A U \in F : Cardinality(T) <= Cardinality(U)
  BY SmallestSet
<1>2. T # {}
  BY <1>1, SumOfNone
<1>3. Chosen(T) \in T /\ f[Chosen(T)] \in Int
  BY <1>1, <1>2, ChosenIn
<1>4. /\ Cardinality(T \ {Chosen(T)}) < Cardinality(T)
      /\ Cardinality(T) \in Nat /\ Cardinality(T \ {Chosen(T)}) \in Nat
  BY <1>1, <1>3, Smaller
<1>5. T \ {Chosen(T)} \notin F
  BY <1>1, <1>4
<1>6. SumFunctionOnSet(f, T \ {Chosen(T)}) \in Int
  BY <1>1, <1>5
<1>7. QED
  BY <1>1, <1>2, <1>3, <1>6, SumOfSome

(* Any element can be taken out first.                                     *)
LEMMA SumWithout ==
  ASSUME NEW S, IsFiniteSet(S), NEW f, \A x \in S : f[x] \in Int,
         NEW x \in S
  PROVE  /\ SumFunctionOnSet(f, S) =
              f[x] + SumFunctionOnSet(f, S \ {x})
         /\ SumFunctionOnSet(f, S) \in Int
         /\ SumFunctionOnSet(f, S \ {x}) \in Int
<1> DEFINE Sum(T) == SumFunctionOnSet(f, T)
           F == {T \in SUBSET S : \E y \in T : Sum(T) # f[y] + Sum(T \ {y})}
<1>1. \A T \in SUBSET S : IsFiniteSet(T) /\ Sum(T) \in Int
  BY SumType, FS_Subset
<1>2. ASSUME F # {} PROVE FALSE
  <2>1. PICK T \in F : \A U \in F : Cardinality(T) <= Cardinality(U)
    BY <1>2, SmallestSet
  <2>2. PICK y \in T : Sum(T) # f[y] + Sum(T \ {y})
    BY <2>1
  <2> DEFINE c == Chosen(T)
             V == (T \ {c}) \ {y}
  <2>3. IsFiniteSet(T) /\ c \in T /\ Sum(T) = f[c] + Sum(T \ {c})
    BY <1>1, <2>1, <2>2, ChosenIn, SumOfSome
  <2> HIDE DEF c, F
  <2>4. c # y
    BY <2>2, <2>3
  <2>5. /\ Cardinality(T \ {c}) < Cardinality(T)
        /\ Cardinality(T \ {y}) < Cardinality(T)
        /\ Cardinality(T) \in Nat
        /\ Cardinality(T \ {c}) \in Nat /\ Cardinality(T \ {y}) \in Nat
    BY <2>2, <2>3, Smaller
  <2>6. T \ {c} \notin F /\ T \ {y} \notin F
    BY <2>1, <2>5
  <2>7. Sum(T \ {c}) = f[y] + Sum(V)
    BY <2>1, <2>2, <2>4, <2>6 DEF F
  <2>8. (T \ {y}) \ {c} = V
    OBVIOUS
  <2>9. Sum(T \ {y}) = f[c] + Sum(V)
    <3>1. Sum(T \ {y}) = f[c] + Sum((T \ {y}) \ {c})
      BY <2>1, <2>3, <2>4, <2>6 DEF F
    <3>2. QED
      BY <2>8, <3>1
  <2>10. f[c] \in Int /\ f[y] \in Int /\ Sum(V) \in Int
    <3>1. T \in SUBSET S
      BY <2>1 DEF F
    <3>2. V \in SUBSET S
      BY <3>1
    <3>3. QED
      BY <1>1, <2>2, <2>3, <3>1, <3>2
  <2> HIDE DEF V, Sum
  <2>11. Sum(T) = f[y] + Sum(T \ {y})
    BY <2>3, <2>7, <2>9, <2>10
  <2>12. QED
    BY <2>2, <2>11
<1>3. S \notin F
  BY <1>2
<1>4. QED
  BY <1>1, <1>3

LEMMA SumWith ==
  ASSUME NEW S, IsFiniteSet(S), NEW x, x \notin S,
         NEW f, \A y \in S \cup {x} : f[y] \in Int
  PROVE  SumFunctionOnSet(f, S \cup {x}) = SumFunctionOnSet(f, S) + f[x]
<1>1. IsFiniteSet(S \cup {x}) /\ (S \cup {x}) \ {x} = S
  BY FS_AddElement
<1>2. /\ SumFunctionOnSet(f, S \cup {x}) = f[x] + SumFunctionOnSet(f, S)
      /\ SumFunctionOnSet(f, S) \in Int /\ f[x] \in Int
  BY <1>1, SumWithout
<1>3. QED
  BY <1>2

(* The sum only depends on the values at the elements of the set.          *)
LEMMA SumSame ==
  ASSUME NEW S, IsFiniteSet(S), NEW f, NEW h, \A x \in S : f[x] = h[x]
  PROVE  SumFunctionOnSet(f, S) = SumFunctionOnSet(h, S)
<1> DEFINE F == {T \in SUBSET S :
                   SumFunctionOnSet(f, T) # SumFunctionOnSet(h, T)}
<1> SUFFICES ASSUME F # {} PROVE FALSE
  OBVIOUS
<1>1. PICK T \in F : /\ IsFiniteSet(T)
                     /\ \A U \in F : Cardinality(T) <= Cardinality(U)
  BY SmallestSet
<1>2. T # {}
  BY <1>1, SumOfNone
<1>3. Chosen(T) \in T /\ f[Chosen(T)] = h[Chosen(T)]
  BY <1>1, <1>2, ChosenIn
<1>4. /\ Cardinality(T \ {Chosen(T)}) < Cardinality(T)
      /\ Cardinality(T) \in Nat /\ Cardinality(T \ {Chosen(T)}) \in Nat
  BY <1>1, <1>3, Smaller
<1>5. T \ {Chosen(T)} \notin F
  BY <1>1, <1>4
<1>6. SumFunctionOnSet(f, T \ {Chosen(T)})
        = SumFunctionOnSet(h, T \ {Chosen(T)})
  BY <1>1, <1>5
<1>7. QED
  BY <1>1, <1>2, <1>3, <1>6, SumOfSome

(* One value changes.                                                      *)
LEMMA SumChanged ==
  ASSUME NEW S, IsFiniteSet(S), NEW x \in S, NEW f, NEW h,
         \A y \in S : f[y] \in Int /\ h[y] \in Int,
         \A y \in S \ {x} : h[y] = f[y]
  PROVE  SumFunctionOnSet(h, S) = SumFunctionOnSet(f, S) - f[x] + h[x]
<1>1. /\ SumFunctionOnSet(f, S) = f[x] + SumFunctionOnSet(f, S \ {x})
      /\ SumFunctionOnSet(h, S) = h[x] + SumFunctionOnSet(h, S \ {x})
      /\ SumFunctionOnSet(f, S \ {x}) \in Int
      /\ f[x] \in Int /\ h[x] \in Int
  BY SumWithout
<1>2. SumFunctionOnSet(f, S \ {x}) = SumFunctionOnSet(h, S \ {x})
  BY FS_Subset, SumSame
<1>3. QED
  BY <1>1, <1>2

(* Sums of naturals are naturals, no less than any of them.                *)
LEMMA SumNatural ==
  ASSUME NEW S, IsFiniteSet(S), NEW f, \A x \in S : f[x] \in Nat
  PROVE  SumFunctionOnSet(f, S) \in Nat
<1> DEFINE F == {T \in SUBSET S : SumFunctionOnSet(f, T) \notin Nat}
<1> SUFFICES ASSUME F # {} PROVE FALSE
  OBVIOUS
<1>1. PICK T \in F : /\ IsFiniteSet(T)
                     /\ \A U \in F : Cardinality(T) <= Cardinality(U)
  BY SmallestSet
<1>2. T # {}
  BY <1>1, SumOfNone
<1>3. Chosen(T) \in T /\ f[Chosen(T)] \in Nat
  BY <1>1, <1>2, ChosenIn
<1>4. /\ Cardinality(T \ {Chosen(T)}) < Cardinality(T)
      /\ Cardinality(T) \in Nat /\ Cardinality(T \ {Chosen(T)}) \in Nat
  BY <1>1, <1>3, Smaller
<1>5. T \ {Chosen(T)} \notin F
  BY <1>1, <1>4
<1>6. SumFunctionOnSet(f, T \ {Chosen(T)}) \in Nat
  BY <1>1, <1>5
<1>7. QED
  BY <1>1, <1>2, <1>3, <1>6, SumOfSome

LEMMA SumBounds ==
  ASSUME NEW S, IsFiniteSet(S), NEW f, \A x \in S : f[x] \in Nat, NEW x \in S
  PROVE  f[x] <= SumFunctionOnSet(f, S)
<1>1. \A y \in S : f[y] \in Int
  OBVIOUS
<1>2. SumFunctionOnSet(f, S) = f[x] + SumFunctionOnSet(f, S \ {x})
  BY <1>1, SumWithout
<1>3. SumFunctionOnSet(f, S \ {x}) \in Nat
  BY FS_Subset, SumNatural
<1>4. QED
  BY <1>2, <1>3

LEMMA SumOfZeros ==
  ASSUME NEW S, IsFiniteSet(S), NEW f, \A x \in S : f[x] = 0
  PROVE  SumFunctionOnSet(f, S) = 0
<1> DEFINE F == {T \in SUBSET S : SumFunctionOnSet(f, T) # 0}
<1> SUFFICES ASSUME F # {} PROVE FALSE
  OBVIOUS
<1>1. PICK T \in F : /\ IsFiniteSet(T)
                     /\ \A U \in F : Cardinality(T) <= Cardinality(U)
  BY SmallestSet
<1>2. T # {}
  BY <1>1, SumOfNone
<1>3. Chosen(T) \in T /\ f[Chosen(T)] = 0
  BY <1>1, <1>2, ChosenIn
<1>4. /\ Cardinality(T \ {Chosen(T)}) < Cardinality(T)
      /\ Cardinality(T) \in Nat /\ Cardinality(T \ {Chosen(T)}) \in Nat
  BY <1>1, <1>3, Smaller
<1>5. T \ {Chosen(T)} \notin F
  BY <1>1, <1>4
<1>6. SumFunctionOnSet(f, T \ {Chosen(T)}) = 0
  BY <1>1, <1>5
<1>7. QED
  BY <1>1, <1>2, <1>3, <1>6, SumOfSome

(* A sum over a renamed set.                                               *)
LEMMA SumRenamed ==
  ASSUME NEW S, IsFiniteSet(S), NEW R, NEW g \in Bijection(S, R),
         NEW f, NEW h, \A x \in S : f[g[x]] \in Int /\ h[x] = f[g[x]]
  PROVE  SumFunctionOnSet(h, S) = SumFunctionOnSet(f, R)
<1> DEFINE Named(T) == {g[x] : x \in T}
           Same(T) == /\ IsFiniteSet(Named(T))
                      /\ SumFunctionOnSet(h, T) = SumFunctionOnSet(f, Named(T))
           F == {T \in SUBSET S : ~Same(T)}
<1>6. /\ R = Named(S)
      /\ \A x, y \in S : g[x] = g[y] => x = y
  BY DEF Bijection, Injection, Surjection, IsInjective
<1> SUFFICES ASSUME F # {} PROVE FALSE
  BY <1>6
<1>1. PICK T \in F : /\ IsFiniteSet(T)
                     /\ \A U \in F : Cardinality(T) <= Cardinality(U)
  BY SmallestSet
<1>2. T \in SUBSET S /\ ~Same(T)
  BY <1>1
<1>3. CASE T = {}
  <2>1. Named(T) = {}
    BY <1>3
  <2>2. Same(T)
    BY <1>3, <2>1, SumOfNone, FS_EmptySet
  <2>3. QED
    BY <1>2, <2>2
<1>4. CASE T # {}
  <2>1. PICK x \in T : TRUE
    BY <1>4
  <2> DEFINE U == T \ {x}
  <2>2. /\ Cardinality(U) < Cardinality(T) /\ IsFiniteSet(U)
        /\ Cardinality(T) \in Nat /\ Cardinality(U) \in Nat
        /\ U \in SUBSET S
    BY <1>1, <1>2, Smaller
  <2>3. U \notin F
    <3> HIDE DEF F, U
    <3>1. QED
      BY <1>1, <2>2
  <2>4. Same(U)
    <3> HIDE DEF Same, U
    <3>1. QED
      BY <2>2, <2>3
  <2>5. /\ Named(T) = Named(U) \cup {g[x]}
        /\ g[x] \notin Named(U)
    BY <1>2, <1>6, <2>1
  <2>6. /\ \A y \in T : h[y] \in Int
        /\ \A y \in Named(U) \cup {g[x]} : f[y] \in Int
        /\ h[x] = f[g[x]]
    BY <1>2, <2>1
  <2>7. SumFunctionOnSet(h, T) = h[x] + SumFunctionOnSet(h, U)
    BY <1>1, <2>1, <2>6, SumWithout
  <2>8. IsFiniteSet(Named(U))
    BY <2>4
  <2>9. SumFunctionOnSet(h, U) = SumFunctionOnSet(f, Named(U))
    BY <2>4
  <2> HIDE DEF Named, U
  <2>10. IsFiniteSet(Named(T))
    BY <2>5, <2>8, FS_AddElement
  <2>11. SumFunctionOnSet(f, Named(T)) = f[g[x]] + SumFunctionOnSet(f, Named(U))
    <3>1. g[x] \in Named(T) /\ Named(T) \ {g[x]} = Named(U)
      BY <2>5
    <3>2. \A y \in Named(T) : f[y] \in Int
      BY <2>5, <2>6
    <3>3. QED
      BY <2>10, <3>1, <3>2, SumWithout
  <2>12. SumFunctionOnSet(f, Named(U)) \in Int /\ f[g[x]] \in Int
    BY <2>6, <2>8, SumType
  <2>13. Same(T)
    <3>1. SumFunctionOnSet(h, T) = SumFunctionOnSet(f, Named(T))
      BY <2>6, <2>7, <2>9, <2>11, <2>12
    <3>2. QED
      BY <2>10, <3>1
  <2>14. QED
    BY <1>2, <2>13
<1>5. QED
  BY <1>3, <1>4

----------------------------------------------------------------------------
(* Minima, maxima and intervals.                                           *)

LEMMA MinIsIn ==
  ASSUME NEW S, S \subseteq Nat, S # {}
  PROVE  Min(S) \in S /\ \A x \in S : Min(S) <= x
BY LeastNatural DEF Min

LEMMA OfTwo ==
  ASSUME NEW a \in Nat, NEW b \in Nat
  PROVE  /\ Min({a, b}) = IF a <= b THEN a ELSE b
         /\ Max({a, b}) = IF a <= b THEN b ELSE a
<1> DEFINE small == IF a <= b THEN a ELSE b
           large == IF a <= b THEN b ELSE a
<1>1. small \in {a, b} /\ \A y \in {a, b} : small <= y
  OBVIOUS
<1>2. large \in {a, b} /\ \A y \in {a, b} : large >= y
  OBVIOUS
<1>3. ASSUME NEW x \in {a, b}, \A y \in {a, b} : x <= y PROVE x = small
  BY <1>3
<1>4. ASSUME NEW x \in {a, b}, \A y \in {a, b} : x >= y PROVE x = large
  BY <1>4
<1> HIDE DEF small, large
<1>5. Min({a, b}) = small
  BY <1>1, <1>3 DEF Min
<1>6. Max({a, b}) = large
  BY <1>2, <1>4 DEF Max
<1>7. QED
  BY <1>5, <1>6 DEF small, large

(* A part of an interval is finite, and its size is 0 when it is empty.    *)
LEMMA PartOfInterval ==
  ASSUME NEW n \in Nat, NEW S \in SUBSET (1 .. n)
  PROVE  /\ IsFiniteSet(S)
         /\ Cardinality(S) \in Nat
         /\ Cardinality(S) = 0 <=> S = {}
<1>1. IsFiniteSet(1 .. n)
  BY FS_Interval
<1>2. IsFiniteSet(S)
  BY <1>1, FS_Subset
<1>3. Cardinality(S) \in Nat /\ (Cardinality(S) = 0 <=> S = {})
  BY <1>2, FS_CardinalityType, FS_EmptySet
<1>4. QED
  BY <1>2, <1>3
=============================================================================
