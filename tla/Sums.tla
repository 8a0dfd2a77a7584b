--------------------------------- MODULE Sums ---------------------------------
(***************************************************************************)
(* Lemmas about the sum of the values of a function over a finite set      *)
(* (SumFunctionOnSet), by which gold is counted, and the induction they    *)
(* rest on.                                                                *)
(*                                                                         *)
(* The induction is stated about a set of numbers, or of subsets, instead  *)
(* of a predicate: such a lemma has no operator as a parameter and can be  *)
(* used by every prover.                                                   *)
(***************************************************************************)
EXTENDS Integers, FiniteSets, Functions, FiniteSetTheorems, WellFoundedInduction, TLAPS

-----------------------------------------------------------------------------
(***************************************************************************)
(* Induction.                                                              *)
(***************************************************************************)
\* A set with 0, and with n + 1 for each of its members n, has every number.
LEMMA NumbersByInduction ==
  ASSUME NEW T \in SUBSET Nat, 0 \in T, \A n \in T : n + 1 \in T
  PROVE  T = Nat
  <1> DEFINE R == OpToRel(<, Nat)
             U == Nat \ T
  <1>1. IsWellFoundedOn(R, Nat)
    BY NatLessThanWellFounded, Zenon
  <1>2. \A x, y \in Nat : x < y => <<x, y>> \in R
    BY DEF OpToRel
  <1> HIDE DEF R
  <1>3. ASSUME U # {} PROVE FALSE
    <2>1. PICK x \in U : \A y \in U : <<y, x>> \notin R
      BY <1>1, <1>3, WFMin
    <2>2. x \in Nat /\ x # 0
      BY <2>1
    <2>3. x - 1 \in Nat /\ x - 1 < x /\ (x - 1) + 1 = x
      BY <2>2
    <2>4. x - 1 \notin U
      BY <1>2, <2>1, <2>2, <2>3
    <2> QED
      BY <2>1, <2>3, <2>4
  <1> QED
    BY <1>3

\* What a set has whenever it does without any one of its elements, every finite
\* set has.
LEMMA SubsetsByInduction ==
  ASSUME NEW S, IsFiniteSet(S), NEW T,
         \A s \in SUBSET S : (\A x \in s : s \ {x} \in T) => s \in T
  PROVE  S \in T
  <1> DEFINE N == {n \in Nat : \A s \in SUBSET S : Cardinality(s) = n => s \in T}
  <1>1. \A s \in SUBSET S : IsFiniteSet(s) /\ Cardinality(s) \in Nat
    BY FS_Subset, FS_CardinalityType
  <1>2. 0 \in N
    BY <1>1, FS_EmptySet
  <1>3. ASSUME NEW n \in N PROVE n + 1 \in N
    <2> SUFFICES ASSUME NEW s \in SUBSET S, Cardinality(s) = n + 1 PROVE s \in T
      OBVIOUS
    <2>1. \A x \in s : Cardinality(s \ {x}) = n /\ s \ {x} \in SUBSET S
      BY <1>1, FS_RemoveElement
    <2>2. \A x \in s : s \ {x} \in T
      BY <2>1
    <2> QED
      BY <2>2
  <1> HIDE DEF N
  <1>4. N = Nat
    BY <1>2, <1>3, NumbersByInduction DEF N
  <1> QED
    BY <1>1, <1>4 DEF N

\* The same for the numbers up to n.
LEMMA NumbersUpTo ==
  ASSUME NEW n \in Nat, NEW T \in SUBSET (0 .. n), 0 \in T,
         \A k \in 1 .. n : k - 1 \in T => k \in T
  PROVE  T = 0 .. n
  <1> DEFINE U == T \cup {k \in Nat : k > n}
  <1>0. \A k \in T : k \in Nat /\ k <= n
    OBVIOUS
  <1>1. U \in SUBSET Nat /\ 0 \in U
    BY <1>0
  <1>2. ASSUME NEW k \in U PROVE k + 1 \in U
    <2>1. CASE k + 1 > n
      BY <1>1, <2>1
    <2>2. CASE k + 1 <= n
      <3>1. k \in T /\ k + 1 \in 1 .. n /\ (k + 1) - 1 = k
        BY <1>1, <2>2
      <3> QED
        BY <3>1
    <2> QED
      BY <1>1, <2>1, <2>2
  <1> HIDE DEF U
  <1>3. U = Nat
    BY <1>1, <1>2, NumbersByInduction
  <1>4. \A k \in 0 .. n : k \in T
    <2> SUFFICES ASSUME NEW k \in 0 .. n PROVE k \in T
      OBVIOUS
    <2>1. k \in U /\ ~(k > n)
      BY <1>3
    <2> QED
      BY <2>1 DEF U
  <1> QED
    BY <1>4

\* A function defined step by step exists.
Solves(f, h, b, n) == f[0] = b /\ \A k \in 1 .. n : f[k] = h[k][f[k - 1]]

LEMMA RecursionExists ==
  ASSUME NEW S, NEW b \in S, NEW n \in Nat, NEW h \in [1 .. n -> [S -> S]]
  PROVE  \E f \in [0 .. n -> S] : Solves(f, h, b, n)
  <1> DEFINE T == {m \in 0 .. n : \E f \in [0 .. m -> S] : Solves(f, h, b, m)}
  <1>1. 0 \in T
    <2> DEFINE f == [k \in 0 .. 0 |-> b]
    <2>1. f \in [0 .. 0 -> S] /\ Solves(f, h, b, 0)
      BY DEF Solves
    <2> QED
      BY <2>1
  <1>2. ASSUME NEW m \in 1 .. n, m - 1 \in T PROVE m \in T
    <2>1. PICK f \in [0 .. m - 1 -> S] : Solves(f, h, b, m - 1)
      BY <1>2
    <2> DEFINE g == [k \in 0 .. m |-> IF k = m THEN h[m][f[m - 1]] ELSE f[k]]
    <2>2. h[m][f[m - 1]] \in S
      <3>1. h[m] \in [S -> S] /\ f[m - 1] \in S
        OBVIOUS
      <3> QED
        BY <3>1
    <2>3. g \in [0 .. m -> S]
      BY <2>2
    <2>4. ASSUME NEW k \in 1 .. m PROVE g[k] = h[k][g[k - 1]]
      <3>1. g[k - 1] = f[k - 1]
        OBVIOUS
      <3>2. CASE k = m
        BY <3>1, <3>2
      <3>3. CASE k # m
        <4>1. k \in 1 .. m - 1 /\ g[k] = f[k]
          BY <3>3
        <4> QED
          BY <2>1, <3>1, <4>1 DEF Solves
      <3> QED
        BY <3>2, <3>3
    <2>5. g[0] = b
      BY <2>1 DEF Solves
    <2> HIDE DEF g
    <2>6. Solves(g, h, b, m)
      BY <2>4, <2>5 DEF Solves
    <2> QED
      BY <2>3, <2>6
  <1> HIDE DEF T
  <1>3. T \subseteq 0 .. n
    BY DEF T
  <1>4. T = 0 .. n
    BY <1>1, <1>2, <1>3, NumbersUpTo
  <1> QED
    BY <1>4 DEF T

-----------------------------------------------------------------------------
(***************************************************************************)
(* The sum as the library defines it: one element after the other is       *)
(* chosen, down to the empty set.                                          *)
(***************************************************************************)
Chosen(s) == CHOOSE x \in s : TRUE
SumSoFar(f, T, g) ==
    g = [s \in SUBSET T |-> IF s = {} THEN 0 ELSE f[Chosen(s)] + g[s \ {Chosen(s)}]]

LEMMA ChosenIn == ASSUME NEW s, s # {} PROVE Chosen(s) \in s
  BY DEF Chosen

LEMMA SumUnfolded ==
  ASSUME NEW f, NEW T
  PROVE  SumFunctionOnSet(f, T) = (CHOOSE g : SumSoFar(f, T, g))[T]
  BY DEF SumFunctionOnSet, FoldFunctionOnSet, MapThenFoldSet, SumSoFar, Chosen

\* The recursion has a solution: sets of one size after the other.
LEMMA SumExists ==
  ASSUME NEW f, NEW T, IsFiniteSet(T)
  PROVE  \E g : SumSoFar(f, T, g)
  <1> DEFINE Small(n) == {s \in SUBSET T : Cardinality(s) <= n}
             Value(g, s) == IF s = {} THEN 0 ELSE f[Chosen(s)] + g[s \ {Chosen(s)}]
             N == {n \in Nat : \E g : g = [s \in Small(n) |-> Value(g, s)]}
  <1>1. \A s \in SUBSET T : IsFiniteSet(s) /\ Cardinality(s) \in Nat /\ Cardinality(s) <= Cardinality(T)
    BY FS_Subset, FS_CardinalityType
  <1>2. Small(0) = {{}}
    BY <1>1, FS_EmptySet
  <1>3. 0 \in N
    <2> DEFINE g == [s \in {{}} |-> 0]
    <2>1. g = [s \in Small(0) |-> Value(g, s)]
      BY <1>2
    <2> QED
      BY <2>1
  <1>4. ASSUME NEW n \in N PROVE n + 1 \in N
    <2>1. PICK g : g = [s \in Small(n) |-> Value(g, s)]
      OBVIOUS
    <2> DEFINE h == [s \in Small(n + 1) |-> Value(g, s)]
    <2>2. ASSUME NEW s \in Small(n + 1) PROVE Value(g, s) = Value(h, s)
      <3>1. CASE s = {}
        BY <3>1
      <3>2. CASE s # {}
        <4>1. s \ {Chosen(s)} \in Small(n) /\ s \ {Chosen(s)} \in Small(n + 1)
          BY <1>1, <3>2, ChosenIn, FS_RemoveElement
        <4>2. g[s \ {Chosen(s)}] = Value(g, s \ {Chosen(s)})
          BY <2>1, <4>1
        <4>3. h[s \ {Chosen(s)}] = Value(g, s \ {Chosen(s)})
          BY <4>1
        <4> QED
          BY <3>2, <4>2, <4>3
      <3> QED
        BY <3>1, <3>2
    <2>3. h = [s \in Small(n + 1) |-> Value(h, s)]
      BY <2>2
    <2>4. n + 1 \in Nat
      OBVIOUS
    <2> HIDE DEF h
    <2> QED
      BY <2>3, <2>4
  <1>5. N = Nat
    <2> HIDE DEF N
    <2>1. N \subseteq Nat
      BY DEF N
    <2> QED
      BY <1>3, <1>4, <2>1, NumbersByInduction
  <1>6. Small(Cardinality(T)) = SUBSET T
    BY <1>1
  <1>7. Cardinality(T) \in Nat
    BY FS_CardinalityType
  <1>8. PICK g : g = [s \in Small(Cardinality(T)) |-> Value(g, s)]
    BY <1>5, <1>7
  <1>9. g = [s \in SUBSET T |-> Value(g, s)]
    BY <1>6, <1>8
  <1> QED
    BY <1>9 DEF SumSoFar

\* Two solutions agree where both are defined.
LEMMA SumUnique ==
  ASSUME NEW f, NEW h, NEW T, NEW U, NEW g, NEW k, IsFiniteSet(T), T \subseteq U,
         \A x \in T : f[x] = h[x],
         SumSoFar(f, T, g), SumSoFar(h, U, k)
  PROVE  g[T] = k[T]
  <1>1. \A s \in SUBSET T : IsFiniteSet(s) /\ Cardinality(s) \in Nat
    BY FS_Subset, FS_CardinalityType
  <1>2. g[{}] = k[{}]
    BY DEF SumSoFar
  <1>3. ASSUME NEW s \in SUBSET T, s # {}
        PROVE  /\ g[s] = f[Chosen(s)] + g[s \ {Chosen(s)}]
               /\ k[s] = f[Chosen(s)] + k[s \ {Chosen(s)}]
               /\ s \ {Chosen(s)} \in SUBSET T
               /\ Cardinality(s \ {Chosen(s)}) = Cardinality(s) - 1
    <2>1. Chosen(s) \in s /\ s \in SUBSET U
      BY <1>3, ChosenIn
    <2>2. k[s] = h[Chosen(s)] + k[s \ {Chosen(s)}] /\ g[s] = f[Chosen(s)] + g[s \ {Chosen(s)}]
      BY <1>3, <2>1 DEF SumSoFar
    <2> QED
      BY <1>1, <1>3, <2>1, <2>2, FS_RemoveElement
  <1> DEFINE N == {n \in Nat : \A s \in SUBSET T : Cardinality(s) = n => g[s] = k[s]}
  <1>4. 0 \in N
    BY <1>1, <1>2, FS_EmptySet
  <1>5. ASSUME NEW n \in N PROVE n + 1 \in N
    <2> SUFFICES ASSUME NEW s \in SUBSET T, Cardinality(s) = n + 1 PROVE g[s] = k[s]
      OBVIOUS
    <2>1. s # {}
      BY FS_EmptySet
    <2>2. Cardinality(s \ {Chosen(s)}) = n
      BY <1>3, <2>1
    <2>3. g[s \ {Chosen(s)}] = k[s \ {Chosen(s)}]
      BY <1>3, <2>1, <2>2
    <2> QED
      BY <1>3, <2>1, <2>3
  <1> HIDE DEF N
  <1>6. N = Nat
    BY <1>4, <1>5, NumbersByInduction DEF N
  <1> QED
    BY <1>1, <1>6 DEF N

-----------------------------------------------------------------------------
(***************************************************************************)
(* What the sum of a function over a finite set is.                        *)
(***************************************************************************)
LEMMA SumEmpty == ASSUME NEW f PROVE SumFunctionOnSet(f, {}) = 0
  <1>1. PICK g : SumSoFar(f, {}, g)
    BY SumExists, FS_EmptySet, Zenon
  <1>2. SumSoFar(f, {}, CHOOSE k : SumSoFar(f, {}, k))
    BY <1>1, Zenon
  <1> QED
    BY <1>2, SumUnfolded DEF SumSoFar

\* The sum of a function depends only on its values on the set.
LEMMA SumSame ==
  ASSUME NEW f, NEW h, NEW T, IsFiniteSet(T), \A x \in T : f[x] = h[x]
  PROVE  SumFunctionOnSet(f, T) = SumFunctionOnSet(h, T)
  <1> DEFINE g == CHOOSE g : SumSoFar(f, T, g)
             k == CHOOSE k : SumSoFar(h, T, k)
  <1>1. SumSoFar(f, T, g) /\ SumSoFar(h, T, k)
    BY SumExists, Zenon
  <1>2. SumFunctionOnSet(f, T) = g[T] /\ SumFunctionOnSet(h, T) = k[T]
    BY SumUnfolded, Zenon
  <1> HIDE DEF g, k
  <1>3. T \subseteq T
    OBVIOUS
  <1>4. g[T] = k[T]
    BY <1>1, <1>3, SumUnique
  <1> QED
    BY <1>2, <1>4

LEMMA SumChosen ==
  ASSUME NEW f, NEW T, IsFiniteSet(T), T # {}
  PROVE  SumFunctionOnSet(f, T) = f[Chosen(T)] + SumFunctionOnSet(f, T \ {Chosen(T)})
  <1> DEFINE U == T \ {Chosen(T)}
             g == CHOOSE g : SumSoFar(f, T, g)
             k == CHOOSE k : SumSoFar(f, U, k)
  <1>1. IsFiniteSet(U) /\ U \subseteq T
    BY FS_Subset
  <1>2. SumSoFar(f, T, g)
    BY SumExists, Zenon
  <1>3. SumSoFar(f, U, k)
    BY <1>1, SumExists, Zenon
  <1>4. SumFunctionOnSet(f, T) = g[T] /\ SumFunctionOnSet(f, U) = k[U]
    BY SumUnfolded, Zenon
  <1> HIDE DEF g, k
  <1>5. k[U] = g[U]
    BY <1>1, <1>2, <1>3, SumUnique
  <1>6. g[T] = f[Chosen(T)] + g[U]
    BY <1>2 DEF SumSoFar
  <1> QED
    BY <1>4, <1>5, <1>6

LEMMA SumType ==
  ASSUME NEW f, NEW T, IsFiniteSet(T), \A x \in T : f[x] \in Int
  PROVE  SumFunctionOnSet(f, T) \in Int
  <1> DEFINE G == {s \in SUBSET T : SumFunctionOnSet(f, s) \in Int}
  <1>1. ASSUME NEW s \in SUBSET T, \A x \in s : s \ {x} \in G PROVE s \in G
    <2>1. CASE s = {}
      BY <2>1, SumEmpty
    <2>2. CASE s # {}
      <3>1. IsFiniteSet(s) /\ Chosen(s) \in s
        BY <2>2, FS_Subset, ChosenIn
      <3>2. SumFunctionOnSet(f, s \ {Chosen(s)}) \in Int
        BY <1>1, <3>1
      <3>3. SumFunctionOnSet(f, s) = f[Chosen(s)] + SumFunctionOnSet(f, s \ {Chosen(s)})
        BY <2>2, <3>1, SumChosen
      <3>4. f[Chosen(s)] \in Int
        BY <3>1
      <3> QED
        BY <3>2, <3>3, <3>4
    <2> QED
      BY <2>1, <2>2
  <1> HIDE DEF G
  <1>2. T \in G
    BY <1>1, SubsetsByInduction
  <1> QED
    BY <1>2 DEF G

LEMMA SumRemove ==
  ASSUME NEW f, NEW T, IsFiniteSet(T), \A x \in T : f[x] \in Int, NEW a \in T
  PROVE  SumFunctionOnSet(f, T) = f[a] + SumFunctionOnSet(f, T \ {a})
  <1> DEFINE Sum(s) == SumFunctionOnSet(f, s)
             G == {s \in SUBSET T : \A x \in s : Sum(s) = f[x] + Sum(s \ {x})}
  <1>1. \A s \in SUBSET T : IsFiniteSet(s) /\ Sum(s) \in Int
    BY FS_Subset, SumType
  <1>2. ASSUME NEW s \in SUBSET T, \A x \in s : s \ {x} \in G PROVE s \in G
    <2> SUFFICES ASSUME NEW x \in s PROVE Sum(s) = f[x] + Sum(s \ {x})
      OBVIOUS
    <2> DEFINE c == Chosen(s)
    <2>1. c \in s
      BY ChosenIn
    <2>2. \A y \in s : s \ {y} # {} => s \ {y} \in G
      BY <1>2
    <2>3. Sum(s) = f[c] + Sum(s \ {c})
      BY <1>1, SumChosen
    <2> HIDE DEF c
    <2>4. CASE x = c
      BY <2>3, <2>4
    <2>5. CASE x # c
      <3> DEFINE both == s \ {x, c}
      <3>1. x \in s \ {c} /\ c \in s \ {x}
        BY <2>1, <2>5
      <3>2. (s \ {c}) \ {x} = both /\ (s \ {x}) \ {c} = both
        OBVIOUS
      <3>3. s \ {c} \in G /\ s \ {x} \in G
        BY <1>2, <2>1
      <3>4. Sum(s \ {c}) = f[x] + Sum(both)
        BY <3>1, <3>2, <3>3
      <3>5. Sum(s \ {x}) = f[c] + Sum(both)
        BY <3>1, <3>2, <3>3
      <3>6. f[x] \in Int /\ f[c] \in Int /\ Sum(both) \in Int
        BY <1>1, <2>1
      <3> HIDE DEF Sum, both
      <3> QED
        BY <2>3, <3>4, <3>5, <3>6
    <2> QED
      BY <2>4, <2>5
  <1> HIDE DEF G
  <1>3. T \in G
    BY <1>2, SubsetsByInduction
  <1> QED
    BY <1>3 DEF G

\* Changing the value of one element changes the sum by as much.
LEMMA SumChange ==
  ASSUME NEW f, NEW h, NEW T, IsFiniteSet(T), NEW a \in T,
         \A x \in T : f[x] \in Int /\ h[x] \in Int,
         \A x \in T \ {a} : h[x] = f[x]
  PROVE  SumFunctionOnSet(h, T) = SumFunctionOnSet(f, T) - f[a] + h[a]
  <1> DEFINE U == T \ {a}
  <1>1. IsFiniteSet(U)
    BY FS_Subset
  <1>2. SumFunctionOnSet(h, U) = SumFunctionOnSet(f, U) /\ SumFunctionOnSet(f, U) \in Int
    BY <1>1, SumSame, SumType
  <1>3. SumFunctionOnSet(f, T) = f[a] + SumFunctionOnSet(f, U)
    BY SumRemove
  <1>4. SumFunctionOnSet(h, T) = h[a] + SumFunctionOnSet(h, U)
    BY SumRemove
  <1>5. f[a] \in Int /\ h[a] \in Int
    OBVIOUS
  <1> QED
    BY <1>2, <1>3, <1>4, <1>5

\* Changing the values of two.
LEMMA SumChangeTwo ==
  ASSUME NEW f, NEW h, NEW T, IsFiniteSet(T), NEW a \in T, NEW b \in T, a # b,
         \A x \in T : f[x] \in Int /\ h[x] \in Int,
         \A x \in T \ {a, b} : h[x] = f[x]
  PROVE  SumFunctionOnSet(h, T) = SumFunctionOnSet(f, T) - f[a] + h[a] - f[b] + h[b]
  <1> DEFINE U == T \ {a}
  <1>1. IsFiniteSet(U) /\ b \in U
    BY FS_Subset
  <1>2. SumFunctionOnSet(h, U) = SumFunctionOnSet(f, U) - f[b] + h[b]
    BY <1>1, SumChange
  <1>3. SumFunctionOnSet(f, U) \in Int
    BY <1>1, SumType
  <1>4. SumFunctionOnSet(f, T) = f[a] + SumFunctionOnSet(f, U)
    BY SumRemove
  <1>5. SumFunctionOnSet(h, T) = h[a] + SumFunctionOnSet(h, U)
    BY SumRemove
  <1>6. f[a] \in Int /\ h[a] \in Int /\ f[b] \in Int /\ h[b] \in Int
    OBVIOUS
  <1> QED
    BY <1>2, <1>3, <1>4, <1>5, <1>6

\* One element more.
LEMMA SumAdd ==
  ASSUME NEW f, NEW S, NEW a, IsFiniteSet(S), a \notin S, \A x \in S \cup {a} : f[x] \in Int
  PROVE  SumFunctionOnSet(f, S \cup {a}) = SumFunctionOnSet(f, S) + f[a]
  <1>1. IsFiniteSet(S \cup {a}) /\ (S \cup {a}) \ {a} = S
    BY FS_AddElement
  <1>2. SumFunctionOnSet(f, S \cup {a}) = f[a] + SumFunctionOnSet(f, S)
    BY <1>1, SumRemove
  <1>3. SumFunctionOnSet(f, S) \in Int /\ f[a] \in Int
    BY SumType
  <1> QED
    BY <1>2, <1>3

\* The sum of one value for every element.
LEMMA SumConstant ==
  ASSUME NEW T, IsFiniteSet(T), NEW c \in Int, NEW f, \A x \in T : f[x] = c
  PROVE  SumFunctionOnSet(f, T) = c * Cardinality(T)
  <1> DEFINE G == {s \in SUBSET T : SumFunctionOnSet(f, s) = c * Cardinality(s)}
  <1>1. ASSUME NEW s \in SUBSET T, \A x \in s : s \ {x} \in G PROVE s \in G
    <2>1. CASE s = {}
      BY <2>1, SumEmpty, FS_EmptySet
    <2>2. CASE s # {}
      <3>1. PICK x \in s : TRUE
        BY <2>2
      <3>2. IsFiniteSet(s) /\ Cardinality(s \ {x}) = Cardinality(s) - 1 /\ Cardinality(s) \in Nat
        BY <3>1, FS_Subset, FS_RemoveElement, FS_CardinalityType
      <3>3. SumFunctionOnSet(f, s) = c + SumFunctionOnSet(f, s \ {x})
        BY <3>1, <3>2, SumRemove
      <3>4. SumFunctionOnSet(f, s \ {x}) = c * Cardinality(s \ {x})
        BY <1>1, <3>1
      <3>5. \A n \in Nat : c + c * (n - 1) = c * n
        OBVIOUS
      <3> QED
        BY <3>2, <3>3, <3>4, <3>5
    <2> QED
      BY <2>1, <2>2
  <1> HIDE DEF G
  <1>2. T \in G
    BY <1>1, SubsetsByInduction
  <1> QED
    BY <1>2 DEF G

\* The sum over two sets that have nothing in common.
LEMMA SumSplit ==
  ASSUME NEW f, NEW S, NEW T, IsFiniteSet(S), IsFiniteSet(T), S \cap T = {},
         \A x \in S \cup T : f[x] \in Int
  PROVE  SumFunctionOnSet(f, S \cup T) = SumFunctionOnSet(f, S) + SumFunctionOnSet(f, T)
  <1> DEFINE Sum(s) == SumFunctionOnSet(f, s)
             G == {s \in SUBSET T : Sum(S \cup s) = Sum(S) + Sum(s)}
  <1>1. ASSUME NEW s \in SUBSET T, \A x \in s : s \ {x} \in G PROVE s \in G
    <2>1. IsFiniteSet(s) /\ IsFiniteSet(S \cup s) /\ Sum(S) \in Int
      BY FS_Subset, FS_Union, SumType
    <2>2. CASE s = {}
      BY <2>1, <2>2, SumEmpty
    <2>3. ASSUME NEW x \in s PROVE s \in G
      <3>1. Sum(s) = f[x] + Sum(s \ {x})
        BY <2>1, SumRemove
      <3>2. (S \cup s) \ {x} = S \cup (s \ {x})
        OBVIOUS
      <3>3. Sum(S \cup s) = f[x] + Sum(S \cup (s \ {x}))
        BY <2>1, <3>2, SumRemove
      <3>4. Sum(S \cup (s \ {x})) = Sum(S) + Sum(s \ {x})
        BY <1>1
      <3>5. f[x] \in Int /\ Sum(s \ {x}) \in Int
        BY <2>1, FS_Subset, SumType
      <3> HIDE DEF Sum
      <3>6. Sum(S \cup s) = Sum(S) + Sum(s)
        BY <2>1, <3>1, <3>3, <3>4, <3>5
      <3> QED
        BY <3>6
    <2> QED
      BY <2>2, <2>3
  <1> HIDE DEF G
  <1>2. T \in G
    BY <1>1, SubsetsByInduction
  <1> QED
    BY <1>2 DEF G

\* Where nothing is negative, no value is more than the sum, nor is the sum of a part.
LEMMA SumAtLeast ==
  ASSUME NEW f, NEW T, IsFiniteSet(T), \A x \in T : f[x] \in Nat
  PROVE  /\ SumFunctionOnSet(f, T) \in Nat
         /\ \A x \in T : f[x] <= SumFunctionOnSet(f, T)
  <1> DEFINE Sum(s) == SumFunctionOnSet(f, s)
             G == {s \in SUBSET T : Sum(s) \in Nat}
  <1>1. ASSUME NEW s \in SUBSET T, \A x \in s : s \ {x} \in G PROVE s \in G
    <2>1. CASE s = {}
      BY <2>1, SumEmpty
    <2>2. ASSUME NEW x \in s PROVE s \in G
      <3>1. Sum(s) = f[x] + Sum(s \ {x})
        BY FS_Subset, SumRemove
      <3>2. Sum(s \ {x}) \in Nat
        BY <1>1
      <3> HIDE DEF Sum
      <3> QED
        BY <3>1, <3>2
    <2> QED
      BY <2>1, <2>2
  <1> HIDE DEF G
  <1>2. ASSUME NEW s \in SUBSET T PROVE s \in G
    <2>1. IsFiniteSet(s)
      BY FS_Subset
    <2> DEFINE H == {t \in SUBSET s : t \in G}
    <2>2. ASSUME NEW t \in SUBSET s, \A x \in t : t \ {x} \in H PROVE t \in H
      BY <1>1, <2>2
    <2> HIDE DEF H
    <2>3. s \in H
      BY <2>1, <2>2, SubsetsByInduction
    <2> QED
      BY <2>3 DEF H
  <1>3. ASSUME NEW x \in T PROVE f[x] <= Sum(T)
    <2>1. Sum(T) = f[x] + Sum(T \ {x})
      BY SumRemove
    <2>2. Sum(T \ {x}) \in Nat
      BY <1>2 DEF G
    <2> HIDE DEF Sum
    <2> QED
      BY <2>1, <2>2
  <1> QED
    BY <1>2, <1>3 DEF G
=============================================================================
