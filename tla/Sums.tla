-------------------------------- MODULE Sums --------------------------------
(***************************************************************************)
(* What the proofs need of the folds of the community modules: an induction *)
(* over the subsets of a finite set, that the recursion of a fold has a    *)
(* solution, the laws of the sum of a function's values, and what a loop   *)
(* of Loops keeps and where it arrives.                                    *)
(***************************************************************************)
EXTENDS Integers, FiniteSetsExt, Loops, FiniteSetTheorems, WellFoundedInduction, TLAPS

\* A set of subsets that holds each subset whose strict subsets it holds, holds
\* them all.
LEMMA SubsetInduction ==
  ASSUME NEW S, IsFiniteSet(S), NEW G,
         \A s \in SUBSET S : (\A t \in SUBSET s : t # s => t \in G) => s \in G
  PROVE  \A s \in SUBSET S : s \in G
<1> SUFFICES ASSUME (SUBSET S) \ G # {} PROVE FALSE
  OBVIOUS
<1> DEFINE R == StrictSubsetOrdering(S)
           Bad == (SUBSET S) \ G
<1>1. IsWellFoundedOn(R, FiniteSubsetsOf(S))
  BY FS_StrictSubsetOrderingWellFounded
<1>2. Bad \subseteq FiniteSubsetsOf(S)
  BY FS_Subset DEF FiniteSubsetsOf
<1>3. PICK s \in Bad : \A t \in Bad : ~ (<<t, s>> \in R)
  <2>1. Bad # {}
    OBVIOUS
  <2> HIDE DEF R, Bad
  <2> QED
    BY <1>1, <1>2, <2>1, WFMin, SMT
<1>4. \A t \in SUBSET s : t # s => t \in G
  <2> SUFFICES ASSUME NEW t \in SUBSET s, t # s, t \notin G PROVE FALSE
    OBVIOUS
  <2>1. t \in Bad
    OBVIOUS
  <2>2. <<t, s>> \in R
    BY DEF StrictSubsetOrdering
  <2> QED
    BY <1>3, <2>1, <2>2
<1> QED
  BY <1>4

\* Enough is that each subset that is not empty follows from one with an element less.
LEMMA ElementInduction ==
  ASSUME NEW S, IsFiniteSet(S), NEW G, {} \in G,
         \A s \in SUBSET S : s # {} => \E x \in s : s \ {x} \in G => s \in G
  PROVE  \A s \in SUBSET S : s \in G
<1>1. ASSUME NEW s \in SUBSET S, \A t \in SUBSET s : t # s => t \in G
      PROVE  s \in G
  <2>1. CASE s = {}
    BY <2>1
  <2>2. CASE s # {}
    <3>1. PICK x \in s : s \ {x} \in G => s \in G
      BY <2>2
    <3>2. s \ {x} \in SUBSET s /\ s \ {x} # s
      OBVIOUS
    <3> QED
      BY <1>1, <3>1, <3>2
  <2> QED
    BY <2>1, <2>2
<1> QED
  BY <1>1, SubsetInduction, Zenon

\* g is the fold over the subsets of T of what H does with an element and a
\* value, from b: c says which element comes next.
FoldsOver(T, c, b, H, g) ==
  g = [s \in SUBSET T |-> IF s = {} THEN b ELSE H[<<c[s], g[s \ {c[s]}]>>]]

\* c picks an element of each set that has one.
Picks(c, T) == \A s \in SUBSET T : s # {} => c[s] \in s

\* Two folds agree wherever both are defined.
LEMMA FoldsAgree ==
  ASSUME NEW T, IsFiniteSet(T), NEW c, Picks(c, T), NEW b, NEW H,
         NEW A \in SUBSET T, NEW B \in SUBSET T,
         NEW g, FoldsOver(A, c, b, H, g), NEW h, FoldsOver(B, c, b, H, h)
  PROVE  \A s \in SUBSET (A \cap B) : g[s] = h[s]
<1> DEFINE G == {s \in SUBSET (A \cap B) : g[s] = h[s]}
<1>1. IsFiniteSet(A \cap B)
  BY FS_Subset
<1>2. {} \in G
  BY DEF FoldsOver
<1>3. ASSUME NEW s \in SUBSET (A \cap B), s # {}
      PROVE  \E x \in s : s \ {x} \in G => s \in G
  <2>1. c[s] \in s
    BY <1>3 DEF Picks
  <2>2. g[s] = H[<<c[s], g[s \ {c[s]}]>>] /\ h[s] = H[<<c[s], h[s \ {c[s]}]>>]
    BY <1>3 DEF FoldsOver
  <2> QED
    BY <2>1, <2>2
<1> HIDE DEF G
<1>4. \A s \in SUBSET (A \cap B) : s \in G
  BY <1>1, <1>2, <1>3, ElementInduction, Zenon
<1> QED
  BY <1>4 DEF G

\* Every fold over a finite set exists.
LEMMA FoldExists ==
  ASSUME NEW T, IsFiniteSet(T), NEW c, Picks(c, T), NEW b, NEW H
  PROVE  \E g : FoldsOver(T, c, b, H, g)
<1> DEFINE Fold(s) == CHOOSE g : FoldsOver(s, c, b, H, g)
           G == {s \in SUBSET T : \E g : FoldsOver(s, c, b, H, g)}
<1>1. ASSUME NEW s \in SUBSET T, \A t \in SUBSET s : t # s => t \in G
      PROVE  s \in G
  <2> DEFINE value(t) == IF t = {} THEN b ELSE H[<<c[t], Fold(t \ {c[t]})[t \ {c[t]}]>>]
             g == [t \in SUBSET s |-> value(t)]
  <2>1. ASSUME NEW t \in SUBSET s, t # {}
        PROVE  FoldsOver(t \ {c[t]}, c, b, H, Fold(t \ {c[t]})) /\ t \ {c[t]} # s
    <3>1. c[t] \in t
      BY <2>1 DEF Picks
    <3>2. t \ {c[t]} \in SUBSET s /\ t \ {c[t]} # s
      BY <3>1
    <3> QED
      BY <1>1, <3>2
  <2>2. ASSUME NEW t \in SUBSET s, t # {}
        PROVE  g[t \ {c[t]}] = Fold(t \ {c[t]})[t \ {c[t]}]
    <3> DEFINE u == t \ {c[t]}
    <3>1. FoldsOver(u, c, b, H, Fold(u)) /\ u \in SUBSET s
      BY <2>1, <2>2
    <3>2. CASE u = {}
      BY <3>1, <3>2 DEF FoldsOver
    <3>3. CASE u # {}
      <4>1. FoldsOver(u \ {c[u]}, c, b, H, Fold(u \ {c[u]}))
        BY <2>1, <3>1, <3>3
      <4>2. Fold(u)[u] = H[<<c[u], Fold(u)[u \ {c[u]}]>>]
        BY <3>1, <3>3 DEF FoldsOver
      <4>3. Fold(u)[u \ {c[u]}] = Fold(u \ {c[u]})[u \ {c[u]}]
        BY <3>1, <4>1, FoldsAgree
      <4>4. g[u] = H[<<c[u], Fold(u \ {c[u]})[u \ {c[u]}]>>]
        BY <3>1, <3>3
      <4> QED
        BY <4>2, <4>3, <4>4
    <3> QED
      BY <3>2, <3>3
  <2>3. \A t \in SUBSET s : value(t) = IF t = {} THEN b ELSE H[<<c[t], g[t \ {c[t]}]>>]
    <3> HIDE DEF g, Fold
    <3> SUFFICES ASSUME NEW t \in SUBSET s, t # {}
                 PROVE  value(t) = H[<<c[t], g[t \ {c[t]}]>>]
      OBVIOUS
    <3>1. g[t \ {c[t]}] = Fold(t \ {c[t]})[t \ {c[t]}]
      BY <2>2
    <3> QED
      BY <3>1
  <2>4. g = [t \in SUBSET s |-> IF t = {} THEN b ELSE H[<<c[t], g[t \ {c[t]}]>>]]
    <3> HIDE DEF value
    <3> QED
      BY <2>3
  <2>5. FoldsOver(s, c, b, H, g)
    BY <2>4 DEF FoldsOver
  <2> QED
    BY <2>5
<1> HIDE DEF G
<1>2. \A s \in SUBSET T : s \in G
  BY <1>1, SubsetInduction, Zenon
<1> QED
  BY <1>2 DEF G

\* A fold takes its values where each step leads from value to value.
LEMMA FoldType ==
  ASSUME NEW T, IsFiniteSet(T), NEW c, Picks(c, T), NEW V, NEW b \in V, NEW H,
         \A x \in T, v \in V : H[<<x, v>>] \in V,
         NEW g, FoldsOver(T, c, b, H, g)
  PROVE  g \in [SUBSET T -> V]
<1> DEFINE G == {s \in SUBSET T : g[s] \in V}
<1>1. {} \in G
  BY DEF FoldsOver
<1>2. ASSUME NEW s \in SUBSET T, s # {}
      PROVE  \E x \in s : s \ {x} \in G => s \in G
  <2>1. c[s] \in s
    BY <1>2 DEF Picks
  <2>2. g[s] = H[<<c[s], g[s \ {c[s]}]>>]
    BY <1>2 DEF FoldsOver
  <2> QED
    BY <2>1, <2>2
<1> HIDE DEF G
<1>3. \A s \in SUBSET T : s \in G
  BY <1>1, <1>2, ElementInduction, Zenon
<1>4. \A s \in SUBSET T : g[s] \in V
  BY <1>3 DEF G
<1>5. g = [s \in SUBSET T |-> g[s]]
  BY DEF FoldsOver
<1> QED
  BY <1>4, <1>5
-----------------------------------------------------------------------------
\* The sum of a function's values.

\* g adds up the values of f over the subsets of T, the chosen element first.
SumsOver(f, T, g) ==
  g = [s \in SUBSET T |-> IF s = {} THEN 0
                          ELSE f[CHOOSE x \in s : TRUE] + g[s \ {CHOOSE x \in s : TRUE}]]

\* What SumFunctionOnSet is, by definition.
LEMMA SumDef ==
  ASSUME NEW f, NEW T
  PROVE  SumFunctionOnSet(f, T) = (CHOOSE g : SumsOver(f, T, g))[T]
BY DEF SumFunctionOnSet, FoldFunctionOnSet, MapThenFoldSet, SumsOver

\* Its recursion has a solution.
LEMMA SumsExist ==
  ASSUME NEW D, NEW f \in [D -> Int], NEW T \in SUBSET D, IsFiniteSet(T)
  PROVE  \E g \in [SUBSET T -> Int] : SumsOver(f, T, g)
<1> DEFINE c == [s \in SUBSET T |-> CHOOSE x \in s : TRUE]
           H == [p \in T \X Int |-> f[p[1]] + p[2]]
<1>1. Picks(c, T)
  BY DEF Picks
<1>2. \A x \in T, v \in Int : H[<<x, v>>] \in Int /\ H[<<x, v>>] = f[x] + v
  OBVIOUS
<1>3. PICK g : FoldsOver(T, c, 0, H, g)
  <2> HIDE DEF c, H
  <2> QED
    BY <1>1, FoldExists
<1>4. g \in [SUBSET T -> Int]
  <2> HIDE DEF c, H
  <2>1. 0 \in Int
    OBVIOUS
  <2> QED
    BY <1>1, <1>2, <1>3, <2>1, FoldType
<1>5. ASSUME NEW s \in SUBSET T, s # {}
      PROVE  g[s] = f[CHOOSE x \in s : TRUE] + g[s \ {CHOOSE x \in s : TRUE}]
  <2>1. c[s] = (CHOOSE x \in s : TRUE) /\ c[s] \in T
    BY <1>5
  <2>2. g[s] = H[<<c[s], g[s \ {c[s]}]>>]
    BY <1>3, <1>5 DEF FoldsOver
  <2>3. g[s \ {c[s]}] \in Int
    BY <1>4
  <2> HIDE DEF c, H
  <2> QED
    BY <1>2, <2>1, <2>2, <2>3
<1>6. g[{}] = 0 /\ g = [s \in SUBSET T |-> g[s]]
  BY <1>3 DEF FoldsOver
<1>7. SumsOver(f, T, g)
  BY <1>5, <1>6 DEF SumsOver
<1> QED
  BY <1>4, <1>7

\* Solutions over different sets agree wherever both are defined.
LEMMA SumsAgree ==
  ASSUME NEW f, NEW T, IsFiniteSet(T), NEW A \in SUBSET T,
         NEW g, SumsOver(f, A, g), NEW h, SumsOver(f, T, h)
  PROVE  g[A] = h[A]
<1> DEFINE G == {s \in SUBSET A : g[s] = h[s]}
<1>1. {} \in G
  BY DEF SumsOver
<1>2. ASSUME NEW s \in SUBSET A, s # {}
      PROVE  \E x \in s : s \ {x} \in G => s \in G
  <2>1. PICK x \in s : x = CHOOSE y \in s : TRUE
    BY <1>2
  <2>2. g[s] = f[x] + g[s \ {x}] /\ h[s] = f[x] + h[s \ {x}]
    BY <1>2, <2>1 DEF SumsOver
  <2> QED
    BY <2>2
<1>3. IsFiniteSet(A)
  BY FS_Subset
<1> HIDE DEF G
<1>4. \A s \in SUBSET A : s \in G
  BY <1>1, <1>2, <1>3, ElementInduction, Zenon
<1> QED
  BY <1>4 DEF G

\* g holds the sums over all subsets of T.
TableOfSums(f, T, g) ==
  /\ g \in [SUBSET T -> Int] /\ SumsOver(f, T, g)
  /\ \A A \in SUBSET T : SumFunctionOnSet(f, A) = g[A]

\* The sum over each subset of T is what one solution over T says.
LEMMA SumSolution ==
  ASSUME NEW D, NEW f \in [D -> Int], NEW T \in SUBSET D, IsFiniteSet(T)
  PROVE  \E g : TableOfSums(f, T, g)
<1>1. PICK g \in [SUBSET T -> Int] : SumsOver(f, T, g)
  BY SumsExist
<1>2. ASSUME NEW A \in SUBSET T
      PROVE  SumFunctionOnSet(f, A) = g[A]
  <2> DEFINE h == CHOOSE h : SumsOver(f, A, h)
  <2>1. IsFiniteSet(A) /\ A \in SUBSET D
    BY FS_Subset
  <2>2. \E k : SumsOver(f, A, k)
    BY <2>1, SumsExist
  <2>3. SumsOver(f, A, h)
    BY <2>2, Zenon
  <2>4. SumFunctionOnSet(f, A) = h[A]
    BY SumDef
  <2> HIDE DEF h
  <2> QED
    BY <1>1, <2>3, <2>4, SumsAgree
<1> QED
  BY <1>1, <1>2 DEF TableOfSums

\* A sum of integers is an integer; that of nothing is 0.
LEMMA SumType ==
  ASSUME NEW D, NEW f \in [D -> Int], NEW T \in SUBSET D, IsFiniteSet(T)
  PROVE  SumFunctionOnSet(f, T) \in Int /\ SumFunctionOnSet(f, {}) = 0
<1>1. PICK g : TableOfSums(f, T, g)
  BY SumSolution
<1>2. SumFunctionOnSet(f, T) = g[T] /\ SumFunctionOnSet(f, {}) = g[{}] /\ g[{}] = 0 /\ g[T] \in Int
  BY <1>1 DEF SumsOver, TableOfSums
<1> QED
  BY <1>2

\* The order of the elements does not matter: any one of them may come first.
LEMMA SumStep ==
  ASSUME NEW D, NEW f \in [D -> Int], NEW T \in SUBSET D, IsFiniteSet(T), NEW x \in T
  PROVE  SumFunctionOnSet(f, T) = f[x] + SumFunctionOnSet(f, T \ {x})
<1>1. PICK g : TableOfSums(f, T, g)
  BY SumSolution
<1> DEFINE G == {s \in SUBSET T : \A y \in s : g[s] = f[y] + g[s \ {y}]}
<1>2. ASSUME NEW s \in SUBSET T, \A t \in SUBSET s : t # s => t \in G
      PROVE  s \in G
  <2> SUFFICES ASSUME NEW y \in s
               PROVE  g[s] = f[y] + g[s \ {y}]
    OBVIOUS
  <2>1. PICK z \in s : z = CHOOSE w \in s : TRUE
    OBVIOUS
  <2>2. g[s] = f[z] + g[s \ {z}]
    BY <1>1, <2>1 DEF SumsOver, TableOfSums
  <2>3. CASE y # z
    <3> DEFINE rest == (s \ {z}) \ {y}
    <3>1. s \ {z} \in G /\ s \ {y} \in G /\ y \in s \ {z} /\ z \in s \ {y}
      BY <1>2, <2>3
    <3>2. rest = (s \ {y}) \ {z} /\ rest \in SUBSET T
      OBVIOUS
    <3> HIDE DEF rest
    <3>3. g[s \ {z}] = f[y] + g[rest] /\ g[s \ {y}] = f[z] + g[rest]
      BY <3>1, <3>2 DEF rest
    <3>4. g[rest] \in Int /\ f[y] \in Int /\ f[z] \in Int
      BY <1>1, <3>2 DEF TableOfSums
    <3> QED
      BY <2>2, <3>3, <3>4
  <2> QED
    BY <2>2, <2>3
<1> HIDE DEF G
<1>3. \A s \in SUBSET T : s \in G
  BY <1>2, SubsetInduction, Zenon
<1>4. g[T] = f[x] + g[T \ {x}]
  BY <1>3 DEF G
<1> QED
  BY <1>1, <1>4 DEF TableOfSums

\* Functions that agree on a set have the same sum over it.
LEMMA SumSame ==
  ASSUME NEW D, NEW f \in [D -> Int], NEW E, NEW h \in [E -> Int],
         NEW T \in SUBSET D, T \in SUBSET E, IsFiniteSet(T), \A x \in T : f[x] = h[x]
  PROVE  SumFunctionOnSet(f, T) = SumFunctionOnSet(h, T)
<1> DEFINE G == {s \in SUBSET T : SumFunctionOnSet(f, s) = SumFunctionOnSet(h, s)}
<1>1. {} \in G
  BY SumType
<1>2. ASSUME NEW s \in SUBSET T, s # {}
      PROVE  \E x \in s : s \ {x} \in G => s \in G
  <2>1. PICK x \in s : TRUE
    BY <1>2
  <2>2. IsFiniteSet(s) /\ s \in SUBSET D /\ s \in SUBSET E
    BY FS_Subset
  <2>3. /\ SumFunctionOnSet(f, s) = f[x] + SumFunctionOnSet(f, s \ {x})
        /\ SumFunctionOnSet(h, s) = h[x] + SumFunctionOnSet(h, s \ {x})
    BY <2>2, SumStep
  <2> QED
    BY <2>3
<1> HIDE DEF G
<1>3. T \in G
  BY <1>1, <1>2, ElementInduction, Zenon
<1> QED
  BY <1>3 DEF G

\* A sum of what is not negative is at least each two of its summands together.
LEMMA SumBound ==
  ASSUME NEW D, NEW f \in [D -> Nat], NEW T \in SUBSET D, IsFiniteSet(T)
  PROVE  /\ SumFunctionOnSet(f, T) \in Nat
         /\ \A x \in T : f[x] <= SumFunctionOnSet(f, T)
         /\ \A x, y \in T : x # y => f[x] + f[y] <= SumFunctionOnSet(f, T)
<1> DEFINE G == {s \in SUBSET T : SumFunctionOnSet(f, s) \in Nat}
<1>1. f \in [D -> Int]
  OBVIOUS
<1>2. {} \in G
  BY <1>1, SumType
<1>3. ASSUME NEW s \in SUBSET T, NEW x \in s
      PROVE  SumFunctionOnSet(f, s) = f[x] + SumFunctionOnSet(f, s \ {x})
  BY <1>1, FS_Subset, SumStep
<1>4. ASSUME NEW s \in SUBSET T, s # {}
      PROVE  \E x \in s : s \ {x} \in G => s \in G
  <2>1. PICK x \in s : TRUE
    BY <1>4
  <2> QED
    BY <1>3, <2>1
<1> HIDE DEF G
<1>5. \A s \in SUBSET T : s \in G
  BY <1>2, <1>4, ElementInduction, Zenon
<1>6. \A s \in SUBSET T : SumFunctionOnSet(f, s) \in Nat
  BY <1>5 DEF G
<1>7. ASSUME NEW x \in T
      PROVE  f[x] <= SumFunctionOnSet(f, T)
  <2>1. SumFunctionOnSet(f, T) = f[x] + SumFunctionOnSet(f, T \ {x})
    BY <1>3
  <2>2. SumFunctionOnSet(f, T \ {x}) \in Nat /\ f[x] \in Nat
    BY <1>6
  <2> QED
    BY <2>1, <2>2
<1>8. ASSUME NEW x \in T, NEW y \in T, x # y
      PROVE  f[x] + f[y] <= SumFunctionOnSet(f, T)
  <2>1. /\ SumFunctionOnSet(f, T) = f[x] + SumFunctionOnSet(f, T \ {x})
        /\ SumFunctionOnSet(f, T \ {x}) = f[y] + SumFunctionOnSet(f, (T \ {x}) \ {y})
    BY <1>3, <1>8
  <2>2. SumFunctionOnSet(f, (T \ {x}) \ {y}) \in Nat /\ f[x] \in Nat /\ f[y] \in Nat
    BY <1>6
  <2> QED
    BY <2>1, <2>2
<1> QED
  BY <1>6, <1>7, <1>8

\* Where one value changes, the sum changes by as much.
LEMMA SumChange ==
  ASSUME NEW D, IsFiniteSet(D), NEW f \in [D -> Int], NEW h \in [D -> Int],
         NEW x \in D, \A y \in D \ {x} : h[y] = f[y]
  PROVE  SumFunctionOnSet(h, D) = SumFunctionOnSet(f, D) - f[x] + h[x]
<1>1. IsFiniteSet(D \ {x})
  BY FS_Subset
<1>2. SumFunctionOnSet(h, D) = h[x] + SumFunctionOnSet(h, D \ {x})
  BY SumStep
<1>3. SumFunctionOnSet(f, D) = f[x] + SumFunctionOnSet(f, D \ {x})
  BY SumStep
<1>4. SumFunctionOnSet(h, D \ {x}) = SumFunctionOnSet(f, D \ {x})
  BY <1>1, SumSame
<1>5. SumFunctionOnSet(f, D \ {x}) \in Int /\ f[x] \in Int /\ h[x] \in Int
  BY <1>1, SumType
<1> QED
  BY <1>2, <1>3, <1>4, <1>5

\* Where two values change, by both.
LEMMA SumChangeTwo ==
  ASSUME NEW D, IsFiniteSet(D), NEW f \in [D -> Int], NEW h \in [D -> Int],
         NEW x \in D, NEW z \in D, x # z, \A y \in D \ {x, z} : h[y] = f[y]
  PROVE  SumFunctionOnSet(h, D) = SumFunctionOnSet(f, D) - f[x] - f[z] + h[x] + h[z]
<1> DEFINE m == [f EXCEPT ![x] = h[x]]
<1>1. m \in [D -> Int] /\ m[x] = h[x] /\ m[z] = f[z] /\ \A y \in D \ {x} : m[y] = f[y]
  OBVIOUS
<1>2. \A y \in D \ {z} : h[y] = m[y]
  OBVIOUS
<1> HIDE DEF m
<1>3. SumFunctionOnSet(m, D) = SumFunctionOnSet(f, D) - f[x] + m[x]
  BY <1>1, SumChange
<1>4. SumFunctionOnSet(h, D) = SumFunctionOnSet(m, D) - m[z] + h[z]
  BY <1>1, <1>2, SumChange
<1>5. SumFunctionOnSet(f, D) \in Int /\ f[x] \in Int /\ f[z] \in Int /\ h[x] \in Int /\ h[z] \in Int
  BY SumType
<1> QED
  BY <1>1, <1>3, <1>4, <1>5

\* Where no value is larger, neither is the sum.
LEMMA SumLeq ==
  ASSUME NEW D, IsFiniteSet(D), NEW f \in [D -> Int], NEW h \in [D -> Int],
         \A x \in D : h[x] <= f[x]
  PROVE  SumFunctionOnSet(h, D) <= SumFunctionOnSet(f, D)
<1> DEFINE G == {s \in SUBSET D : SumFunctionOnSet(h, s) <= SumFunctionOnSet(f, s)}
<1>1. {} \in G
  BY SumType
<1>2. ASSUME NEW s \in SUBSET D, s # {}
      PROVE  \E x \in s : s \ {x} \in G => s \in G
  <2>1. PICK x \in s : TRUE
    BY <1>2
  <2>2. IsFiniteSet(s) /\ IsFiniteSet(s \ {x})
    BY FS_Subset
  <2>3. /\ SumFunctionOnSet(f, s) = f[x] + SumFunctionOnSet(f, s \ {x})
        /\ SumFunctionOnSet(h, s) = h[x] + SumFunctionOnSet(h, s \ {x})
    BY <2>2, SumStep
  <2>4. SumFunctionOnSet(f, s \ {x}) \in Int /\ SumFunctionOnSet(h, s \ {x}) \in Int
    BY <2>2, SumType
  <2>5. f[x] \in Int /\ h[x] \in Int /\ h[x] <= f[x]
    OBVIOUS
  <2>6. ASSUME s \ {x} \in G
        PROVE  SumFunctionOnSet(h, s) <= SumFunctionOnSet(f, s)
    <3>1. SumFunctionOnSet(h, s \ {x}) <= SumFunctionOnSet(f, s \ {x})
      BY <2>6
    <3> QED
      BY <2>3, <2>4, <2>5, <3>1
  <2> QED
    BY <2>6
<1> HIDE DEF G
<1>3. D \in G
  BY <1>1, <1>2, ElementInduction, Zenon
<1> QED
  BY <1>3 DEF G

\* Where one value may grow by d, so may the sum.
LEMMA SumGrows ==
  ASSUME NEW D, IsFiniteSet(D), NEW f \in [D -> Int], NEW h \in [D -> Int],
         NEW x \in D, NEW d \in Int, h[x] <= f[x] + d, \A y \in D \ {x} : h[y] <= f[y]
  PROVE  SumFunctionOnSet(h, D) <= SumFunctionOnSet(f, D) + d
<1> DEFINE m == [f EXCEPT ![x] = h[x]]
<1>1. m \in [D -> Int] /\ m[x] = h[x] /\ (\A y \in D \ {x} : m[y] = f[y]) /\ \A y \in D : h[y] <= m[y]
  OBVIOUS
<1> HIDE DEF m
<1>2. SumFunctionOnSet(m, D) = SumFunctionOnSet(f, D) - f[x] + m[x]
  BY <1>1, SumChange
<1>3. SumFunctionOnSet(h, D) <= SumFunctionOnSet(m, D)
  BY <1>1, SumLeq
<1>4. SumFunctionOnSet(f, D) \in Int /\ SumFunctionOnSet(h, D) \in Int /\ f[x] \in Int /\ h[x] \in Int
  BY SumType
<1> QED
  BY <1>1, <1>2, <1>3, <1>4

\* ... and where one may grow by what another gives.
LEMMA SumMoves ==
  ASSUME NEW D, IsFiniteSet(D), NEW f \in [D -> Int], NEW h \in [D -> Int],
         NEW x \in D, NEW z \in D, x # z,
         h[x] + h[z] <= f[x] + f[z], \A y \in D \ {x, z} : h[y] <= f[y]
  PROVE  SumFunctionOnSet(h, D) <= SumFunctionOnSet(f, D)
<1> DEFINE m == [f EXCEPT ![x] = h[x], ![z] = h[z]]
<1>1. /\ m \in [D -> Int] /\ m[x] = h[x] /\ m[z] = h[z]
      /\ (\A y \in D \ {x, z} : m[y] = f[y]) /\ \A y \in D : h[y] <= m[y]
  OBVIOUS
<1> HIDE DEF m
<1>2. SumFunctionOnSet(m, D) = SumFunctionOnSet(f, D) - f[x] - f[z] + m[x] + m[z]
  BY <1>1, SumChangeTwo
<1>3. SumFunctionOnSet(h, D) <= SumFunctionOnSet(m, D)
  BY <1>1, SumLeq
<1>4. /\ SumFunctionOnSet(f, D) \in Int /\ SumFunctionOnSet(h, D) \in Int
      /\ f[x] \in Int /\ h[x] \in Int /\ f[z] \in Int /\ h[z] \in Int
  BY SumType
<1> QED
  BY <1>1, <1>2, <1>3, <1>4

\* Where the elements of F count for c each, and others for nothing.
LEMMA SumOfEqual ==
  ASSUME NEW D, IsFiniteSet(D), NEW F \in SUBSET D, NEW c \in Nat,
         NEW f \in [D -> Int], \A x \in D : f[x] = IF x \in F THEN c ELSE 0
  PROVE  SumFunctionOnSet(f, D) = c * Cardinality(F)
<1> DEFINE G == {s \in SUBSET D : SumFunctionOnSet(f, s) = c * Cardinality(s \cap F)}
<1>1. {} \in G
  <2>1. {} \cap F = {} /\ Cardinality({}) = 0 /\ SumFunctionOnSet(f, {}) = 0 /\ c * 0 = 0
    BY FS_EmptySet, SumType
  <2> QED
    BY <2>1
<1>2. ASSUME NEW s \in SUBSET D, s # {}
      PROVE  \E x \in s : s \ {x} \in G => s \in G
  <2>1. PICK x \in s : TRUE
    BY <1>2
  <2>2. IsFiniteSet(s) /\ IsFiniteSet(s \cap F) /\ IsFiniteSet((s \cap F) \ {x})
    BY FS_Subset
  <2>3. SumFunctionOnSet(f, s) = f[x] + SumFunctionOnSet(f, s \ {x})
    BY <2>2, SumStep
  <2>4. Cardinality(s \cap F) \in Nat /\ Cardinality((s \cap F) \ {x}) \in Nat
    BY <2>2, FS_CardinalityType
  <2>5. ASSUME s \ {x} \in G
        PROVE  SumFunctionOnSet(f, s) = c * Cardinality(s \cap F)
    <3>1. CASE x \in F
      <4>1. (s \ {x}) \cap F = (s \cap F) \ {x}
        OBVIOUS
      <4>2. PICK k \in Nat : k = Cardinality((s \cap F) \ {x})
        BY <2>4
      <4>3. Cardinality(s \cap F) = k + 1
        <5>1. x \in s \cap F
          BY <3>1
        <5>2. Cardinality((s \cap F) \ {x}) = Cardinality(s \cap F) - 1
          BY <2>2, <5>1, FS_RemoveElement
        <5> QED
          BY <2>4, <4>2, <5>2
      <4>4. SumFunctionOnSet(f, s \ {x}) = c * k /\ f[x] = c
        BY <2>5, <3>1, <4>1, <4>2
      <4>5. c + c * k = c * (k + 1)
        OBVIOUS
      <4> QED
        BY <2>3, <4>3, <4>4, <4>5
    <3>2. CASE x \notin F
      <4>1. (s \ {x}) \cap F = s \cap F
        BY <3>2
      <4>2. c * Cardinality(s \cap F) \in Int
        BY <2>4
      <4> QED
        BY <2>3, <2>5, <3>2, <4>1, <4>2
    <3> QED
      BY <3>1, <3>2
  <2> QED
    BY <2>5
<1> HIDE DEF G
<1>3. D \in G
  BY <1>1, <1>2, ElementInduction, Zenon
<1>4. D \cap F = F
  OBVIOUS
<1> QED
  BY <1>3, <1>4 DEF G

\* What is apart adds up.
LEMMA SumUnion ==
  ASSUME NEW D, NEW f \in [D -> Int], NEW A \in SUBSET D, NEW B \in SUBSET D,
         IsFiniteSet(A), IsFiniteSet(B), A \cap B = {}
  PROVE  SumFunctionOnSet(f, A \cup B) = SumFunctionOnSet(f, A) + SumFunctionOnSet(f, B)
<1> DEFINE G == {s \in SUBSET B : SumFunctionOnSet(f, A \cup s) = SumFunctionOnSet(f, A) + SumFunctionOnSet(f, s)}
<1>0. SumFunctionOnSet(f, A) \in Int
  BY SumType
<1>1. {} \in G
  <2>1. SumFunctionOnSet(f, {}) = 0 /\ A \cup {} = A
    BY SumType
  <2> QED
    BY <1>0, <2>1
<1>2. ASSUME NEW s \in SUBSET B, s # {}
      PROVE  \E x \in s : s \ {x} \in G => s \in G
  <2>1. PICK x \in s : TRUE
    BY <1>2
  <2>2. IsFiniteSet(s) /\ IsFiniteSet(s \ {x}) /\ IsFiniteSet(A \cup s)
    BY FS_Subset, FS_Union
  <2>3. (A \cup s) \ {x} = A \cup (s \ {x}) /\ x \in A \cup s /\ A \cup s \in SUBSET D
    OBVIOUS
  <2>4. SumFunctionOnSet(f, A \cup s) = f[x] + SumFunctionOnSet(f, A \cup (s \ {x}))
    BY <2>2, <2>3, SumStep
  <2>5. SumFunctionOnSet(f, s) = f[x] + SumFunctionOnSet(f, s \ {x})
    BY <2>2, SumStep
  <2>6. f[x] \in Int /\ SumFunctionOnSet(f, s \ {x}) \in Int
    BY <2>2, SumType
  <2>7. ASSUME s \ {x} \in G
        PROVE  s \in G
    BY <1>0, <2>4, <2>5, <2>6, <2>7
  <2> QED
    BY <2>7
<1> HIDE DEF G
<1>3. \A s \in SUBSET B : s \in G
  BY <1>1, <1>2, ElementInduction, Zenon
<1> QED
  BY <1>3 DEF G

\* The sums over parts that are apart add up to the sum over them all.
LEMMA SumOfParts ==
  ASSUME NEW D, IsFiniteSet(D), NEW f \in [D -> Int], NEW T, IsFiniteSet(T),
         NEW P \in [T -> SUBSET D], \A x, y \in T : x # y => P[x] \cap P[y] = {},
         NEW F \in [T -> Int], \A x \in T : F[x] = SumFunctionOnSet(f, P[x])
  PROVE  SumFunctionOnSet(F, T) = SumFunctionOnSet(f, UNION {P[x] : x \in T})
<1> DEFINE all(s) == UNION {P[x] : x \in s}
           G == {s \in SUBSET T : SumFunctionOnSet(F, s) = SumFunctionOnSet(f, all(s))}
<1>1. {} \in G
  <2>1. all({}) = {} /\ SumFunctionOnSet(F, {}) = 0 /\ SumFunctionOnSet(f, {}) = 0
    BY SumType
  <2> HIDE DEF all
  <2> QED
    BY <2>1
<1>2. ASSUME NEW s \in SUBSET T, s # {}
      PROVE  \E x \in s : s \ {x} \in G => s \in G
  <2>1. PICK x \in s : TRUE
    BY <1>2
  <2>2. all(s) = all(s \ {x}) \cup P[x] /\ all(s \ {x}) \cap P[x] = {}
    OBVIOUS
  <2>3. all(s \ {x}) \in SUBSET D /\ P[x] \in SUBSET D
    OBVIOUS
  <2> HIDE DEF all
  <2>4. IsFiniteSet(all(s \ {x})) /\ IsFiniteSet(P[x]) /\ IsFiniteSet(s)
    BY <2>3, FS_Subset
  <2>5. SumFunctionOnSet(f, all(s)) = SumFunctionOnSet(f, all(s \ {x})) + SumFunctionOnSet(f, P[x])
    <3> DEFINE A == all(s \ {x})
               B == P[x]
    <3>1. A \in SUBSET D /\ B \in SUBSET D /\ IsFiniteSet(A) /\ IsFiniteSet(B) /\ A \cap B = {}
      BY <2>2, <2>3, <2>4
    <3> HIDE DEF A, B
    <3>2. SumFunctionOnSet(f, A \cup B) = SumFunctionOnSet(f, A) + SumFunctionOnSet(f, B)
      BY <3>1, SumUnion
    <3> QED
      BY <2>2, <3>2 DEF A, B
  <2>6. SumFunctionOnSet(F, s) = F[x] + SumFunctionOnSet(F, s \ {x})
    BY <2>4, SumStep
  <2>7. SumFunctionOnSet(f, all(s \ {x})) \in Int /\ SumFunctionOnSet(f, P[x]) \in Int
    BY <2>3, <2>4, SumType
  <2>8. F[x] = SumFunctionOnSet(f, P[x])
    OBVIOUS
  <2>9. ASSUME s \ {x} \in G
        PROVE  s \in G
    <3>1. SumFunctionOnSet(F, s \ {x}) = SumFunctionOnSet(f, all(s \ {x}))
      BY <2>9
    <3>2. SumFunctionOnSet(F, s) = SumFunctionOnSet(f, all(s))
      BY <2>5, <2>6, <2>7, <2>8, <3>1
    <3> QED
      BY <3>2
  <2> QED
    BY <2>9
<1> HIDE DEF G
<1>3. \A s \in SUBSET T : s \in G
  BY <1>1, <1>2, ElementInduction, Zenon
<1> QED
  BY <1>3 DEF G

\* Where the values of T change, the sum changes by what they were and are.
LEMMA SumReplaced ==
  ASSUME NEW D, IsFiniteSet(D), NEW f \in [D -> Int], NEW h \in [D -> Int],
         NEW T \in SUBSET D, \A x \in D \ T : h[x] = f[x]
  PROVE  SumFunctionOnSet(h, D) = SumFunctionOnSet(f, D) - SumFunctionOnSet(f, T) + SumFunctionOnSet(h, T)
<1> DEFINE R == D \ T
<1>1. IsFiniteSet(T) /\ IsFiniteSet(R) /\ R \in SUBSET D /\ R \cap T = {} /\ R \cup T = D
  BY FS_Subset
<1> HIDE DEF R
<1>2. SumFunctionOnSet(h, D) = SumFunctionOnSet(h, R) + SumFunctionOnSet(h, T)
  BY <1>1, SumUnion
<1>3. SumFunctionOnSet(f, D) = SumFunctionOnSet(f, R) + SumFunctionOnSet(f, T)
  BY <1>1, SumUnion
<1>4. SumFunctionOnSet(h, R) = SumFunctionOnSet(f, R)
  BY <1>1, SumSame DEF R
<1>5. /\ SumFunctionOnSet(h, R) \in Int /\ SumFunctionOnSet(h, T) \in Int
      /\ SumFunctionOnSet(f, R) \in Int /\ SumFunctionOnSet(f, T) \in Int
  BY <1>1, SumType
<1> QED
  BY <1>2, <1>3, <1>4, <1>5

----------------------------------------------------------------------------
\* Loops over sequences.

LEMMA Largest ==
  ASSUME NEW n \in Nat, NEW s \in SUBSET (1..n), s # {}
  PROVE  Max(s) \in s /\ \A y \in s : Max(s) >= y
<1> DEFINE G == {t \in SUBSET s : t # {} => \E x \in t : \A y \in t : x >= y}
<1>1. IsFiniteSet(s)
  <2>1. IsFiniteSet(1..n)
    BY FS_Interval
  <2> QED
    BY <2>1, FS_Subset
<1>2. {} \in G
  OBVIOUS
<1>3. ASSUME NEW t \in SUBSET s, t # {}
      PROVE  \E x \in t : t \ {x} \in G => t \in G
  <2>1. PICK x \in t : TRUE
    BY <1>3
  <2>2. ASSUME t \ {x} \in G
        PROVE  \E z \in t : \A y \in t : z >= y
    <3>1. CASE t \ {x} = {}
      BY <2>1, <3>1
    <3>2. CASE t \ {x} # {}
      <4>1. PICK z \in t \ {x} : \A y \in t \ {x} : z >= y
        BY <2>2, <3>2
      <4>2. z \in Int /\ x \in Int /\ \A y \in t : y \in Int
        OBVIOUS
      <4>3. CASE x >= z
        BY <4>1, <4>2, <4>3
      <4>4. CASE z >= x
        BY <4>1, <4>2, <4>4
      <4> QED
        BY <4>2, <4>3, <4>4
    <3> QED
      BY <3>1, <3>2
  <2> QED
    BY <2>2
<1> HIDE DEF G
<1>4. \A t \in SUBSET s : t \in G
  BY <1>1, <1>2, <1>3, ElementInduction, Zenon
<1>5. \E x \in s : \A y \in s : x >= y
  BY <1>4 DEF G
<1> QED
  BY <1>5, Zenon DEF Max

LEMMA Smallest ==
  ASSUME NEW n \in Nat, NEW s \in SUBSET (1..n), s # {}
  PROVE  Min(s) \in s /\ \A y \in s : Min(s) <= y
<1> DEFINE m == {n + 1 - x : x \in s}
<1>1. m \in SUBSET (1..n) /\ m # {}
  <2>1. \A x \in s : n + 1 - x \in 1..n
    OBVIOUS
  <2> QED
    BY <2>1
<1>2. Max(m) \in m /\ \A y \in m : Max(m) >= y
  <2> HIDE DEF m
  <2> QED
    BY <1>1, Largest
<1>3. PICK x \in s : Max(m) = n + 1 - x
  BY <1>2
<1>4. \A y \in s : x <= y
  BY <1>2, <1>3
<1> QED
  BY <1>4, Zenon DEF Min

\* h says what the loop has made of L when it has been through the places s.
Follows(h, f, L, Add) ==
  h = [s \in SUBSET DOMAIN f |-> IF s = {} THEN L ELSE Add[f[Max(s)]][h[s \ {Max(s)}]]]

LEMMA ThroughDef ==
  ASSUME NEW f, NEW L, NEW Add
  PROVE  Through(f, L, Add) = (CHOOSE h : Follows(h, f, L, Add))[DOMAIN f]
BY DEF Through, FoldLeft, MapThenFoldSet, Follows

\* No turn leaves V.
Closes(D, V, Add) == \A x \in D : \A K \in V : Add[x][K] \in V

GoesThrough(f, L, Add) == \E h : Follows(h, f, L, Add) /\ Through(f, L, Add) = h[DOMAIN f]

\* A loop goes turn by turn.
LEMMA ThroughGoes ==
  ASSUME NEW D, NEW f \in Seq(D), NEW V, NEW L \in V, NEW Add,
         Closes(D, V, Add)
  PROVE  GoesThrough(f, L, Add)
<1> DEFINE T == DOMAIN f
           c == [s \in SUBSET T |-> Max(s)]
           H == [p \in T \X V |-> Add[f[p[1]]][p[2]]]
<1>1. T = 1..Len(f) /\ Len(f) \in Nat /\ \A i \in T : f[i] \in D
  OBVIOUS
<1>2. IsFiniteSet(T)
  BY <1>1, FS_Interval
<1>3. \A s \in SUBSET T : s # {} => Max(s) \in s
  BY <1>1, Largest
<1>4. Picks(c, T) /\ \A s \in SUBSET T : c[s] = Max(s)
  BY <1>3 DEF Picks
<1>5. \A i \in T, K \in V : H[<<i, K>>] \in V /\ H[<<i, K>>] = Add[f[i]][K]
  BY <1>1 DEF Closes
<1> HIDE DEF T, c, H
<1>6. PICK h : FoldsOver(T, c, L, H, h)
  BY <1>2, <1>4, FoldExists
<1>7. h \in [SUBSET T -> V]
  BY <1>2, <1>4, <1>5, <1>6, FoldType
<1>8. ASSUME NEW s \in SUBSET T, s # {}
      PROVE  h[s] = Add[f[Max(s)]][h[s \ {Max(s)}]]
  <2>1. h[s] = H[<<Max(s), h[s \ {Max(s)}]>>]
    BY <1>4, <1>6, <1>8 DEF FoldsOver
  <2>2. Max(s) \in T /\ h[s \ {Max(s)}] \in V
    BY <1>3, <1>7, <1>8
  <2> QED
    BY <1>5, <2>1, <2>2
<1>9. Follows(h, f, L, Add)
  <2>1. h[{}] = L /\ h = [s \in SUBSET T |-> h[s]]
    BY <1>6 DEF FoldsOver
  <2> QED
    BY <1>8, <2>1 DEF Follows, T
<1>10. Follows(CHOOSE e : Follows(e, f, L, Add), f, L, Add)
  BY <1>9, Zenon
<1> QED
  BY <1>10, ThroughDef DEF GoesThrough

\* What each turn keeps the loop keeps.
LEMMA ThroughStays ==
  ASSUME NEW D, NEW f \in Seq(D), NEW V, NEW L \in V, NEW Add,
         Closes(D, V, Add)
  PROVE  Through(f, L, Add) \in V
<1> DEFINE T == DOMAIN f
<1>1. T = 1..Len(f) /\ Len(f) \in Nat /\ \A i \in T : f[i] \in D
  OBVIOUS
<1>2. IsFiniteSet(T)
  BY <1>1, FS_Interval
<1>3. \A s \in SUBSET T : s # {} => Max(s) \in s
  BY <1>1, Largest
<1>9. GoesThrough(f, L, Add)
  BY ThroughGoes
<1>4. PICK e : Follows(e, f, L, Add) /\ Through(f, L, Add) = e[T]
  BY <1>9 DEF GoesThrough
<1> HIDE DEF T
<1> DEFINE G == {s \in SUBSET T : e[s] \in V}
<1>12. {} \in G
  BY <1>4 DEF Follows, T
<1>13. ASSUME NEW s \in SUBSET T, s # {}
       PROVE  \E i \in s : s \ {i} \in G => s \in G
  <2>1. PICK i \in s : i = Max(s)
    BY <1>3, <1>13
  <2>2. e[s] = Add[f[i]][e[s \ {i}]]
    BY <1>4, <1>13, <2>1 DEF Follows, T
  <2>3. f[i] \in D
    BY <1>1
  <2> QED
    BY <2>2, <2>3 DEF Closes
<1> HIDE DEF G
<1>14. \A s \in SUBSET T : s \in G
  BY <1>2, <1>12, <1>13, ElementInduction, Zenon
<1>15. T \in G
  BY <1>14
<1> QED
  BY <1>4, <1>15 DEF G

LEMMA PlacesAreFinite ==
  ASSUME NEW n \in Nat
  PROVE  IsFiniteSet(1..n)
BY FS_Interval

\* The turn i leads from G[i - 1] to G[i].
Passes(f, G, Add) == \A i \in 1..Len(f) : \A K \in G[i - 1] : Add[f[i]][K] \in G[i]

\* After i turns a loop is in G[i].
LEMMA ThroughArrives ==
  ASSUME NEW D, NEW f \in Seq(D), NEW V, NEW L \in V, NEW Add,
         Closes(D, V, Add),
         NEW G, L \in G[0], Passes(f, G, Add)
  PROVE  Through(f, L, Add) \in G[Len(f)]
<1> DEFINE T == DOMAIN f
<1>1. T = 1..Len(f) /\ Len(f) \in Nat
  OBVIOUS
<1>2. IsFiniteSet(T)
  <2>1. IsFiniteSet(1..Len(f))
    BY <1>1, PlacesAreFinite
  <2> QED
    BY <1>1, <2>1, Zenon
<1>3. \A s \in SUBSET T : s # {} => Max(s) \in s /\ \A y \in s : Max(s) >= y
  BY <1>1, Largest
<1>9. GoesThrough(f, L, Add)
  BY ThroughGoes
<1>4. PICK e : Follows(e, f, L, Add) /\ Through(f, L, Add) = e[T]
  BY <1>9 DEF GoesThrough
<1> HIDE DEF T
<1> DEFINE A == {s \in SUBSET T : \A k \in 0..Len(f) : s = 1..k => e[s] \in G[k]}
<1>5. {} \in A
  <2>1. e[{}] = L
    BY <1>4 DEF Follows, T
  <2>2. \A k \in 0..Len(f) : {} = 1..k => k = 0
    <3> SUFFICES ASSUME NEW k \in 0..Len(f), k # 0
                 PROVE  1..k # {}
      OBVIOUS
    <3>1. 1 \in 1..k
      BY <1>1
    <3> QED
      BY <3>1
  <2> QED
    BY <2>1, <2>2
<1>6. ASSUME NEW s \in SUBSET T, s # {}
      PROVE  \E i \in s : s \ {i} \in A => s \in A
  <2>1. PICK i \in s : i = Max(s)
    BY <1>3, <1>6
  <2>2. e[s] = Add[f[i]][e[s \ {i}]]
    BY <1>4, <1>6, <2>1 DEF Follows, T
  <2>3. ASSUME s \ {i} \in A, NEW k \in 0..Len(f), s = 1..k
        PROVE  e[s] \in G[k]
    <3>1. k \in 1..Len(f) /\ i = k
      <4>1. k # 0
        BY <1>6, <2>3
      <4>2. k \in s /\ i \in 1..k
        BY <1>1, <2>3, <4>1
      <4>3. i >= k
        BY <1>3, <2>1, <4>2
      <4> QED
        BY <1>1, <4>1, <4>2, <4>3
    <3>2. s \ {i} = 1..(k - 1) /\ k - 1 \in 0..Len(f)
      BY <1>1, <2>3, <3>1
    <3>3. e[s \ {i}] \in G[k - 1]
      BY <2>3, <3>2
    <3> QED
      BY <2>2, <3>1, <3>3 DEF Passes
  <2> QED
    BY <2>3
<1> HIDE DEF A
<1>7. \A s \in SUBSET T : s \in A
  BY <1>2, <1>5, <1>6, ElementInduction, Zenon
<1>8. T \in A
  BY <1>7
<1> QED
  BY <1>1, <1>4, <1>8 DEF A

\* A loop with choices stays among the good, if every turn does.
LEMMA OutcomesStay ==
  ASSUME NEW D, NEW f \in Seq(D), NEW W, NEW G \in SUBSET W, NEW S \in SUBSET G,
         NEW Step, D \subseteq DOMAIN Step, \A x \in D : DOMAIN Step[x] = W,
         \A x \in D : \A v \in G : Step[x][v] \subseteq G
  PROVE  Outcomes(f, S, Step) \subseteq G
<1> DEFINE Add == [x \in DOMAIN Step |-> [T \in SUBSET DOMAIN Step[x] |->
                                           UNION {Step[x][v] : v \in T}]]
           V == SUBSET G
<1>1. ASSUME NEW x \in D, NEW T \in V
      PROVE  Add[x][T] \in V
  <2>1. x \in DOMAIN Step /\ T \in SUBSET DOMAIN Step[x]
    OBVIOUS
  <2>2. Add[x][T] = UNION {Step[x][v] : v \in T}
    BY <2>1
  <2>3. \A v \in T : Step[x][v] \subseteq G
    OBVIOUS
  <2> QED
    BY <2>2, <2>3
<1>2. Outcomes(f, S, Step) = Through(f, S, Add)
  BY DEF Outcomes
<1>3. S \in V
  OBVIOUS
<1> HIDE DEF Add, V
<1>4. Through(f, S, Add) \in V
  BY <1>1, <1>3, ThroughStays DEF Closes
<1> QED
  BY <1>2, <1>4 DEF V

\* The outcomes of turn i at G[i - 1] are in G[i].
Spreads(f, G, Step) == \A i \in 1..Len(f) : \A v \in G[i - 1] : Step[f[i]][v] \subseteq G[i]

\* A loop with choices is in G[i] after i turns.
LEMMA OutcomesArrive ==
  ASSUME NEW D, NEW f \in Seq(D), NEW W, NEW V \in SUBSET W, NEW S,
         NEW Step, D \subseteq DOMAIN Step, \A x \in D : DOMAIN Step[x] = W,
         \A x \in D : \A v \in V : Step[x][v] \subseteq V,
         NEW G \in [0..Len(f) -> SUBSET V], S \subseteq G[0], Spreads(f, G, Step)
  PROVE  Outcomes(f, S, Step) \subseteq G[Len(f)]
<1> DEFINE Add == [x \in DOMAIN Step |-> [T \in SUBSET DOMAIN Step[x] |->
                                           UNION {Step[x][v] : v \in T}]]
           U == SUBSET V
           B == [i \in 0..Len(f) |-> SUBSET G[i]]
<1>0. Len(f) \in Nat /\ \A i \in 1..Len(f) : f[i] \in D /\ i \in 0..Len(f) /\ i - 1 \in 0..Len(f)
  OBVIOUS
<1>1. ASSUME NEW x \in D, NEW T \in U
      PROVE  Add[x][T] \in U /\ Add[x][T] = UNION {Step[x][v] : v \in T}
  <2>1. x \in DOMAIN Step /\ T \in SUBSET DOMAIN Step[x]
    OBVIOUS
  <2>2. Add[x][T] = UNION {Step[x][v] : v \in T}
    BY <2>1
  <2>3. \A v \in T : Step[x][v] \subseteq V
    OBVIOUS
  <2> QED
    BY <2>2, <2>3
<1>2. Outcomes(f, S, Step) = Through(f, S, Add)
  BY DEF Outcomes
<1>3. S \in U /\ S \in B[0] /\ \A i \in 0..Len(f) : B[i] = SUBSET G[i] /\ B[i] \subseteq U
  <2>1. 0 \in 0..Len(f)
    BY <1>0
  <2> QED
    BY <2>1
<1> HIDE DEF Add, U, B
<1>4. Closes(D, U, Add)
  BY <1>1 DEF Closes
<1>5. Passes(f, B, Add)
  <2> SUFFICES ASSUME NEW i \in 1..Len(f), NEW K \in B[i - 1]
               PROVE  Add[f[i]][K] \in B[i]
    BY DEF Passes
  <2>0. f[i] \in D /\ i \in 0..Len(f) /\ i - 1 \in 0..Len(f)
    BY <1>0
  <2>1. K \subseteq G[i - 1] /\ K \in U
    BY <1>3, <2>0
  <2>2. Add[f[i]][K] = UNION {Step[f[i]][v] : v \in K}
    BY <1>1, <2>0, <2>1
  <2>3. \A v \in K : Step[f[i]][v] \subseteq G[i]
    BY <2>1 DEF Spreads
  <2>4. UNION {Step[f[i]][v] : v \in K} \subseteq G[i]
    BY <2>3
  <2>5. B[i] = SUBSET G[i]
    BY <1>3, <2>0
  <2> QED
    BY <2>2, <2>4, <2>5
<1>6. Through(f, S, Add) \in B[Len(f)]
  BY <1>3, <1>4, <1>5, ThroughArrives
<1>7. B[Len(f)] = SUBSET G[Len(f)]
  BY <1>0, <1>3
<1> QED
  BY <1>2, <1>6, <1>7

----------------------------------------------------------------------------
\* Loops over sets.

\* r says what the loop has made of v when it has been through the elements of s.
Rounds(r, S, v, Do) ==
  r = [s \in SUBSET S |-> IF s = {} THEN v
                          ELSE Do[CHOOSE x \in s : TRUE][r[s \ {CHOOSE x \in s : TRUE}]]]

LEMMA OverDef ==
  ASSUME NEW S, NEW v, NEW Do
  PROVE  Over(S, v, Do) = (CHOOSE r : Rounds(r, S, v, Do))[S]
BY DEF Over, FoldSet, MapThenFoldSet, Rounds

\* Whoever's turn it is, it leads from K for those before to K for one more.
Advances(S, K, Do) ==
  \A s \in SUBSET S : \A x \in S \ s : \A u \in K[s] : Do[x][u] \in K[s \cup {x}]

\* What a solution of the loop's recursion says of those in s is in K[s].
LEMMA RoundsArrive ==
  ASSUME NEW S, IsFiniteSet(S), NEW v, NEW Do, NEW K, v \in K[{}], Advances(S, K, Do),
         NEW r, Rounds(r, S, v, Do)
  PROVE  r[S] \in K[S]
<1> DEFINE A == {s \in SUBSET S : r[s] \in K[s]}
<1>1. {} \in A
  BY DEF Rounds
<1>2. ASSUME NEW s \in SUBSET S, s # {}
      PROVE  \E x \in s : s \ {x} \in A => s \in A
  <2>1. PICK x \in s : x = CHOOSE y \in s : TRUE
    BY <1>2
  <2>2. r[s] = Do[x][r[s \ {x}]]
    BY <1>2, <2>1 DEF Rounds
  <2>3. ASSUME r[s \ {x}] \in K[s \ {x}]
        PROVE  r[s] \in K[s]
    <3>1. s \ {x} \in SUBSET S /\ x \in S \ (s \ {x}) /\ (s \ {x}) \cup {x} = s
      OBVIOUS
    <3>2. Do[x][r[s \ {x}]] \in K[(s \ {x}) \cup {x}]
      BY <2>3, <3>1 DEF Advances
    <3> QED
      BY <2>2, <3>1, <3>2
  <2> QED
    BY <2>3
<1> HIDE DEF A
<1>3. \A s \in SUBSET S : s \in A
  BY <1>1, <1>2, ElementInduction, Zenon
<1>4. S \in A
  BY <1>3
<1> QED
  BY <1>4 DEF A

\* After all turns a loop is in K[S].
LEMMA OverArrives ==
  ASSUME NEW S, IsFiniteSet(S), NEW v, NEW Do, NEW K, v \in K[{}], Advances(S, K, Do)
  PROVE  Over(S, v, Do) \in K[S]
<1> DEFINE c == [s \in SUBSET S |-> CHOOSE x \in s : TRUE]
           V == UNION {K[s] : s \in SUBSET S}
           H == [p \in S \X V |-> IF Do[p[1]][p[2]] \in V THEN Do[p[1]][p[2]] ELSE v]
<1>1. Picks(c, S) /\ \A s \in SUBSET S : c[s] = CHOOSE x \in s : TRUE
  BY DEF Picks
<1>2. v \in V
  OBVIOUS
<1>3. \A x \in S, u \in V : /\ H[<<x, u>>] \in V
                            /\ Do[x][u] \in V => H[<<x, u>>] = Do[x][u]
  BY <1>2
<1>4. \A s \in SUBSET S : K[s] \subseteq V
  OBVIOUS
<1> HIDE DEF c, V, H
<1>5. PICK r : FoldsOver(S, c, v, H, r)
  BY <1>1, FoldExists
<1> DEFINE A == {s \in SUBSET S : r[s] \in K[s]}
<1>6. {} \in A
  BY <1>5 DEF FoldsOver
<1>7. ASSUME NEW s \in SUBSET S, s # {}, NEW x \in s, x = c[s], s \ {x} \in A
      PROVE  r[s] = Do[x][r[s \ {x}]] /\ s \in A
  <2>1. s \ {x} \in SUBSET S /\ x \in S \ (s \ {x}) /\ (s \ {x}) \cup {x} = s
    OBVIOUS
  <2>2. Do[x][r[s \ {x}]] \in K[(s \ {x}) \cup {x}]
    BY <1>7, <2>1 DEF Advances
  <2>3. Do[x][r[s \ {x}]] \in V /\ r[s \ {x}] \in V
    BY <1>4, <1>7, <2>1, <2>2
  <2>4. r[s] = H[<<x, r[s \ {x}]>>]
    BY <1>5, <1>7 DEF FoldsOver
  <2>5. r[s] = Do[x][r[s \ {x}]]
    BY <1>3, <2>3, <2>4
  <2> QED
    BY <2>1, <2>2, <2>5
<1>8. ASSUME NEW s \in SUBSET S, s # {}
      PROVE  \E x \in s : s \ {x} \in A => s \in A
  <2>1. PICK x \in s : x = c[s]
    BY <1>1, <1>8 DEF Picks
  <2> QED
    BY <1>7, <1>8, <2>1
<1> HIDE DEF A
<1>9. \A s \in SUBSET S : s \in A
  BY <1>6, <1>8, ElementInduction, Zenon
<1>10. ASSUME NEW s \in SUBSET S, s # {}
       PROVE  r[s] = Do[CHOOSE x \in s : TRUE][r[s \ {CHOOSE x \in s : TRUE}]]
  <2>1. PICK x \in s : x = c[s]
    BY <1>1, <1>10 DEF Picks
  <2>2. s \ {x} \in SUBSET S
    OBVIOUS
  <2>3. r[s] = Do[x][r[s \ {x}]]
    BY <1>7, <1>9, <1>10, <2>1, <2>2
  <2> QED
    BY <1>1, <2>1, <2>3
<1>11. Rounds(r, S, v, Do)
  <2>1. r[{}] = v /\ r = [s \in SUBSET S |-> r[s]]
    BY <1>5 DEF FoldsOver
  <2> QED
    BY <1>10, <2>1 DEF Rounds
<1>12. Rounds(CHOOSE e : Rounds(e, S, v, Do), S, v, Do)
  BY <1>11, Zenon
<1> QED
  BY <1>12, OverDef, RoundsArrive

\* What each turn keeps the loop keeps.
LEMMA OverStays ==
  ASSUME NEW S, IsFiniteSet(S), NEW V, NEW v \in V, NEW Do, Closes(S, V, Do)
  PROVE  Over(S, v, Do) \in V
<1> DEFINE K == [s \in SUBSET S |-> V]
<1>1. v \in K[{}] /\ K[S] = V
  OBVIOUS
<1>2. Advances(S, K, Do)
  <2> SUFFICES ASSUME NEW s \in SUBSET S, NEW x \in S \ s, NEW u \in K[s]
               PROVE  Do[x][u] \in K[s \cup {x}]
    BY DEF Advances
  <2>1. s \cup {x} \in SUBSET S /\ u \in V
    OBVIOUS
  <2> QED
    BY <2>1 DEF Closes
<1> HIDE DEF K
<1> QED
  BY <1>1, <1>2, OverArrives

\* A loop over nothing does nothing.
LEMMA OverNothing ==
  ASSUME NEW v, NEW Do
  PROVE  Over({}, v, Do) = v
<1> DEFINE V == {v}
<1>1. Closes({}, V, Do) /\ v \in V
  BY DEF Closes
<1> HIDE DEF V
<1>2. Over({}, v, Do) \in V
  BY <1>1, OverStays, FS_EmptySet
<1> QED
  BY <1>2 DEF V
=============================================================================
