------------------------ MODULE ReplicaDivision_proofs ------------------------
(***************************************************************************)
(* Proofs about Webster and ReplicaDivision, for any clusters, estimators, *)
(* placements and numbers of replicas.                                     *)
(***************************************************************************)
EXTENDS ReplicaDivision, FiniteSetTheorems, TLAPS

-----------------------------------------------------------------------------
(***************************************************************************)
(* Induction, over sets of what is good instead of predicates.             *)
(***************************************************************************)
\* A set of numbers has a least one.
LEMMA Least ==
    ASSUME NEW S \in SUBSET Nat, S # {}
    PROVE  \E n \in S : \A m \in S : n <= m
<1>1. \E n \in S : \A m \in S : ~(m < n)
  <2>1. PICK n \in S : \A m \in S : <<m, n>> \notin OpToRel(<, Nat)
    BY NatLessThanWellFounded, WFMin, Zenon
  <2> QED
    BY <2>1 DEF OpToRel
<1>2. \A n, m \in S : ~(m < n) => n <= m
  OBVIOUS
<1> QED
  BY <1>1, <1>2

\* What holds of nothing, and of one element more, holds of a finite set.
LEMMA EverySubset ==
    ASSUME NEW S, IsFiniteSet(S), NEW G, {} \in G,
           \A T \in SUBSET S : \A x \in S \ T : T \in G => T \cup {x} \in G
    PROVE  S \in G
<1> SUFFICES ASSUME S \notin G PROVE FALSE
  OBVIOUS
<1> DEFINE Bad == {Cardinality(T) : T \in {U \in SUBSET S : U \notin G}}
<1>1. \A T \in SUBSET S : IsFiniteSet(T) /\ Cardinality(T) \in Nat
  BY FS_Subset, FS_CardinalityType
<1>2. Bad \in SUBSET Nat /\ Bad # {}
  BY <1>1
<1>3. PICK n \in Bad : \A m \in Bad : n <= m
  BY <1>2, Least
<1>4. PICK T \in SUBSET S : T \notin G /\ n = Cardinality(T)
  BY <1>3
<1>5. PICK x \in T : TRUE
  BY <1>4
<1>6. T \ {x} \in SUBSET S /\ x \in S \ (T \ {x}) /\ (T \ {x}) \cup {x} = T
  BY <1>5
<1>7. T \ {x} \notin G
  BY <1>4, <1>6
<1>8. Cardinality(T \ {x}) \in Bad
  BY <1>6, <1>7
<1>9. Cardinality(T \ {x}) = n - 1
  BY <1>1, <1>4, <1>5, FS_RemoveElement
<1> HIDE DEF Bad
<1>10. n \in Nat /\ n <= n - 1
  BY <1>2, <1>3, <1>8, <1>9
<1> QED
  BY <1>10

\* What holds of zero, and of the next number, holds of all.
LEMMA EveryNumber ==
    ASSUME NEW G, 0 \in G, \A n \in Nat : n \in G => n + 1 \in G
    PROVE  \A n \in Nat : n \in G
<1> SUFFICES ASSUME NEW k \in Nat, k \notin G PROVE FALSE
  OBVIOUS
<1>1. PICK n \in {i \in Nat : i \notin G} : \A m \in {i \in Nat : i \notin G} : n <= m
  BY Least
<1>2. n # 0 /\ n \in Nat /\ n - 1 \in Nat /\ (n - 1) + 1 = n
  BY <1>1
<1>3. n - 1 \notin G
  BY <1>1, <1>2
<1> QED
  BY <1>1, <1>2, <1>3

-----------------------------------------------------------------------------
(***************************************************************************)
(* Sums.  A sum is a fold, a recursive function on subsets: that it exists *)
(* and does not depend on the order comes first.                           *)
(***************************************************************************)
pick(s) == CHOOSE x \in s : TRUE

\* g is the fold of f over the subsets of S.
Sums(f, S, g) ==
    g = [s \in SUBSET S |-> IF s = {} THEN 0 ELSE f[pick(s)] + g[s \ {pick(s)}]]

\* What is picked from a set is in it.
LEMMA PickIn ==
    ASSUME NEW s, s # {}
    PROVE  pick(s) \in s
BY DEF pick

\* Sum is the community module's fold, unfolded once.
LEMMA SumIsFold ==
    ASSUME NEW f, NEW S
    PROVE  Sum(f, S) = (CHOOSE g : Sums(f, S, g))[S]
BY DEF Sum, SumFunctionOnSet, FoldFunctionOnSet, MapThenFoldSet, Sums, pick

\* The fold exists: a function that is right for sets of n elements is extended
\* to those with one more.
LEMMA SumsExist ==
    ASSUME NEW S, IsFiniteSet(S), NEW f, \A x \in S : f[x] \in Int
    PROVE  \E g \in [SUBSET S -> Int] : Sums(f, S, g)
<1> DEFINE Right(g, T) == g[T] = IF T = {} THEN 0 ELSE f[pick(T)] + g[T \ {pick(T)}]
           G == {n \in Nat : \E g \in [SUBSET S -> Int] :
                    \A T \in SUBSET S : Cardinality(T) <= n => Right(g, T)}
<1>1. ASSUME NEW T \in SUBSET S
      PROVE  /\ IsFiniteSet(T) /\ Cardinality(T) \in Nat
             /\ Cardinality(T) <= Cardinality(S)
             /\ Cardinality(T) = 0 <=> T = {}
             /\ T # {} => /\ pick(T) \in T /\ f[pick(T)] \in Int
                          /\ T \ {pick(T)} \in SUBSET S
                          /\ Cardinality(T \ {pick(T)}) = Cardinality(T) - 1
  <2>1. IsFiniteSet(T) /\ Cardinality(T) \in Nat /\ Cardinality(T) <= Cardinality(S)
    BY FS_Subset, FS_CardinalityType
  <2>2. Cardinality(T) = 0 <=> T = {}
    BY <2>1, FS_EmptySet
  <2>3. ASSUME T # {} PROVE pick(T) \in T
    BY <2>3, PickIn
  <2>4. ASSUME T # {} PROVE Cardinality(T \ {pick(T)}) = Cardinality(T) - 1
    BY <2>1, <2>3, <2>4, FS_RemoveElement
  <2> QED
    BY <2>1, <2>2, <2>3, <2>4
<1>2. 0 \in G
  <2>1. ASSUME NEW T \in SUBSET S, Cardinality(T) <= 0 PROVE Right([s \in SUBSET S |-> 0], T)
    <3>0. Cardinality(T) \in Nat
      BY <1>1
    <3>1. Cardinality(T) = 0
      BY <2>1, <3>0
    <3>2. T = {}
      BY <1>1, <3>1
    <3> QED
      BY <3>2
  <2>2. [s \in SUBSET S |-> 0] \in [SUBSET S -> Int]
    OBVIOUS
  <2> QED
    BY <2>1, <2>2
<1>3. ASSUME NEW n \in Nat, n \in G PROVE n + 1 \in G
  <2>1. PICK g \in [SUBSET S -> Int] : \A T \in SUBSET S : Cardinality(T) <= n => Right(g, T)
    BY <1>3
  <2> DEFINE h == [T \in SUBSET S |-> IF Cardinality(T) = n + 1
                                      THEN f[pick(T)] + g[T \ {pick(T)}] ELSE g[T]]
  <2>2. h \in [SUBSET S -> Int]
    <3> SUFFICES ASSUME NEW T \in SUBSET S, Cardinality(T) = n + 1
                 PROVE  f[pick(T)] + g[T \ {pick(T)}] \in Int
      BY <2>1
    <3>1. T # {}
      <4>1. Cardinality(T) # 0
        OBVIOUS
      <4> QED
        BY <1>1, <4>1
    <3>2. f[pick(T)] \in Int /\ g[T \ {pick(T)}] \in Int
      BY <1>1, <2>1, <3>1
    <3> QED
      BY <3>2
  <2>3. ASSUME NEW T \in SUBSET S, Cardinality(T) <= n + 1 PROVE Right(h, T)
    <3>1. CASE Cardinality(T) = n + 1
      <4>0. T # {}
        <5>1. Cardinality(T) # 0
          BY <3>1
        <5> QED
          BY <1>1, <5>1
      <4>1. T # {} /\ Cardinality(T \ {pick(T)}) # n + 1 /\ T \ {pick(T)} \in SUBSET S
        BY <1>1, <3>1, <4>0
      <4>2. h[T] = f[pick(T)] + g[T \ {pick(T)}] /\ h[T \ {pick(T)}] = g[T \ {pick(T)}]
        BY <3>1, <4>1
      <4> QED
        BY <4>1, <4>2
    <3>2. CASE Cardinality(T) # n + 1
      <4>0. Cardinality(T) \in Nat
        BY <1>1
      <4>1. Cardinality(T) <= n /\ h[T] = g[T]
        BY <2>3, <3>2, <4>0
      <4>2. T # {} => /\ Cardinality(T \ {pick(T)}) # n + 1
                      /\ T \ {pick(T)} \in SUBSET S
        BY <1>1, <4>1
      <4>3. T # {} => h[T \ {pick(T)}] = g[T \ {pick(T)}]
        BY <4>2
      <4>4. Right(g, T)
        BY <2>1, <4>1
      <4> QED
        BY <4>1, <4>3, <4>4
    <3> QED
      BY <3>1, <3>2
  <2> HIDE DEF h, Right
  <2>4. \A T \in SUBSET S : Cardinality(T) <= n + 1 => Right(h, T)
    BY <2>3
  <2> QED
    BY <2>2, <2>4
<1> HIDE DEF G
<1>4. Cardinality(S) \in G
  BY <1>1, <1>2, <1>3, EveryNumber
<1>5. PICK g \in [SUBSET S -> Int] :
         \A T \in SUBSET S : Cardinality(T) <= Cardinality(S) => Right(g, T)
  BY <1>4 DEF G
<1>6. \A T \in SUBSET S : Right(g, T)
  BY <1>1, <1>5
<1>7. Sums(f, S, g)
  BY <1>6 DEF Sums
<1> QED
  BY <1>7

\* Folds agree on the sets both have.
LEMMA SumsAgree ==
    ASSUME NEW S, IsFiniteSet(S), NEW T \in SUBSET S, NEW f, NEW g, NEW h,
           Sums(f, S, g), Sums(f, T, h)
    PROVE  g[T] = h[T]
<1> DEFINE Bad == {Cardinality(U) : U \in {V \in SUBSET T : g[V] # h[V]}}
<1> SUFFICES ASSUME g[T] # h[T] PROVE FALSE
  OBVIOUS
<1>1. \A U \in SUBSET T : IsFiniteSet(U) /\ Cardinality(U) \in Nat
  BY FS_Subset, FS_CardinalityType
<1>2. Bad \in SUBSET Nat /\ Bad # {}
  BY <1>1
<1>3. PICK n \in Bad : \A m \in Bad : n <= m
  BY <1>2, Least
<1>4. PICK U \in SUBSET T : g[U] # h[U] /\ n = Cardinality(U)
  BY <1>3
<1>5. /\ g[U] = IF U = {} THEN 0 ELSE f[pick(U)] + g[U \ {pick(U)}]
      /\ h[U] = IF U = {} THEN 0 ELSE f[pick(U)] + h[U \ {pick(U)}]
  BY DEF Sums
<1>6. U # {} /\ g[U \ {pick(U)}] # h[U \ {pick(U)}] /\ U \ {pick(U)} \in SUBSET T
  BY <1>4, <1>5
<1>7. Cardinality(U \ {pick(U)}) = n - 1
  BY <1>1, <1>4, <1>6, PickIn, FS_RemoveElement
<1>8. Cardinality(U \ {pick(U)}) \in Bad
  BY <1>6
<1> HIDE DEF Bad
<1>9. n \in Nat /\ n <= n - 1
  BY <1>2, <1>3, <1>7, <1>8
<1> QED
  BY <1>9

\* The equation of a sum.
LEMMA SumEquation ==
    ASSUME NEW S, IsFiniteSet(S), NEW f, \A x \in S : f[x] \in Int
    PROVE  /\ Sum(f, S) \in Int
           /\ S = {} => Sum(f, S) = 0
           /\ S # {} => Sum(f, S) = f[pick(S)] + Sum(f, S \ {pick(S)})
<1>1. PICK g \in [SUBSET S -> Int] : Sums(f, S, g)
  BY SumsExist
<1>2. ASSUME NEW T \in SUBSET S PROVE Sum(f, T) = g[T]
  <2>1. IsFiniteSet(T)
    BY FS_Subset
  <2>2. \E h : Sums(f, T, h)
    BY <2>1, SumsExist
  <2>3. Sums(f, T, CHOOSE h : Sums(f, T, h))
    BY <2>2
  <2> QED
    BY <1>1, <2>3, SumsAgree, SumIsFold
<1>3. Sum(f, S) = g[S] /\ (S # {} => Sum(f, S \ {pick(S)}) = g[S \ {pick(S)}])
  BY <1>2
<1>4. g[S] = IF S = {} THEN 0 ELSE f[pick(S)] + g[S \ {pick(S)}]
  BY <1>1 DEF Sums
<1> QED
  BY <1>1, <1>3, <1>4

\* Removing any element, by way of the one the fold takes.
LEMMA SumRemove ==
    ASSUME NEW S, IsFiniteSet(S), NEW f, \A x \in S : f[x] \in Int, NEW x \in S
    PROVE  Sum(f, S) = f[x] + Sum(f, S \ {x})
<1> DEFINE Removes(T) == \A y \in T : Sum(f, T) = f[y] + Sum(f, T \ {y})
           Bad == {Cardinality(T) : T \in {U \in SUBSET S : ~Removes(U)}}
<1> SUFFICES ASSUME ~Removes(S) PROVE FALSE
  OBVIOUS
<1>1. \A T \in SUBSET S : IsFiniteSet(T) /\ Cardinality(T) \in Nat
  BY FS_Subset, FS_CardinalityType
<1>2. Bad \in SUBSET Nat /\ Bad # {}
  BY <1>1
<1>3. PICK n \in Bad : \A m \in Bad : n <= m
  BY <1>2, Least
<1>4. PICK T \in SUBSET S : ~Removes(T) /\ n = Cardinality(T)
  BY <1>3
<1>5. ASSUME NEW U \in SUBSET T, NEW y \in T, y \notin U PROVE Removes(U)
  <2>1. IsFiniteSet(T) /\ IsFiniteSet(U) /\ IsFiniteSet(T \ {y})
    BY <1>1, <1>4
  <2>2. Cardinality(T \ {y}) = n - 1
    BY <1>4, <2>1, FS_RemoveElement
  <2>3. Cardinality(U) <= Cardinality(T \ {y})
    BY <1>5, <2>1, FS_Subset
  <2>4. Cardinality(U) \in Nat /\ n \in Nat
    BY <1>1, <1>4
  <2>5. ~(n <= Cardinality(U))
    BY <2>2, <2>3, <2>4
  <2>6. Cardinality(U) \notin Bad
    BY <1>3, <2>5
  <2> QED
    BY <2>6
<1>6. PICK y \in T : Sum(f, T) # f[y] + Sum(f, T \ {y})
  BY <1>4
<1> DEFINE p == pick(T)
<1>7. p \in T
  BY <1>6, PickIn
<1>8. \A U \in SUBSET S : Sum(f, U) \in Int
  BY <1>1, SumEquation
<1>9. Sum(f, T) = f[p] + Sum(f, T \ {p})
  BY <1>1, <1>7, SumEquation
<1> HIDE DEF p
<1>10. p # y
  BY <1>6, <1>9
<1>11. Sum(f, T \ {p}) = f[y] + Sum(f, (T \ {p}) \ {y})
  BY <1>5, <1>7, <1>10
<1>12. Sum(f, T \ {y}) = f[p] + Sum(f, (T \ {y}) \ {p})
  BY <1>5, <1>6, <1>7, <1>10
<1>13. Sum(f, (T \ {p}) \ {y}) = Sum(f, (T \ {y}) \ {p})
  <2>1. (T \ {p}) \ {y} = (T \ {y}) \ {p}
    OBVIOUS
  <2> QED
    BY <2>1, Zenon
<1>14. f[p] \in Int /\ f[y] \in Int /\ Sum(f, (T \ {y}) \ {p}) \in Int
  BY <1>6, <1>7, <1>8
<1> QED
  BY <1>6, <1>9, <1>11, <1>12, <1>13, <1>14

\* A sum over no clusters, and over one more.
LEMMA SumEmpty ==
    ASSUME NEW f
    PROVE  Sum(f, {}) = 0
<1>1. IsFiniteSet({})
  BY FS_EmptySet
<1> QED
  BY <1>1, SumEquation

\* The sum of integers is one.
LEMMA SumInt ==
    ASSUME NEW S, IsFiniteSet(S), NEW f, \A x \in S : f[x] \in Int
    PROVE  Sum(f, S) \in Int
BY SumEquation

\* The sum with one element more.
LEMMA SumAdd ==
    ASSUME NEW S, IsFiniteSet(S), NEW f, NEW x, x \notin S,
           \A y \in S \cup {x} : f[y] \in Int
    PROVE  Sum(f, S \cup {x}) = Sum(f, S) + f[x]
<1>1. IsFiniteSet(S \cup {x}) /\ x \in S \cup {x} /\ (S \cup {x}) \ {x} = S
  BY FS_AddElement
<1>2. Sum(f, S \cup {x}) = f[x] + Sum(f, S)
  BY <1>1, SumRemove
<1> QED
  BY <1>1, <1>2, SumInt

\* The same, for the elements of a set that is built up one by one.
LEMMA SumStep ==
    ASSUME NEW S, IsFiniteSet(S), NEW f, \A y \in S : f[y] \in Int,
           NEW T \in SUBSET S, NEW x \in S \ T
    PROVE  Sum(f, T) \in Int /\ f[x] \in Int /\ Sum(f, T \cup {x}) = Sum(f, T) + f[x]
<1>1. IsFiniteSet(T)
  BY FS_Subset
<1>2. x \notin T /\ \A y \in T \cup {x} : f[y] \in Int
  OBVIOUS
<1> QED
  BY <1>1, <1>2, SumAdd, SumInt

\* The fold adds the values up in any way the elements are counted off: each
\* property of sums below is shown by adding one element.
LEMMA SumCong ==
    ASSUME NEW S, IsFiniteSet(S), NEW f, NEW g,
           \A x \in S : f[x] \in Int /\ g[x] = f[x]
    PROVE  Sum(g, S) = Sum(f, S)
<1> DEFINE G == {T \in SUBSET S : Sum(g, T) = Sum(f, T)}
<1>1. {} \in G
  BY SumEmpty
<1>2. ASSUME NEW T \in SUBSET S, NEW x \in S \ T, T \in G PROVE T \cup {x} \in G
  <2>1. \A y \in S : f[y] \in Int
    OBVIOUS
  <2>2. \A y \in S : g[y] \in Int
    OBVIOUS
  <2>3. Sum(f, T \cup {x}) = Sum(f, T) + f[x]
    BY <2>1, SumStep
  <2>4. Sum(g, T \cup {x}) = Sum(g, T) + g[x]
    BY <2>2, SumStep
  <2>5. g[x] = f[x] /\ Sum(g, T) = Sum(f, T) /\ T \cup {x} \in SUBSET S
    BY <1>2
  <2> QED
    BY <2>3, <2>4, <2>5
<1> HIDE DEF G
<1>3. S \in G
  BY <1>1, <1>2, EverySubset
<1> QED
  BY <1>3 DEF G

\* The sum of sums, element by element.
LEMMA SumPlus ==
    ASSUME NEW S, IsFiniteSet(S), NEW f, NEW g, NEW h,
           \A x \in S : f[x] \in Int, \A x \in S : g[x] \in Int
    PROVE  (\A x \in S : h[x] = f[x] + g[x]) => Sum(h, S) = Sum(f, S) + Sum(g, S)
<1> DEFINE G == {T \in SUBSET S : Sum(h, T) = Sum(f, T) + Sum(g, T)}
<1>1. ASSUME NEW T \in SUBSET S, NEW x \in S \ T
      PROVE  /\ Sum(f, T) \in Int /\ f[x] \in Int /\ Sum(f, T \cup {x}) = Sum(f, T) + f[x]
             /\ Sum(g, T) \in Int /\ g[x] \in Int /\ Sum(g, T \cup {x}) = Sum(g, T) + g[x]
  BY SumStep
<1> SUFFICES ASSUME \A x \in S : h[x] = f[x] + g[x]
             PROVE  Sum(h, S) = Sum(f, S) + Sum(g, S)
  OBVIOUS
<1>2. {} \in G
  BY SumEmpty
<1>3. ASSUME NEW T \in SUBSET S, NEW x \in S \ T, T \in G PROVE T \cup {x} \in G
  <2>1. \A y \in S : h[y] \in Int
    OBVIOUS
  <2>2. Sum(h, T \cup {x}) = Sum(h, T) + h[x] /\ h[x] = f[x] + g[x]
    BY <2>1, SumStep
  <2>3. Sum(h, T \cup {x}) = Sum(f, T \cup {x}) + Sum(g, T \cup {x})
    BY <1>1, <1>3, <2>2
  <2> QED
    BY <2>3
<1> HIDE DEF G
<1>4. S \in G
  BY <1>2, <1>3, EverySubset
<1> QED
  BY <1>4 DEF G

\* The sum over two disjoint sets.
LEMMA SumUnion ==
    ASSUME NEW S, NEW R, IsFiniteSet(S), IsFiniteSet(R), S \cap R = {}, NEW f,
           \A x \in S \cup R : f[x] \in Int
    PROVE  Sum(f, S \cup R) = Sum(f, S) + Sum(f, R)
<1> DEFINE G == {T \in SUBSET R : Sum(f, S \cup T) = Sum(f, S) + Sum(f, T)}
<1>1. {} \in G
  BY SumEmpty, SumInt, S \cup {} = S
<1>2. ASSUME NEW T \in SUBSET R, NEW x \in R \ T, T \in G PROVE T \cup {x} \in G
  <2>1. IsFiniteSet(T) /\ IsFiniteSet(S \cup T)
    BY FS_Subset, FS_Union
  <2>0. x \notin T /\ \A y \in T \cup {x} : f[y] \in Int
    OBVIOUS
  <2>2. Sum(f, T \cup {x}) = Sum(f, T) + f[x]
    BY <2>0, <2>1, SumAdd
  <2>3. x \notin S \cup T /\ S \cup (T \cup {x}) = (S \cup T) \cup {x}
        /\ \A y \in (S \cup T) \cup {x} : f[y] \in Int
    OBVIOUS
  <2>4. Sum(f, S \cup (T \cup {x})) = Sum(f, S \cup T) + f[x]
    <3>1. Sum(f, (S \cup T) \cup {x}) = Sum(f, S \cup T) + f[x]
      BY <2>1, <2>3, SumAdd
    <3> QED
      BY <2>3, <3>1, Zenon
  <2>5. Sum(f, S) \in Int /\ Sum(f, T) \in Int /\ f[x] \in Int
    BY <2>1, SumInt
  <2>6. Sum(f, S \cup (T \cup {x})) = Sum(f, S) + Sum(f, T \cup {x})
    <3>1. Sum(f, S \cup T) = Sum(f, S) + Sum(f, T)
      BY <1>2
    <3> QED
      BY <2>2, <2>4, <2>5, <3>1
  <2> QED
    BY <2>6
<1> HIDE DEF G
<1>3. R \in G
  BY <1>1, <1>2, EverySubset
<1> QED
  BY <1>3 DEF G

\* Larger values have a larger sum, and an equal one only if all are equal.
LEMMA SumMono ==
    ASSUME NEW S, IsFiniteSet(S), NEW f, NEW g,
           \A x \in S : f[x] \in Int /\ g[x] \in Int /\ f[x] <= g[x]
    PROVE  /\ Sum(f, S) <= Sum(g, S)
           /\ Sum(f, S) = Sum(g, S) => \A x \in S : f[x] = g[x]
<1> DEFINE G == {T \in SUBSET S : /\ Sum(f, T) <= Sum(g, T)
                                  /\ Sum(f, T) = Sum(g, T) => \A x \in T : f[x] = g[x]}
<1>1. {} \in G
  BY SumEmpty
<1>2. ASSUME NEW T \in SUBSET S, NEW x \in S \ T, T \in G PROVE T \cup {x} \in G
  <2>1. IsFiniteSet(T)
    BY FS_Subset
  <2>0. x \notin T /\ \A y \in T \cup {x} : f[y] \in Int /\ g[y] \in Int
    OBVIOUS
  <2>2. Sum(f, T \cup {x}) = Sum(f, T) + f[x] /\ Sum(g, T \cup {x}) = Sum(g, T) + g[x]
    BY <2>0, <2>1, SumAdd
  <2>3. Sum(f, T) \in Int /\ Sum(g, T) \in Int /\ f[x] \in Int /\ g[x] \in Int /\ f[x] <= g[x]
    BY <2>1, SumInt
  <2>4. Sum(f, T) <= Sum(g, T)
    BY <1>2
  <2>5. Sum(f, T \cup {x}) <= Sum(g, T \cup {x})
    BY <2>2, <2>3, <2>4
  <2>6. ASSUME Sum(f, T \cup {x}) = Sum(g, T \cup {x})
        PROVE  \A y \in T \cup {x} : f[y] = g[y]
    <3>1. f[x] = g[x] /\ Sum(f, T) = Sum(g, T)
      BY <2>2, <2>3, <2>4, <2>6
    <3> QED
      BY <1>2, <3>1
  <2> QED
    BY <2>5, <2>6
<1> HIDE DEF G
<1>3. S \in G
  BY <1>1, <1>2, EverySubset
<1> QED
  BY <1>3 DEF G

\* The sum of zeros is zero.
LEMMA SumZero ==
    ASSUME NEW S, IsFiniteSet(S), NEW f, \A x \in S : f[x] = 0
    PROVE  Sum(f, S) = 0
<1> DEFINE G == {T \in SUBSET S : Sum(f, T) = 0}
<1>1. {} \in G
  BY SumEmpty
<1>2. ASSUME NEW T \in SUBSET S, NEW x \in S \ T, T \in G PROVE T \cup {x} \in G
  <2>1. IsFiniteSet(T)
    BY FS_Subset
  <2>0. x \notin T /\ \A y \in T \cup {x} : f[y] \in Int
    OBVIOUS
  <2>2. Sum(f, T \cup {x}) = Sum(f, T) + f[x]
    BY <2>0, <2>1, SumAdd
  <2> QED
    BY <1>2, <2>2
<1> HIDE DEF G
<1>3. S \in G
  BY <1>1, <1>2, EverySubset
<1> QED
  BY <1>3 DEF G

\* The sum of natural numbers is one.
LEMMA SumNat ==
    ASSUME NEW S, IsFiniteSet(S), NEW f, \A x \in S : f[x] \in Nat
    PROVE  Sum(f, S) \in Nat
<1> DEFINE z == [x \in S |-> 0]
<1>1. Sum(z, S) = 0
  BY SumZero
<1>2. Sum(z, S) <= Sum(f, S)
  BY SumMono
<1>3. Sum(f, S) \in Int
  BY SumInt
<1> HIDE DEF z
<1> QED
  BY <1>1, <1>2, <1>3

\* A part has no larger sum, and no larger element, than the whole.
LEMMA SumSubset ==
    ASSUME NEW S, IsFiniteSet(S), NEW T \in SUBSET S, NEW f, \A x \in S : f[x] \in Nat
    PROVE  Sum(f, T) <= Sum(f, S) /\ Sum(f, S) = Sum(f, T) + Sum(f, S \ T)
<1>1. IsFiniteSet(T) /\ IsFiniteSet(S \ T)
  BY FS_Subset
<1>2. Sum(f, T) \in Nat /\ Sum(f, S \ T) \in Nat
  BY <1>1, SumNat
<1>3. T \cup (S \ T) = S /\ T \cap (S \ T) = {}
  OBVIOUS
<1>4. Sum(f, S) = Sum(f, T) + Sum(f, S \ T)
  BY <1>1, <1>3, SumUnion
<1> QED
  BY <1>2, <1>4

\* No term is larger than the sum of natural numbers.
LEMMA SumTerm ==
    ASSUME NEW S, IsFiniteSet(S), NEW f, \A x \in S : f[x] \in Nat, NEW x \in S
    PROVE  f[x] <= Sum(f, S)
<1>1. Sum(f, S) = f[x] + Sum(f, S \ {x})
  BY SumRemove
<1>2. IsFiniteSet(S \ {x}) /\ f[x] \in Nat
  BY FS_Subset
<1>3. Sum(f, S \ {x}) \in Nat
  BY <1>2, SumNat
<1> QED
  BY <1>1, <1>2, <1>3

\* What is zero elsewhere sums up the same over the whole.
LEMMA SumElsewhere ==
    ASSUME NEW S, IsFiniteSet(S), NEW T \in SUBSET S, NEW f,
           \A x \in T : f[x] \in Int, \A x \in S \ T : f[x] = 0
    PROVE  Sum(f, S) = Sum(f, T)
<1>1. IsFiniteSet(T) /\ IsFiniteSet(S \ T)
  BY FS_Subset
<1>2. T \cup (S \ T) = S /\ T \cap (S \ T) = {} /\ \A x \in S : f[x] \in Int
  OBVIOUS
<1>3. Sum(f, S) = Sum(f, T) + Sum(f, S \ T)
  BY <1>1, <1>2, SumUnion
<1>4. Sum(f, S \ T) = 0 /\ Sum(f, T) \in Int
  BY <1>1, SumZero, SumInt
<1> QED
  BY <1>3, <1>4

\* The sum of values up to a bound.
LEMMA SumBound ==
    ASSUME NEW S, IsFiniteSet(S), NEW f, NEW b \in Nat,
           \A x \in S : f[x] \in Nat /\ f[x] <= b
    PROVE  Sum(f, S) <= b * Cardinality(S)
<1> DEFINE G == {T \in SUBSET S : Sum(f, T) <= b * Cardinality(T)}
<1>1. {} \in G
  BY SumEmpty, FS_EmptySet
<1>2. ASSUME NEW T \in SUBSET S, NEW x \in S \ T, T \in G PROVE T \cup {x} \in G
  <2>1. IsFiniteSet(T)
    BY FS_Subset
  <2>0. x \notin T /\ \A y \in T \cup {x} : f[y] \in Int
    OBVIOUS
  <2>2. Sum(f, T \cup {x}) = Sum(f, T) + f[x] /\ Cardinality(T \cup {x}) = Cardinality(T) + 1
    <3>1. Sum(f, T \cup {x}) = Sum(f, T) + f[x]
      BY <2>0, <2>1, SumAdd
    <3>2. Cardinality(T \cup {x}) = Cardinality(T) + 1
      BY <2>0, <2>1, FS_AddElement
    <3> QED
      BY <3>1, <3>2
  <2>3. Sum(f, T) \in Nat /\ Cardinality(T) \in Nat /\ f[x] \in Nat /\ f[x] <= b
    BY <2>1, SumNat, FS_CardinalityType
  <2>4. b * (Cardinality(T) + 1) = b * Cardinality(T) + b /\ b * Cardinality(T) \in Nat
    BY <2>3
  <2>5. Sum(f, T) <= b * Cardinality(T)
    BY <1>2
  <2>6. Sum(f, T \cup {x}) <= b * Cardinality(T \cup {x})
    BY <2>2, <2>3, <2>4, <2>5
  <2> QED
    BY <2>6
<1> HIDE DEF G
<1>3. S \in G
  BY <1>1, <1>2, EverySubset
<1> QED
  BY <1>3 DEF G

\* One more for one element.
LEMMA SumOneMore ==
    ASSUME NEW S, IsFiniteSet(S), NEW f, NEW g, NEW p \in S,
           \A x \in S : f[x] \in Int,
           g[p] = f[p] + 1, \A x \in S \ {p} : g[x] = f[x]
    PROVE  Sum(g, S) = Sum(f, S) + 1
<1>1. IsFiniteSet(S \ {p}) /\ \A x \in S : g[x] \in Int
  BY FS_Subset
<1>2. Sum(f, S) = f[p] + Sum(f, S \ {p}) /\ Sum(g, S) = g[p] + Sum(g, S \ {p})
  BY <1>1, SumRemove
<1>3. Sum(g, S \ {p}) = Sum(f, S \ {p})
  BY <1>1, SumCong
<1>4. Sum(f, S \ {p}) \in Int /\ f[p] \in Int
  BY <1>1, SumInt
<1> QED
  BY <1>2, <1>3, <1>4

-----------------------------------------------------------------------------
(***************************************************************************)
(* The order of the clusters.                                              *)
(***************************************************************************)
\* A set of numbers up to a bound has a largest one.
LEMMA Largest ==
    ASSUME NEW S \in SUBSET Nat, S # {}, NEW b \in Nat, \A m \in S : m <= b
    PROVE  \E n \in S : \A m \in S : m <= n
<1> DEFINE R == {i \in Nat : \E m \in S : i = b - m}
<1>1. R \in SUBSET Nat /\ R # {}
  <2>1. PICK m \in S : TRUE
    OBVIOUS
  <2>2. b - m \in R
    BY <2>1
  <2> QED
    BY <2>2
<1>2. PICK i \in R : \A j \in R : i <= j
  BY <1>1, Least
<1>3. PICK n \in S : i = b - n
  BY <1>2
<1>4. ASSUME NEW m \in S PROVE m <= n
  <2>1. b - m \in R
    OBVIOUS
  <2>2. b - n <= b - m
    BY <1>2, <1>3, <2>1
  <2> QED
    BY <2>2
<1> QED
  BY <1>4

\* Min is the least element of a finite set of numbers.
LEMMA SmallestOf ==
    ASSUME NEW S \in SUBSET Nat, S # {}
    PROVE  Min(S) \in S /\ \A m \in S : Min(S) <= m
<1>1. \E n \in S : \A m \in S : n <= m
  BY Least
<1> QED
  BY <1>1 DEF Min

\* Min of two numbers.
LEMMA SmallerOf ==
    ASSUME NEW m \in Nat, NEW n \in Nat
    PROVE  Min({m, n}) = IF m <= n THEN m ELSE n
<1>1. Min({m, n}) \in {m, n} /\ \A k \in {m, n} : Min({m, n}) <= k
  BY SmallestOf
<1> QED
  BY <1>1

\* As many elements on both sides: one-to-one is onto.
LEMMA OneToOneIsOnto ==
    ASSUME NEW S, NEW T, IsFiniteSet(T), IsFiniteSet(S), Cardinality(S) = Cardinality(T),
           NEW f \in [S -> T], \A x, y \in S : f[x] = f[y] => x = y
    PROVE  \A y \in T : \E x \in S : f[x] = y
<1>1. f \in Injection(S, T)
  BY DEF Injection, IsInjective
<1>2. f \in Surjection(S, T)
  BY <1>1, FS_Injection
<1> QED
  BY <1>2 DEF Surjection

\* An image that is one-to-one is as large.
LEMMA ImageSize ==
    ASSUME NEW S, IsFiniteSet(S), NEW f, \A x, y \in S : f[x] = f[y] => x = y
    PROVE  IsFiniteSet({f[x] : x \in S}) /\ Cardinality({f[x] : x \in S}) = Cardinality(S)
<1> DEFINE T == {f[x] : x \in S}
           g == [x \in S |-> f[x]]
<1>1. g \in [S -> T] /\ \A x, y \in S : g[x] = g[y] => x = y
  OBVIOUS
<1>2. \A y \in T : \E x \in S : g[x] = y
  OBVIOUS
<1>3. g \in Surjection(S, T) /\ g \in Injection(S, T)
  BY <1>1, <1>2 DEF Surjection, Injection, IsInjective
<1> QED
  BY <1>3, FS_Surjection

\* sortClusters sorts by a total order.
LEMMA SortTypes ==
    ASSUME NEW a \in Arguments, NEW b \in Clusters
    PROVE  /\ b \in Nat /\ a.placement.tier[b] \in Nat /\ Score(a, b) \in Nat
           /\ a.available[b] \in Nat
<1>1. a.placement \in Placement
  BY DivisionAssumption DEF Arguments
<1>2. a.placement.tier \in [Clusters -> Nat] /\ a.available \in [Clusters -> Nat]
  BY <1>1 DEF Placement, Arguments
<1> QED
  BY <1>2, WebsterAssumption DEF Score

\* sortClusters orders any two clusters: the names break the ties.
LEMMA SortTotal ==
    ASSUME NEW a \in Arguments, NEW b \in Clusters, NEW c \in Clusters
    PROVE  /\ ~SortsBefore(a, b, b)
           /\ b = c \/ SortsBefore(a, b, c) \/ SortsBefore(a, c, b)
           /\ SortsBefore(a, b, c) => ~SortsBefore(a, c, b)
<1>1. /\ b \in Nat /\ a.placement.tier[b] \in Nat /\ Score(a, b) \in Nat
      /\ a.available[b] \in Nat
  BY SortTypes
<1>2. /\ c \in Nat /\ a.placement.tier[c] \in Nat /\ Score(a, c) \in Nat
      /\ a.available[c] \in Nat
  BY SortTypes
<1> QED
  BY <1>1, <1>2 DEF SortsBefore

\* sortClusters is transitive.
LEMMA SortTransitive ==
    ASSUME NEW a \in Arguments, NEW b \in Clusters, NEW c \in Clusters, NEW d \in Clusters,
           SortsBefore(a, b, c), SortsBefore(a, c, d)
    PROVE  SortsBefore(a, b, d)
<1>1. /\ b \in Nat /\ a.placement.tier[b] \in Nat /\ Score(a, b) \in Nat
      /\ a.available[b] \in Nat
  BY SortTypes
<1>2. /\ c \in Nat /\ a.placement.tier[c] \in Nat /\ Score(a, c) \in Nat
      /\ a.available[c] \in Nat
  BY SortTypes
<1>3. /\ d \in Nat /\ a.placement.tier[d] \in Nat /\ Score(a, d) \in Nat
      /\ a.available[d] \in Nat
  BY SortTypes
<1> QED
  BY <1>1, <1>2, <1>3 DEF SortsBefore

\* The place of a cluster is the number of those before it.
LEMMA SortedExists ==
    ASSUME NEW a \in Arguments
    PROVE  \E s \in [1..Cardinality(a.feasible) -> a.feasible] :
              \A i, j \in DOMAIN s : i < j => SortsBefore(a, s[i], s[j])
<1> DEFINE F == a.feasible
           n == Cardinality(F)
           Ahead(c) == {b \in F : SortsBefore(a, b, c)}
           rank == [c \in F |-> Cardinality(Ahead(c)) + 1]
<1>1. F \subseteq Clusters /\ IsFiniteSet(F) /\ n \in Nat
  <2>1. F \in SUBSET Clusters
    BY DEF Arguments
  <2> QED
    BY <2>1, DivisionAssumption, FS_Subset, FS_CardinalityType
<1>2. ASSUME NEW c \in F
      PROVE  IsFiniteSet(Ahead(c)) /\ Cardinality(Ahead(c)) \in Nat /\ rank[c] \in 1..n
  <2>1. Ahead(c) \in SUBSET (F \ {c})
    BY <1>1, SortTotal
  <2>2. IsFiniteSet(F \ {c}) /\ Cardinality(F \ {c}) = n - 1
    BY <1>1, FS_RemoveElement
  <2>3. IsFiniteSet(Ahead(c)) /\ Cardinality(Ahead(c)) \in Nat
        /\ Cardinality(Ahead(c)) <= Cardinality(F \ {c})
    BY <2>1, <2>2, FS_Subset, FS_CardinalityType
  <2>4. rank[c] = Cardinality(Ahead(c)) + 1
    OBVIOUS
  <2> HIDE DEF Ahead, rank
  <2> QED
    BY <1>1, <2>2, <2>3, <2>4
<1>3. ASSUME NEW b \in F, NEW c \in F, SortsBefore(a, b, c) PROVE rank[b] < rank[c]
  <2>1. Ahead(b) \in SUBSET Ahead(c) /\ b \in Ahead(c) /\ b \notin Ahead(b)
    BY <1>1, <1>3, SortTotal, SortTransitive
  <2>2. /\ Cardinality(Ahead(b)) <= Cardinality(Ahead(c))
        /\ Cardinality(Ahead(b)) # Cardinality(Ahead(c))
    BY <1>2, <2>1, FS_Subset
  <2>3. Cardinality(Ahead(b)) \in Nat /\ Cardinality(Ahead(c)) \in Nat
    BY <1>2
  <2>4. rank[b] = Cardinality(Ahead(b)) + 1 /\ rank[c] = Cardinality(Ahead(c)) + 1
    OBVIOUS
  <2> HIDE DEF Ahead, rank
  <2> QED
    BY <2>2, <2>3, <2>4
<1>4. rank \in [F -> 1..n]
  BY <1>2
<1> HIDE DEF rank
<1>5. \A b, c \in F : rank[b] = rank[c] => b = c
  <2> SUFFICES ASSUME NEW b \in F, NEW c \in F, b # c PROVE rank[b] # rank[c]
    OBVIOUS
  <2>1. SortsBefore(a, b, c) \/ SortsBefore(a, c, b)
    BY <1>1, SortTotal
  <2>2. rank[b] < rank[c] \/ rank[c] < rank[b]
    BY <1>3, <2>1
  <2>3. rank[b] \in Nat /\ rank[c] \in Nat
    BY <1>4
  <2> QED
    BY <2>2, <2>3
<1>6. IsFiniteSet(1..n) /\ Cardinality(1..n) = Cardinality(F)
  BY <1>1, FS_Interval
<1> HIDE DEF n
<1>7. \A i \in 1..n : \E c \in F : rank[c] = i
  <2> DEFINE T == 1..n
  <2>1. /\ IsFiniteSet(T) /\ IsFiniteSet(F) /\ Cardinality(F) = Cardinality(T)
        /\ rank \in [F -> T]
    BY <1>1, <1>4, <1>6
  <2> HIDE DEF T
  <2>2. \A i \in T : \E c \in F : rank[c] = i
    BY <1>5, <2>1, OneToOneIsOnto
  <2> QED
    BY <2>2 DEF T
<1> DEFINE s == [i \in 1..n |-> CHOOSE c \in F : rank[c] = i]
<1>8. \A i \in 1..n : s[i] \in F /\ rank[s[i]] = i
  BY <1>7
<1>9. s \in [1..n -> F] /\ DOMAIN s = 1..n
  BY <1>8
<1> HIDE DEF s
<1>10. ASSUME NEW i \in 1..n, NEW j \in 1..n, i < j PROVE SortsBefore(a, s[i], s[j])
  <2>1. s[i] \in F /\ s[j] \in F /\ rank[s[i]] = i /\ rank[s[j]] = j
    BY <1>8
  <2>2. s[i] # s[j]
    BY <1>10, <2>1
  <2>3. ~(rank[s[j]] < rank[s[i]])
    BY <1>10, <2>1
  <2>4. ~SortsBefore(a, s[j], s[i])
    BY <1>3, <2>1, <2>3
  <2> QED
    BY <1>1, <2>1, <2>2, <2>4, SortTotal
<1> QED
  BY <1>9, <1>10 DEF n

\* The feasible clusters in some order.
Order(a, s) ==
    /\ s \in [1..Cardinality(a.feasible) -> a.feasible]
    /\ \A i, j \in 1..Cardinality(a.feasible) : s[i] = s[j] => i = j

\* The sorted clusters are an order of the feasible ones.
LEMMA SortedIsOrder ==
    ASSUME NEW a \in Arguments
    PROVE  Order(a, Sorted(a))
<1> DEFINE n == Cardinality(a.feasible)
           s == Sorted(a)
<1>1. a.feasible \in SUBSET Clusters
  BY DEF Arguments
<1>2. n \in Nat
  BY <1>1, DivisionAssumption, FS_Subset, FS_CardinalityType
<1>3. /\ s \in [1..n -> a.feasible]
      /\ \A i, j \in DOMAIN s : i < j => SortsBefore(a, s[i], s[j])
  BY SortedExists DEF Sorted
<1> HIDE DEF s
<1>4. ASSUME NEW i \in 1..n, NEW j \in 1..n, i # j PROVE s[i] # s[j]
  <2>1. SortsBefore(a, s[i], s[j]) \/ SortsBefore(a, s[j], s[i])
    BY <1>2, <1>3, <1>4
  <2>2. s[i] \in Clusters
    BY <1>1, <1>3
  <2> QED
    BY <2>1, <2>2, SortTotal
<1>5. Order(a, s)
  BY <1>3, <1>4 DEF Order
<1> QED
  BY <1>5 DEF s

\* The first n clusters are n of the feasible ones, and what is not among them
\* comes later.
LEMMA FirstFacts ==
    ASSUME NEW a \in Arguments, NEW s, Order(a, s), NEW n \in 0..Cardinality(a.feasible)
    PROVE  /\ First(s, n) \in SUBSET a.feasible
           /\ IsFiniteSet(First(s, n)) /\ Cardinality(First(s, n)) = n
           /\ \A c \in a.feasible \ First(s, n) :
                 \E i \in (n + 1)..Cardinality(a.feasible) : s[i] = c
<1> DEFINE F == a.feasible
           m == Cardinality(F)
<1>1. IsFiniteSet(F) /\ m \in Nat /\ n \in Nat /\ n <= m
  <2>1. F \in SUBSET Clusters
    BY DEF Arguments
  <2>2. IsFiniteSet(F) /\ m \in Nat
    BY <2>1, DivisionAssumption, FS_Subset, FS_CardinalityType
  <2> HIDE DEF m
  <2> QED
    BY <2>2 DEF m
<1>2. 1..n \subseteq 1..m
  BY <1>1
<1>3. First(s, n) \in SUBSET F
  BY <1>2 DEF First, Order
<1>4. IsFiniteSet(1..n) /\ Cardinality(1..n) = n /\ IsFiniteSet(1..m) /\ Cardinality(1..m) = m
  <2> HIDE DEF m
  <2>1. IsFiniteSet(1..n) /\ Cardinality(1..n) = n
    BY <1>1, FS_Interval
  <2>2. IsFiniteSet(1..m) /\ Cardinality(1..m) = m
    BY <1>1, FS_Interval
  <2> QED
    BY <2>1, <2>2
<1>5. \A i, j \in 1..n : s[i] = s[j] => i = j
  BY <1>2 DEF Order
<1>6. IsFiniteSet(First(s, n)) /\ Cardinality(First(s, n)) = n
  BY <1>4, <1>5, ImageSize DEF First
<1>7. s \in [1..m -> F] /\ \A i, j \in 1..m : s[i] = s[j] => i = j
  BY DEF Order
<1>8. \A c \in F : \E i \in 1..m : s[i] = c
  <2> DEFINE I == 1..m
  <2>1. IsFiniteSet(F) /\ IsFiniteSet(I) /\ Cardinality(I) = Cardinality(F)
    BY <1>1, <1>4
  <2>2. s \in [I -> F] /\ \A i, j \in I : s[i] = s[j] => i = j
    BY <1>7
  <2> HIDE DEF I, F
  <2>3. \A c \in F : \E i \in I : s[i] = c
    BY <2>1, <2>2, OneToOneIsOnto
  <2> QED
    BY <2>3 DEF I
<1>9. ASSUME NEW c \in F \ First(s, n) PROVE \E i \in (n + 1)..m : s[i] = c
  <2>1. PICK i \in 1..m : s[i] = c
    BY <1>8
  <2>2. i \notin 1..n
    BY <2>1 DEF First
  <2>3. i \in (n + 1)..m
    BY <1>1, <2>2
  <2> QED
    BY <2>1, <2>3
<1> QED
  BY <1>3, <1>6, <1>9

-----------------------------------------------------------------------------
(***************************************************************************)
(* The selection.                                                          *)
(***************************************************************************)
\* There is enough, or the clusters from the k-th to the n-th are larger than
\* those that follow.
Exchanged(a, n, s, k) ==
    \/ checkAvailableResource(a, First(s, n))
    \/ \A i \in k..n, j \in (n + 1)..Cardinality(a.feasible) :
          a.available[s[j]] <= a.available[s[i]]

\* The types of the arguments of a call.
LEMMA ArgumentTypes ==
    ASSUME NEW a \in Arguments
    PROVE  /\ a.feasible \in SUBSET Clusters /\ IsFiniteSet(a.feasible)
           /\ Cardinality(a.feasible) \in Nat
           /\ a.available \in [Clusters -> Nat] /\ a.allocatable \in [Clusters -> Nat]
           /\ a.assigned \in [Clusters -> Nat]
           /\ a.replicas \in Nat /\ a.fresh \in BOOLEAN
           /\ a.placement \in Placements /\ a.placement \in Placement
<1>1. a.feasible \in SUBSET Clusters
  BY DEF Arguments
<1>2. IsFiniteSet(a.feasible) /\ Cardinality(a.feasible) \in Nat
  BY <1>1, DivisionAssumption, FS_Subset, FS_CardinalityType
<1> QED
  BY <1>1, <1>2, DivisionAssumption DEF Arguments

\* Among the rest there is a largest cluster.
LEMMA LargestOfRest ==
    ASSUME NEW a \in Arguments, NEW s, Order(a, s), NEW n \in Nat,
           NEW k \in (n + 1)..Cardinality(a.feasible)
    PROVE  \E i \in (n + 1)..Cardinality(a.feasible) :
              \A j \in (n + 1)..Cardinality(a.feasible) : a.available[s[j]] <= a.available[s[i]]
<1> DEFINE rest == (n + 1)..Cardinality(a.feasible)
           R == {a.available[s[i]] : i \in rest}
<1>1. /\ Cardinality(a.feasible) \in Nat /\ a.available \in [Clusters -> Nat]
      /\ IsFiniteSet(a.feasible) /\ a.feasible \in SUBSET Clusters
  BY ArgumentTypes
<1>2. \A i \in rest : s[i] \in a.feasible
  BY <1>1 DEF Order
<1>3. \A c \in a.feasible : a.available[c] \in Nat
  BY <1>1
<1>4. Sum(a.available, a.feasible) \in Nat
  BY <1>1, <1>3, SumNat
<1>5. \A c \in a.feasible : a.available[c] <= Sum(a.available, a.feasible)
  BY <1>1, <1>3, SumTerm
<1>6. R \in SUBSET Nat /\ R # {} /\ \A r \in R : r <= Sum(a.available, a.feasible)
  BY <1>2, <1>3, <1>5
<1>7. PICK r \in R : \A q \in R : q <= r
  BY <1>4, <1>6, Largest
<1> QED
  BY <1>7

\* An exchange reorders the clusters, and puts the largest in the k-th place.
LEMMA ReplacedFacts ==
    ASSUME NEW a \in Arguments, NEW s, Order(a, s), NEW n \in Nat,
           n <= Cardinality(a.feasible), NEW k \in 1..n, Exchanged(a, n, s, k + 1)
    PROVE  Order(a, Replaced(a, n, s, k)) /\ Exchanged(a, n, Replaced(a, n, s, k), k)
<1> DEFINE N == Cardinality(a.feasible)
           larger == GetClusterWithMaxAvailableResource(a, n, s, k)
           room(i) == a.available[s[i]]
<1>1. /\ N \in Nat /\ a.available \in [Clusters -> Nat] /\ a.feasible \in SUBSET Clusters
      /\ k \in Nat /\ k >= 1 /\ k <= n
  BY ArgumentTypes
<1>2. /\ s \in [1..N -> a.feasible] /\ \A i, j \in 1..N : s[i] = s[j] => i = j
  BY DEF Order
<1>3. \A i \in 1..N : room(i) \in Nat
  BY <1>1, <1>2
<1>4. CASE checkAvailableResource(a, First(s, n))
  BY <1>4 DEF Replaced, Exchanged
<1>5. CASE ~checkAvailableResource(a, First(s, n)) /\ larger = {}
  <2>1. Replaced(a, n, s, k) = s
    BY <1>5 DEF Replaced
  <2>2. ASSUME NEW j \in (n + 1)..N PROVE room(j) <= room(k)
    <3>1. PICK i \in (n + 1)..N : \A h \in (n + 1)..N : room(h) <= room(i)
      BY LargestOfRest
    <3>2. ~(room(i) > room(k))
      BY <1>5, <3>1 DEF GetClusterWithMaxAvailableResource
    <3>3. i \in 1..N /\ j \in 1..N /\ k \in 1..N
      BY <1>1
    <3>4. room(i) \in Nat /\ room(j) \in Nat /\ room(k) \in Nat
      BY <1>3, <3>3
    <3>5. room(j) <= room(i)
      BY <3>1
    <3> HIDE DEF room
    <3> QED
      BY <3>2, <3>4, <3>5
  <2>3. ASSUME NEW i \in k..n, NEW j \in (n + 1)..N PROVE room(j) <= room(i)
    <3>1. CASE i = k
      BY <2>2, <3>1
    <3>2. CASE i # k
      <4>1. i \in (k + 1)..n
        BY <1>1, <3>2
      <4> QED
        BY <1>5, <4>1 DEF Exchanged
    <3> QED
      BY <3>1, <3>2
  <2> QED
    BY <2>1, <2>3 DEF Exchanged
<1>6. CASE ~checkAvailableResource(a, First(s, n)) /\ larger # {}
  <2> DEFINE m == Min(larger)
             t == [s EXCEPT ![k] = s[m], ![m] = s[k]]
  <2>1. larger \in SUBSET Nat
    BY <1>1 DEF GetClusterWithMaxAvailableResource
  <2>2. m \in larger
    BY <1>6, <2>1, SmallestOf
  <2>3. Replaced(a, n, s, k) = t
    BY <1>6 DEF Replaced
  <2> HIDE DEF m
  <2>4. m \in (n + 1)..N /\ room(m) > room(k) /\ \A j \in (n + 1)..N : room(j) <= room(m)
    BY <2>2 DEF GetClusterWithMaxAvailableResource
  <2>5. m \in 1..N /\ k \in 1..N /\ m # k /\ m > n
    BY <1>1, <2>4
  <2>6. /\ t \in [1..N -> a.feasible] /\ t[k] = s[m] /\ t[m] = s[k]
        /\ \A i \in 1..N : i # k /\ i # m => t[i] = s[i]
    BY <1>2, <2>5
  <2> HIDE DEF t
  <2>7. Order(a, t)
    <3>1. ASSUME NEW i \in 1..N, NEW j \in 1..N, t[i] = t[j] PROVE i = j
      BY <1>2, <2>5, <2>6, <3>1
    <3> QED
      BY <2>6, <3>1 DEF Order
  <2>8. ASSUME NEW i \in k..n, NEW j \in (n + 1)..N
        PROVE  a.available[t[j]] <= a.available[t[i]]
    <3>1. i \in 1..N /\ j \in 1..N /\ i # m /\ j # k /\ i <= n
      BY <1>1, <2>5
    <3>2. t[i] = (IF i = k THEN s[m] ELSE s[i]) /\ t[j] = (IF j = m THEN s[k] ELSE s[j])
      BY <2>6, <3>1
    <3>3. \A h \in (n + 1)..N : room(h) <= (IF i = k THEN room(m) ELSE room(i))
      <4>1. CASE i = k
        BY <2>4, <4>1
      <4>2. CASE i # k
        <5>1. i \in (k + 1)..n
          BY <1>1, <4>2
        <5> QED
          BY <1>6, <4>2, <5>1 DEF Exchanged
      <4> QED
        BY <4>1, <4>2
    <3>4. a.available[t[i]] = (IF i = k THEN room(m) ELSE room(i))
          /\ a.available[t[j]] = (IF j = m THEN room(k) ELSE room(j))
      BY <3>2
    <3>5. /\ room(i) \in Nat /\ room(j) \in Nat /\ room(k) \in Nat /\ room(m) \in Nat
      BY <1>3, <2>5, <3>1
    <3>6. /\ room(j) <= (IF i = k THEN room(m) ELSE room(i))
          /\ room(m) <= (IF i = k THEN room(m) ELSE room(i))
          /\ room(m) > room(k)
      BY <2>4, <3>3
    <3> HIDE DEF room
    <3> QED
      BY <3>4, <3>5, <3>6
  <2> QED
    BY <2>3, <2>7, <2>8 DEF Exchanged
<1> QED
  BY <1>4, <1>5, <1>6

\* f is the loop of selectClustersByAvailableResource, from the last selected
\* cluster to the first.
Afters(a, n, f) ==
    f = [k \in 1..(n + 1) |-> IF k = n + 1 THEN Sorted(a) ELSE Replaced(a, n, f[k + 1], k)]

\* The loop over the first n clusters, as a function of the place it has reached.
LEMMA AftersExist ==
    ASSUME NEW a, NEW n \in Nat
    PROVE  \E f : Afters(a, n, f)
<1> DEFINE body(f, k) == IF k = n + 1 THEN Sorted(a) ELSE Replaced(a, n, f[k + 1], k)
           Right(f, i) == \A k \in 1..(n + 1) : n + 1 - k <= i => f[k] = body(f, k)
           G == {i \in Nat : \E f : Right(f, i)}
<1>1. 0 \in G
  <2> DEFINE f == [k \in 1..(n + 1) |-> Sorted(a)]
  <2>1. ASSUME NEW k \in 1..(n + 1), n + 1 - k <= 0 PROVE f[k] = body(f, k)
    <3>1. k = n + 1
      BY <2>1
    <3> QED
      BY <3>1
  <2>2. Right(f, 0)
    BY <2>1
  <2> HIDE DEF f, Right
  <2> QED
    BY <2>2
<1>2. ASSUME NEW i \in Nat, i \in G PROVE i + 1 \in G
  <2>1. PICK g : Right(g, i)
    BY <1>2
  <2> DEFINE h == [k \in 1..(n + 1) |-> IF n + 1 - k = i + 1 THEN body(g, k) ELSE g[k]]
  <2>2. ASSUME NEW k \in 1..(n + 1), n + 1 - k <= i + 1 PROVE h[k] = body(h, k)
    <3>1. CASE k = n + 1
      <4>1. n + 1 - k # i + 1 /\ n + 1 - k <= i
        BY <3>1
      <4>2. h[k] = g[k] /\ g[k] = body(g, k)
        BY <2>1, <4>1
      <4> QED
        BY <3>1, <4>2
    <3>2. CASE k # n + 1
      <4>1. k + 1 \in 1..(n + 1) /\ n + 1 - (k + 1) # i + 1
        BY <2>2, <3>2
      <4>2. h[k + 1] = g[k + 1]
        BY <4>1
      <4>3. h[k] = body(g, k)
        <5>1. CASE n + 1 - k = i + 1
          BY <5>1
        <5>2. CASE n + 1 - k # i + 1
          <6>1. n + 1 - k <= i
            BY <2>2, <5>2
          <6>2. h[k] = g[k]
            BY <5>2
          <6> QED
            BY <2>1, <6>1, <6>2
        <5> QED
          BY <5>1, <5>2
      <4>4. body(g, k) = Replaced(a, n, g[k + 1], k) /\ body(h, k) = Replaced(a, n, h[k + 1], k)
        BY <3>2
      <4> HIDE DEF h, body
      <4> QED
        BY <4>2, <4>3, <4>4
    <3> QED
      BY <3>1, <3>2
  <2>3. Right(h, i + 1)
    BY <2>2
  <2> HIDE DEF h, Right
  <2> QED
    BY <2>3
<1> HIDE DEF G
<1>3. n \in G
  BY <1>1, <1>2, EveryNumber
<1>4. PICK f : Right(f, n)
  BY <1>3 DEF G
<1> DEFINE r == [k \in 1..(n + 1) |-> f[k]]
<1>5. ASSUME NEW k \in 1..(n + 1) PROVE f[k] = body(r, k)
  <2>1. n + 1 - k <= n
    OBVIOUS
  <2>2. f[k] = body(f, k)
    BY <1>4, <2>1
  <2>3. k # n + 1 => r[k + 1] = f[k + 1]
    <3>1. k # n + 1 => k + 1 \in 1..(n + 1)
      OBVIOUS
    <3> QED
      BY <3>1
  <2> QED
    BY <2>2, <2>3
<1>6. r = [k \in 1..(n + 1) |-> body(r, k)]
  <2>1. \A k \in 1..(n + 1) : r[k] = body(r, k)
    BY <1>5
  <2> HIDE DEF body
  <2> QED
    BY <1>5
<1>7. Afters(a, n, r)
  BY <1>6 DEF Afters
<1> HIDE DEF r
<1> QED
  BY <1>7

\* The first n clusters in an order such that they have room or are the largest.
LEMMA SelectedOrder ==
    ASSUME NEW a \in Arguments, NEW n \in Nat, n <= Cardinality(a.feasible)
    PROVE  \E s : /\ Order(a, s) /\ Exchanged(a, n, s, 1)
                  /\ selectClustersByAvailableResource(a, n) = First(s, n)
<1> DEFINE after == CHOOSE f : Afters(a, n, f)
<1>1. Afters(a, n, after)
  BY AftersExist
<1>2. selectClustersByAvailableResource(a, n) = First(after[1], n)
  BY DEF selectClustersByAvailableResource, Afters
<1> HIDE DEF after
<1> DEFINE G == {i \in Nat : i <= n => /\ Order(a, after[n + 1 - i])
                                       /\ Exchanged(a, n, after[n + 1 - i], n + 1 - i)}
<1>3. 0 \in G
  <2>1. n + 1 - 0 = n + 1
    OBVIOUS
  <2>2. after[n + 1] = Sorted(a)
    BY <1>1 DEF Afters
  <2>3. Exchanged(a, n, after[n + 1], n + 1)
    BY DEF Exchanged
  <2>4. Order(a, after[n + 1])
    BY <2>2, SortedIsOrder
  <2> QED
    BY <2>1, <2>3, <2>4
<1>4. ASSUME NEW i \in Nat, i \in G PROVE i + 1 \in G
  <2> SUFFICES ASSUME i + 1 <= n
               PROVE  /\ Order(a, after[n + 1 - (i + 1)])
                      /\ Exchanged(a, n, after[n + 1 - (i + 1)], n + 1 - (i + 1))
    OBVIOUS
  <2> DEFINE k == n + 1 - (i + 1)
  <2>1. k \in 1..n /\ k \in 1..(n + 1) /\ k # n + 1 /\ k + 1 = n + 1 - i /\ i <= n
    OBVIOUS
  <2>2. Order(a, after[n + 1 - i]) /\ Exchanged(a, n, after[n + 1 - i], n + 1 - i)
    BY <1>4, <2>1
  <2> HIDE DEF k
  <2>3. Order(a, after[k + 1]) /\ Exchanged(a, n, after[k + 1], k + 1)
    BY <2>1, <2>2
  <2>4. after[k] = Replaced(a, n, after[k + 1], k)
    BY <1>1, <2>1 DEF Afters
  <2>5. Order(a, after[k]) /\ Exchanged(a, n, after[k], k)
    BY <2>1, <2>3, <2>4, ReplacedFacts
  <2> QED
    BY <2>5 DEF k
<1> HIDE DEF G
<1>5. n \in G
  BY <1>3, <1>4, EveryNumber
<1>6. n + 1 - n = 1
  OBVIOUS
<1>7. Order(a, after[n + 1 - n]) /\ Exchanged(a, n, after[n + 1 - n], n + 1 - n)
  BY <1>5 DEF G
<1>8. Order(a, after[1]) /\ Exchanged(a, n, after[1], 1)
  BY <1>6, <1>7
<1> QED
  BY <1>2, <1>8

\* The invariant of a division by the Webster method.
WInv ==
    /\ IsDivision(party)
    /\ Balanced
    /\ FullTogether

-----------------------------------------------------------------------------
(***************************************************************************)
(* The Webster method.                                                     *)
(***************************************************************************)
\* A product does not grow when a factor shrinks.
LEMMA TimesLess ==
    ASSUME NEW a \in Nat, NEW b \in Int, NEW c \in Int, b <= c
    PROVE  a * b <= a * c
  <1>1. PICK d \in Nat : c = b + d
    <2>1. c - b \in Nat /\ c = b + (c - b)
      OBVIOUS
    <2> QED
      BY <2>1
  <1>2. a * c = a * b + a * d
    BY <1>1
  <1>3. a * d >= 0
    BY <1>1
  <1>4. a * b \in Int /\ a * d \in Int
    BY <1>1
  <1> QED
    BY <1>2, <1>3, <1>4

\* One more seat lowers the quotient: what was entitled still is.
LEMMA SeatLowersQuotient ==
    ASSUME NEW vp \in Nat, NEW vq \in Nat, NEW sp \in Nat, NEW sq \in Nat,
           vq * (2 * sp + 1) >= vp * (2 * sq - 1)
    PROVE  vq * (2 * (sp + 1) + 1) >= vp * (2 * sq - 1)
  <1>1. vq * (2 * sp + 1) <= vq * (2 * (sp + 1) + 1)
    BY TimesLess, 2 * sp + 1 \in Int, 2 * (sp + 1) + 1 \in Int, 2 * sp + 1 <= 2 * (sp + 1) + 1
  <1>2. vq * (2 * sp + 1) \in Int /\ vq * (2 * (sp + 1) + 1) \in Int /\ vp * (2 * sq - 1) \in Int
    OBVIOUS
  <1> QED
    BY <1>1, <1>2

\* A party at its votes has a lower quotient than one below them.
LEMMA FullGoesLast ==
    ASSUME NEW vp \in Nat, NEW vq \in Nat, NEW sp \in Nat, NEW sq \in Nat,
           vp * (2 * sq + 1) >= vq * (2 * sp + 1),
           sp >= vp
    PROVE  sq >= vq
  <1> SUFFICES ASSUME sq < vq
               PROVE  FALSE
    OBVIOUS
  <1>1. vp * (2 * sq + 1) <= vp * (2 * vq - 1)
    BY TimesLess, 2 * sq + 1 \in Int, 2 * vq - 1 \in Int, 2 * sq + 1 <= 2 * vq - 1
  <1>2. vq * (2 * vp + 1) <= vq * (2 * sp + 1)
    BY TimesLess, 2 * vp + 1 \in Int, 2 * sp + 1 \in Int, 2 * vp + 1 <= 2 * sp + 1
  <1>3. /\ vp * (2 * vq - 1) = 2 * (vp * vq) - vp
        /\ vq * (2 * vp + 1) = 2 * (vp * vq) + vq
    OBVIOUS
  <1>4. /\ vp * vq \in Int
        /\ vp * (2 * sq + 1) \in Int
        /\ vq * (2 * sp + 1) \in Int
    OBVIOUS
  <1>5. 2 * (vp * vq) + vq <= 2 * (vp * vq) - vp
    BY <1>1, <1>2, <1>3, <1>4
  <1>6. vq <= 0 - vp
    BY <1>5, <1>4
  <1> QED
    BY <1>6

\* A division that has not begun is balanced.
LEMMA BegunBalanced ==
    ASSUME IsDivision(party), \A c \in DOMAIN party.votes : party.seats[c] = 0
    PROVE  Balanced /\ FullTogether
  <1>1. Balanced
    BY DEF Balanced, IsDivision
  <1>2. FullTogether
    <2> SUFFICES ASSUME NoDebts, NEW p \in DOMAIN party.votes
                 PROVE  ~(party.seats[p] > party.votes[p])
      BY DEF FullTogether
    <2>1. party.votes[p] \in Int /\ party.votes[p] >= 0 /\ party.seats[p] = 0
      BY DEF NoDebts, IsDivision
    <2> QED
      BY <2>1
  <1> QED
    BY <1>1, <1>2

\* The head of the queue has the highest quotient.
LEMMA HeadIsHighest ==
    ASSUME IsDivision(party),
           NEW p \in DOMAIN party.votes, NEW q \in DOMAIN party.votes,
           p # q => Less(p, q)
    PROVE  party.votes[p] * (2 * party.seats[q] + 1)
              >= party.votes[q] * (2 * party.seats[p] + 1)
  <1>1. /\ party.votes[p] \in Int /\ party.votes[q] \in Int
        /\ party.seats[p] \in Nat /\ party.seats[q] \in Nat
    BY DEF IsDivision
  <1>2. /\ party.votes[p] * (2 * party.seats[q] + 1) \in Int
        /\ party.votes[q] * (2 * party.seats[p] + 1) \in Int
    BY <1>1
  <1>3. CASE p = q
    BY <1>2, <1>3
  <1>4. CASE p # q
    BY <1>2, <1>4 DEF Less
  <1> QED
    BY <1>3, <1>4

\* Giving a seat keeps the division balanced.
LEMMA SeatKeeps ==
    ASSUME WInv, AllocateSeat
    PROVE  WInv'
  <1>1. PICK p \in DOMAIN party.votes :
          /\ \A q \in DOMAIN party.votes \ {p} : Less(p, q)
          /\ party' = [party EXCEPT !.seats[p] = @ + 1, !.left = @ - 1]
    BY DEF AllocateSeat
  <1>2. /\ party'.votes = party.votes
        /\ party'.seats = [party.seats EXCEPT ![p] = @ + 1]
        /\ party'.left = party.left - 1
        /\ DOMAIN party' = DOMAIN party
    BY <1>1 DEF WInv, IsDivision
  <1>3. /\ party'.seats[p] = party.seats[p] + 1
        /\ \A q \in DOMAIN party.votes \ {p} : party'.seats[q] = party.seats[q]
    BY <1>2 DEF WInv, IsDivision
  <1>4. IsDivision(party')
    <2>1. party.left > 0 /\ party.left \in Nat
      BY DEF AllocateSeat, WInv, IsDivision
    <2>2. party'.seats \in [DOMAIN party.votes -> Nat]
      BY <1>2 DEF WInv, IsDivision
    <2> QED
      BY <1>2, <2>1, <2>2 DEF WInv, IsDivision
  <1>5. NoDebts' = NoDebts
    BY <1>2 DEF NoDebts
  <1>6. ASSUME NoDebts, NEW q \in DOMAIN party.votes
        PROVE  /\ party.votes[q] \in Nat /\ party.seats[q] \in Nat
               /\ party.votes[p] \in Nat /\ party.seats[p] \in Nat
               /\ party.votes[p] * (2 * party.seats[q] + 1)
                     >= party.votes[q] * (2 * party.seats[p] + 1)
    <2>1. /\ party.votes[q] \in Nat /\ party.seats[q] \in Nat
          /\ party.votes[p] \in Nat /\ party.seats[p] \in Nat
      BY <1>6 DEF NoDebts, WInv, IsDivision
    <2>2. p # q => Less(p, q)
      BY <1>1
    <2> QED
      BY <2>1, <2>2, HeadIsHighest DEF WInv
  <1>7. Balanced'
    <2> SUFFICES ASSUME NoDebts, NEW a \in DOMAIN party.votes, NEW b \in DOMAIN party.votes,
                        party'.seats[a] > 0
                 PROVE  party.votes[a] * (2 * party'.seats[b] + 1)
                           >= party.votes[b] * (2 * party'.seats[a] - 1)
      BY <1>2, <1>5 DEF Balanced
    <2>0. /\ party.votes[a] \in Nat /\ party.seats[a] \in Nat
          /\ party.votes[b] \in Nat /\ party.seats[b] \in Nat
      BY <1>6
    <2>1. CASE a = p /\ b = p
      <3>1. party'.seats[a] = party.seats[a] + 1 /\ party'.seats[b] = party.seats[a] + 1
        BY <1>3, <2>1
      <3>2. /\ 2 * (party.seats[a] + 1) - 1 \in Int
            /\ 2 * (party.seats[a] + 1) + 1 \in Int
            /\ 2 * (party.seats[a] + 1) - 1 <= 2 * (party.seats[a] + 1) + 1
        BY <2>0
      <3>3. party.votes[a] * (2 * (party.seats[a] + 1) - 1)
               <= party.votes[a] * (2 * (party.seats[a] + 1) + 1)
        BY <2>0, <3>2, TimesLess
      <3> QED
        BY <3>1, <3>3, <2>0, <2>1
    <2>2. CASE a = p /\ b # p
      <3>1. party'.seats[a] = party.seats[p] + 1 /\ party'.seats[b] = party.seats[b]
        BY <1>3, <2>2
      <3>2. 2 * (party.seats[p] + 1) - 1 = 2 * party.seats[p] + 1
        BY <2>0, <2>2
      <3>3. party.votes[p] * (2 * party.seats[b] + 1)
               >= party.votes[b] * (2 * party.seats[p] + 1)
        BY <1>6
      <3> QED
        BY <3>1, <3>2, <3>3, <2>2
    <2>3. CASE a # p /\ b = p
      <3>1. party'.seats[a] = party.seats[a] /\ party'.seats[b] = party.seats[p] + 1
        BY <1>3, <2>3
      <3>2. party.votes[a] * (2 * party.seats[b] + 1)
               >= party.votes[b] * (2 * party.seats[a] - 1)
        BY <3>1 DEF WInv, Balanced
      <3>3. party.votes[a] * (2 * (party.seats[b] + 1) + 1)
               >= party.votes[b] * (2 * party.seats[a] - 1)
        BY <2>0, <3>2, SeatLowersQuotient
      <3> QED
        BY <3>1, <3>3, <2>3
    <2>4. CASE a # p /\ b # p
      <3>1. party'.seats[a] = party.seats[a] /\ party'.seats[b] = party.seats[b]
        BY <1>3, <2>4
      <3> QED
        BY <3>1 DEF WInv, Balanced
    <2> QED
      BY <2>1, <2>2, <2>3, <2>4
  <1>8. FullTogether'
    <2> SUFFICES ASSUME NoDebts, NEW a \in DOMAIN party.votes, NEW b \in DOMAIN party.votes,
                        party'.seats[a] > party.votes[a]
                 PROVE  party'.seats[b] >= party.votes[b]
      BY <1>2, <1>5 DEF FullTogether
    <2>0. /\ party.votes[a] \in Nat /\ party.seats[a] \in Nat
          /\ party.votes[b] \in Nat /\ party.seats[b] \in Nat
      BY <1>6
    <2>1. party'.seats[b] >= party.seats[b] /\ party'.seats[b] \in Int
      BY <1>3, <2>0
    <2>2. SUFFICES party.seats[b] >= party.votes[b]
                   \/ party'.seats[b] >= party.votes[b]
      BY <2>0, <2>1
    <2>3. CASE party.seats[a] > party.votes[a]
      BY <2>3 DEF WInv, FullTogether
    <2>4. CASE ~(party.seats[a] > party.votes[a])
      <3>1. a = p /\ party.seats[p] >= party.votes[p]
        BY <1>3, <2>0, <2>4
      <3>2. party.votes[p] * (2 * party.seats[b] + 1)
               >= party.votes[b] * (2 * party.seats[p] + 1)
        BY <1>6
      <3> QED
        BY <3>1, <3>2, <2>0, FullGoesLast
    <2> QED
      BY <2>3, <2>4
  <1> QED
    BY <1>4, <1>7, <1>8 DEF WInv

\* The invariant of every division.
THEOREM WebsterInvariance == WebsterSpec => []WInv
  <1>1. WebsterInit => WInv
    <2> SUFFICES ASSUME WebsterInit
                 PROVE  WInv
      OBVIOUS
    <2>1. DOMAIN party = {"votes", "seats", "left"} /\ DOMAIN party.votes = {} /\ party.left = 0
      BY DEF WebsterInit, NoDivision, Division
    <2>2. IsDivision(party)
      BY <2>1 DEF WebsterInit, NoDivision, Division, IsDivision
    <2> QED
      BY <2>1, <2>2, BegunBalanced DEF WInv
  <1>2. WInv /\ [AllocateSeat \/ Apportion]_party => WInv'
    <2> SUFFICES ASSUME WInv, [AllocateSeat \/ Apportion]_party
                 PROVE  WInv'
      OBVIOUS
    <2>1. CASE AllocateSeat
      BY <2>1, SeatKeeps
    <2>2. CASE Apportion
      <3>1. IsDivision(party')
        BY <2>2 DEF Apportion
      <3>2. \A c \in DOMAIN party'.votes : party'.seats[c] = 0
        BY <2>2 DEF Apportion
      <3>3. Balanced'
        BY <3>1, <3>2 DEF Balanced, IsDivision
      <3>4. FullTogether'
        <4> SUFFICES ASSUME NoDebts', NEW p \in DOMAIN party'.votes
                     PROVE  ~(party'.seats[p] > party'.votes[p])
          BY DEF FullTogether
        <4>1. party'.votes[p] \in Int /\ party'.votes[p] >= 0 /\ party'.seats[p] = 0
          BY <3>1, <3>2 DEF NoDebts, IsDivision
        <4> QED
          BY <4>1
      <3> QED
        BY <3>1, <3>3, <3>4 DEF WInv
    <2>3. CASE UNCHANGED party
      BY <2>3 DEF WInv, Balanced, FullTogether, NoDebts, IsDivision
    <2> QED
      BY <2>1, <2>2, <2>3
  <1> QED
    BY <1>1, <1>2, PTL DEF WebsterSpec

\* AllocateWebsterSeats divides as the Webster method does: at no point would a
\* cluster have been better entitled to the last replica of another.
THEOREM WebsterIsBalanced == WebsterSpec => []Balanced
  <1>1. WInv => Balanced
    BY DEF WInv
  <1> QED
    BY <1>1, WebsterInvariance, PTL

\* AllocateWebsterSeats gives no cluster more than its weight while another has
\* less than its own: with the room as the weight and no more replicas than room,
\* no cluster is overcommitted.
THEOREM WebsterFillsTogether == WebsterSpec => []FullTogether
  <1>1. WInv => FullTogether
    BY DEF WInv
  <1> QED
    BY <1>1, WebsterInvariance, PTL

\* The sum of values from a bound on.
LEMMA SumAtLeast ==
    ASSUME NEW S, IsFiniteSet(S), NEW f, NEW b \in Nat,
           \A x \in S : f[x] \in Nat /\ b <= f[x]
    PROVE  b * Cardinality(S) <= Sum(f, S)
<1> DEFINE G == {T \in SUBSET S : b * Cardinality(T) <= Sum(f, T)}
<1>1. {} \in G
  BY SumEmpty, FS_EmptySet
<1>2. ASSUME NEW T \in SUBSET S, NEW x \in S \ T, T \in G PROVE T \cup {x} \in G
  <2>1. IsFiniteSet(T) /\ x \notin T
    BY FS_Subset
  <2>2. Sum(f, T \cup {x}) = Sum(f, T) + f[x]
    BY SumStep
  <2>3. Cardinality(T \cup {x}) = Cardinality(T) + 1
    BY <2>1, FS_AddElement
  <2>4. Sum(f, T) \in Nat /\ Cardinality(T) \in Nat /\ f[x] \in Nat /\ b <= f[x]
    BY <2>1, SumNat, FS_CardinalityType
  <2>5. b * (Cardinality(T) + 1) = b * Cardinality(T) + b /\ b * Cardinality(T) \in Nat
    BY <2>4
  <2>6. b * Cardinality(T) <= Sum(f, T)
    BY <1>2
  <2>7. b * Cardinality(T \cup {x}) <= Sum(f, T \cup {x})
    BY <2>2, <2>3, <2>4, <2>5, <2>6
  <2> QED
    BY <2>7
<1> HIDE DEF G
<1>3. S \in G
  BY <1>1, <1>2, EverySubset
<1> QED
  BY <1>3 DEF G

\* No fewer elements, each no smaller than the others, have no smaller sum.
LEMMA SumLargest ==
    ASSUME NEW A, NEW B, IsFiniteSet(A), IsFiniteSet(B), Cardinality(B) <= Cardinality(A),
           NEW f, \A x \in A \cup B : f[x] \in Nat,
           \A x \in A \ B, y \in B \ A : f[y] <= f[x]
    PROVE  Sum(f, B) <= Sum(f, A)
<1> DEFINE P == A \ B
           Q == B \ A
           I == A \cap B
<1>1. /\ IsFiniteSet(P) /\ IsFiniteSet(Q) /\ IsFiniteSet(I)
      /\ Cardinality(Q) <= Cardinality(P)
      /\ Cardinality(P) \in Nat /\ Cardinality(Q) \in Nat
  <2>1. IsFiniteSet(P) /\ Cardinality(P) = Cardinality(A) - Cardinality(A \cap B)
    BY FS_Difference
  <2>2. IsFiniteSet(Q) /\ Cardinality(Q) = Cardinality(B) - Cardinality(B \cap A)
    BY FS_Difference
  <2>3. IsFiniteSet(I)
    BY FS_Intersection
  <2>4. Cardinality(A \cap B) = Cardinality(B \cap A)
    <3>1. A \cap B = B \cap A
      OBVIOUS
    <3> QED
      BY <3>1, Zenon
  <2>5. Cardinality(P) \in Nat /\ Cardinality(Q) \in Nat /\ Cardinality(A) \in Nat
        /\ Cardinality(B) \in Nat /\ Cardinality(A \cap B) \in Nat
    BY <2>1, <2>2, <2>3, FS_CardinalityType
  <2> HIDE DEF P, Q
  <2> QED
    BY <2>1, <2>2, <2>3, <2>4, <2>5
<1>2. Sum(f, P) \in Nat /\ Sum(f, Q) \in Nat /\ Sum(f, I) \in Nat
  BY <1>1, SumNat
<1>3. Sum(f, A) = Sum(f, I) + Sum(f, P)
  <2>1. I \cup P = A /\ I \cap P = {} /\ \A x \in I \cup P : f[x] \in Int
    OBVIOUS
  <2>2. Sum(f, I \cup P) = Sum(f, I) + Sum(f, P)
    BY <1>1, <2>1, SumUnion
  <2> QED
    BY <2>1, <2>2, Zenon
<1>4. Sum(f, B) = Sum(f, I) + Sum(f, Q)
  <2>1. I \cup Q = B /\ I \cap Q = {} /\ \A x \in I \cup Q : f[x] \in Int
    OBVIOUS
  <2>2. Sum(f, I \cup Q) = Sum(f, I) + Sum(f, Q)
    BY <1>1, <2>1, SumUnion
  <2> QED
    BY <2>1, <2>2, Zenon
<1>5. Sum(f, Q) <= Sum(f, P)
  <2>1. CASE P = {}
    <3>1. Q = {}
      <4>1. Cardinality(P) = 0
        BY <2>1, FS_EmptySet
      <4>2. Cardinality(Q) = 0
        BY <1>1, <4>1
      <4> QED
        BY <1>1, <4>2, FS_EmptySet
    <3>2. Sum(f, Q) = 0
      BY <3>1, SumEmpty
    <3> QED
      BY <1>2, <3>2
  <2>2. CASE P # {}
    <3> DEFINE V == {f[x] : x \in P}
    <3>1. V \in SUBSET Nat /\ V # {}
      BY <2>2
    <3>2. PICK b \in V : \A v \in V : b <= v
      BY <3>1, Least
    <3>3. b \in Nat /\ \A x \in P : f[x] \in Nat /\ b <= f[x]
      BY <3>2
    <3>4. PICK z \in P : b = f[z]
      BY <3>2
    <3>5. \A y \in Q : f[y] \in Nat /\ f[y] <= b
      BY <3>4
    <3>6. b * Cardinality(P) <= Sum(f, P)
      BY <1>1, <3>3, SumAtLeast
    <3>7. Sum(f, Q) <= b * Cardinality(Q)
      BY <1>1, <3>3, <3>5, SumBound
    <3>8. b * Cardinality(Q) <= b * Cardinality(P)
      <4>1. Cardinality(Q) \in Int /\ Cardinality(P) \in Int
        BY <1>1
      <4> QED
        BY <1>1, <3>3, <4>1, TimesLess
    <3>9. b * Cardinality(P) \in Nat /\ b * Cardinality(Q) \in Nat
      BY <1>1, <3>3
    <3> QED
      BY <1>2, <3>6, <3>7, <3>8, <3>9
  <2> QED
    BY <2>1, <2>2
<1> HIDE DEF P, Q, I
<1> QED
  BY <1>2, <1>3, <1>4, <1>5

\* The number of clusters a spread constraint asks for.
LEMMA NeedCount ==
    ASSUME NEW a \in Arguments
    PROVE  /\ needCnt(a) \in Nat /\ needCnt(a) <= Cardinality(a.feasible)
           /\ a.placement.maxGroups # 0 /\ a.feasible # {} => needCnt(a) > 0
<1>1. /\ Cardinality(a.feasible) \in Nat /\ a.placement.maxGroups \in Nat
      /\ IsFiniteSet(a.feasible)
  BY ArgumentTypes DEF Placement
<1>2. needCnt(a) = IF Cardinality(a.feasible) <= a.placement.maxGroups
                   THEN Cardinality(a.feasible) ELSE a.placement.maxGroups
  BY <1>1, SmallerOf DEF needCnt
<1>3. a.feasible # {} => Cardinality(a.feasible) # 0
  BY <1>1, FS_EmptySet
<1> QED
  BY <1>1, <1>2, <1>3

\* Only clusters that passed the filters are selected.
LEMMA SelectedIsFeasible ==
    ASSUME NEW a \in Arguments
    PROVE  SelectBestClusters(a) \in SUBSET a.feasible
<1> DEFINE n == needCnt(a)
<1>1. n \in Nat /\ n <= Cardinality(a.feasible) /\ Cardinality(a.feasible) \in Nat
  BY NeedCount, ArgumentTypes
<1>2. n \in 0..Cardinality(a.feasible)
  BY <1>1
<1>3. First(Sorted(a), n) \in SUBSET a.feasible
  BY <1>2, SortedIsOrder, FirstFacts
<1>4. selectClustersByAvailableResource(a, n) \in SUBSET a.feasible
  <2>1. PICK s : Order(a, s) /\ selectClustersByAvailableResource(a, n) = First(s, n)
    BY <1>1, SelectedOrder
  <2>2. First(s, n) \in SUBSET a.feasible
    BY <1>2, <2>1, FirstFacts
  <2> QED
    BY <2>1, <2>2
<1> HIDE DEF n
<1> QED
  BY <1>3, <1>4 DEF SelectBestClusters, n

\* selectClustersByAvailableResource finds room for the replicas if as many
\* clusters have it anywhere.
LEMMA SelectionIsBest ==
    ASSUME NEW a \in Arguments, NEW n \in Nat, n <= Cardinality(a.feasible),
           ~checkAvailableResource(a, selectClustersByAvailableResource(a, n)),
           NEW K \in SUBSET a.feasible, Cardinality(K) = n
    PROVE  Sum(a.available, K) < a.replicas
<1> DEFINE N == Cardinality(a.feasible)
<1>1. /\ N \in Nat /\ a.feasible \in SUBSET Clusters /\ a.available \in [Clusters -> Nat]
      /\ IsFiniteSet(a.feasible) /\ a.replicas \in Nat
  BY ArgumentTypes
<1>2. PICK s : /\ Order(a, s) /\ Exchanged(a, n, s, 1)
               /\ selectClustersByAvailableResource(a, n) = First(s, n)
  BY SelectedOrder
<1> DEFINE A == First(s, n)
<1>3. /\ A \in SUBSET a.feasible /\ IsFiniteSet(A) /\ Cardinality(A) = n
      /\ \A c \in a.feasible \ A : \E j \in (n + 1)..N : s[j] = c
  <2>1. n \in 0..N
    BY <1>1
  <2> QED
    BY <1>2, <2>1, FirstFacts
<1>4. \A i \in 1..n, j \in (n + 1)..N : a.available[s[j]] <= a.available[s[i]]
  BY <1>2 DEF Exchanged
<1>5. ASSUME NEW x \in A \ K, NEW y \in K \ A PROVE a.available[y] <= a.available[x]
  <2>1. PICK i \in 1..n : x = s[i]
    BY DEF First
  <2>2. PICK j \in (n + 1)..N : s[j] = y
    BY <1>3
  <2> QED
    BY <1>4, <2>1, <2>2
<1>6. IsFiniteSet(K) /\ \A x \in A \cup K : a.available[x] \in Nat
  BY <1>1, <1>3, FS_Subset
<1> HIDE DEF A
<1>7. Sum(a.available, K) <= Sum(a.available, A)
  <2>1. Cardinality(K) <= Cardinality(A)
    BY <1>3
  <2> QED
    BY <1>3, <1>5, <1>6, <2>1, SumLargest
<1>8. Sum(a.available, A) \in Nat /\ Sum(a.available, K) \in Nat
  BY <1>3, <1>6, SumNat
<1>9. ~(Sum(a.available, A) >= a.replicas)
  BY <1>2 DEF checkAvailableResource, A
<1> QED
  BY <1>1, <1>7, <1>8, <1>9

\* No choice of clusters the placement allows has room.
NoRoom(a) ==
    \/ a.feasible = {}
    \/ Spread(a) /\ Cardinality(a.feasible) < a.placement.minGroups
    \/ Spread(a) /\ a.placement.maxGroups = 0
    \/ /\ \/ a.placement.strategy \in Dynamic
          \/ a.placement.strategy = "StaticWeight" /\ Spread(a)
       /\ \A K \in SUBSET a.feasible :
             Cardinality(K) = (IF Spread(a) THEN needCnt(a) ELSE Cardinality(a.feasible))
                => Sum(a.available, K) < a.replicas

\* Nothing is selected only when there is no room.
LEMMA EmptySelectionNoRoom ==
    ASSUME NEW a \in Arguments, SelectBestClusters(a) = {}
    PROVE  NoRoom(a)
<1> SUFFICES ASSUME a.feasible # {},
                    ~(Spread(a) /\ Cardinality(a.feasible) < a.placement.minGroups),
                    ~(Spread(a) /\ a.placement.maxGroups = 0)
             PROVE  /\ \/ a.placement.strategy \in Dynamic
                       \/ a.placement.strategy = "StaticWeight" /\ Spread(a)
                    /\ \A K \in SUBSET a.feasible :
                          Cardinality(K) = (IF Spread(a) THEN needCnt(a)
                                            ELSE Cardinality(a.feasible))
                             => Sum(a.available, K) < a.replicas
  BY DEF NoRoom
<1> DEFINE n == needCnt(a)
<1>1. Spread(a) /\ ~(Cardinality(a.feasible) < a.placement.minGroups)
  BY DEF SelectBestClusters
<1>2. n \in Nat /\ n <= Cardinality(a.feasible) /\ n > 0 /\ n \in 0..Cardinality(a.feasible)
  BY <1>1, NeedCount, ArgumentTypes
<1>3. ASSUME NEW s, Order(a, s) PROVE First(s, n) # {}
  <2>1. Cardinality(First(s, n)) = n
    BY <1>2, <1>3, FirstFacts
  <2>2. Cardinality(First(s, n)) # 0
    BY <1>2, <2>1
  <2> QED
    BY <2>2, FS_EmptySet
<1>4. a.placement.strategy # "Duplicated"
  <2>1. First(Sorted(a), n) # {}
    BY <1>3, SortedIsOrder
  <2> QED
    BY <1>1, <2>1 DEF SelectBestClusters
<1>5. a.placement.strategy \in Dynamic \/ a.placement.strategy = "StaticWeight"
  <2>1. a.placement.strategy \in Strategies
    BY ArgumentTypes DEF Placement
  <2> QED
    BY <1>4, <2>1 DEF Strategies
<1>6. selectClustersByAvailableResource(a, n) # {}
  BY <1>2, <1>3, SelectedOrder
<1>7. ~checkAvailableResource(a, selectClustersByAvailableResource(a, n))
  BY <1>1, <1>4, <1>6 DEF SelectBestClusters
<1>8. \A K \in SUBSET a.feasible : Cardinality(K) = n => Sum(a.available, K) < a.replicas
  BY <1>2, <1>7, SelectionIsBest
<1> QED
  BY <1>1, <1>5, <1>8

\* Clusters that cannot take the replicas are selected only when there is no
\* room.
LEMMA SmallSelectionNoRoom ==
    ASSUME NEW a \in Arguments, a.placement.strategy \in Dynamic,
           Sum(a.available, SelectBestClusters(a)) < a.replicas
    PROVE  NoRoom(a)
<1>1. CASE SelectBestClusters(a) = {}
  BY <1>1, EmptySelectionNoRoom
<1>2. CASE SelectBestClusters(a) # {}
  <2>1. /\ IsFiniteSet(a.feasible) /\ a.replicas \in Nat /\ a.feasible \in SUBSET Clusters
        /\ a.available \in [Clusters -> Nat]
    BY ArgumentTypes
  <2>2. IsFiniteSet(SelectBestClusters(a))
    BY <2>1, SelectedIsFeasible, FS_Subset
  <2>3. Sum(a.available, SelectBestClusters(a)) \in Nat
    BY <2>1, <2>2, SelectedIsFeasible, SumNat
  <2>4. ~(Sum(a.available, SelectBestClusters(a)) >= a.replicas)
    BY <2>1, <2>3
  <2>5. ~Spread(a)
    BY <1>2, <2>4 DEF SelectBestClusters, checkAvailableResource, Dynamic
  <2>6. SelectBestClusters(a) = a.feasible
    BY <2>5 DEF SelectBestClusters
  <2>7. ASSUME NEW K \in SUBSET a.feasible, Cardinality(K) = Cardinality(a.feasible)
        PROVE  Sum(a.available, K) < a.replicas
    <3>1. K = a.feasible
      BY <2>1, <2>7, FS_Subset
    <3> QED
      BY <2>6, <3>1
  <2> QED
    BY <2>5, <2>7 DEF NoRoom
<1> QED
  BY <1>1, <1>2

-----------------------------------------------------------------------------
(***************************************************************************)
(* The inductive invariant.                                                *)
(***************************************************************************)
Selected == SelectBestClusters(call)

\* The clusters of the tiers that are divided already.
Passed == Selected \ todo

\* What a cluster can hold: what it has and what its estimators have room for.
Room == call.available

\* A call works on the binding as it is, and int32 sums do not overflow.
CallFits(bound) ==
    /\ \A c \in Clusters : clusters[c] <= bound
    /\ pc # "idle" =>
          /\ call.assigned = clusters
          /\ \A c \in Clusters : Room[c] = call.allocatable[c] + clusters[c]
          /\ call.replicas > 0 => \A c \in Clusters : call.allocatable[c] <= bound

\* The tiers are taken in order, and those that are divided are full.
TiersFit ==
    pc \in {"assign", "divide"} =>
        /\ todo # {} /\ todo \subseteq Selected
        /\ ~call.placement.overflow => todo = Selected
        /\ \A c \in Passed, d \in todo : call.placement.tier[c] < call.placement.tier[d]
        /\ \A c \in Clusters : result[c] = IF c \in Passed THEN Room[c] ELSE 0
        /\ left + Sum(Room, Passed) = call.replicas

\* The seats the tier under way is going to have.
Target == Sum(party.seats, DOMAIN party.votes) + party.left

\* No more seats than votes, and no more votes than room.
TargetFits ==
    \/ Target = 0
    \/ /\ NoDebts
       /\ Target <= Sum(party.votes, DOMAIN party.votes)
       /\ \A c \in DOMAIN party.votes : tier.base[c] + party.votes[c] <= Room[c]

\* A steady division adds to what there is, or takes away from it.
Steady ==
    \/ \A c \in Tier : tier.base[c] >= clusters[c]
    \/ /\ \A c \in Tier : tier.base[c] = 0
       /\ \A c \in DOMAIN party.votes : party.votes[c] <= clusters[c]

\* The tier under way.
TierFits ==
    pc = "divide" =>
        /\ tier.share = TierReplicas
        /\ DOMAIN party.votes \subseteq Tier
        /\ \A c \in Clusters \ Tier : tier.base[c] = 0
        /\ IF call.placement.strategy = "Duplicated"
           THEN DOMAIN party.votes = {} /\ \A c \in Clusters : tier.base[c] <= call.replicas
           ELSE Sum(tier.base, Tier) + Target = tier.share
        /\ call.placement.strategy \in Dynamic =>
              /\ \A c \in Tier : tier.base[c] <= Room[c]
              /\ TargetFits
              /\ ~call.fresh => Steady

\* What is returned.
ResultFits ==
    /\ ExactlyDivided /\ WithinCapacity /\ Undisturbed /\ TiersInOrder /\ PlacedWhenPossible
    /\ pc = "done" => \A c \in Clusters : result[c] <= call.replicas

\* The inductive invariant of ReplicaDivision.
DInv(bound) ==
    /\ TypeOK
    /\ WInv
    /\ pc # "divide" => party.left = 0
    /\ CallFits(bound)
    /\ TiersFit
    /\ TierFits
    /\ ResultFits

-----------------------------------------------------------------------------
(***************************************************************************)
(* int32 arithmetic and the tier under way.                                *)
(***************************************************************************)
LEMMA WrapSmall ==
    ASSUME NEW n \in Int, 0 - MaxInt32 <= n, n <= MaxInt32
    PROVE  Wrap(n) = n
<1>1. MaxInt32 \in Nat
  BY DivisionAssumption
<1> DEFINE m == n + MaxInt32 + 1
           k == 2 * (MaxInt32 + 1)
<1>2. m \in Nat /\ k \in Nat /\ m < k /\ m - (MaxInt32 + 1) = n
  BY <1>1
<1>3. m % k = m
  <2> HIDE DEF m, k
  <2> QED
    BY <1>2
<1> QED
  BY <1>2, <1>3 DEF Wrap

\* An int32 is an integer.
LEMMA WrapInt ==
    ASSUME NEW n \in Int
    PROVE  Wrap(n) \in Int
<1>1. MaxInt32 \in Nat
  BY DivisionAssumption
<1>2. 2 * (MaxInt32 + 1) \in Nat /\ 2 * (MaxInt32 + 1) > 0 /\ n + MaxInt32 + 1 \in Int
  BY <1>1
<1>3. (n + MaxInt32 + 1) % (2 * (MaxInt32 + 1)) \in Int
  BY <1>2
<1> QED
  BY <1>1, <1>3 DEF Wrap

\* The sum of what fits is exact.
LEMMA SumFits ==
    ASSUME NEW bound, Fits(bound), NEW S \in SUBSET Clusters, NEW f,
           \A c \in S : f[c] \in Nat /\ f[c] <= 2 * bound
    PROVE  /\ Sum(f, S) \in Nat /\ Sum(f, S) <= MaxInt32
           /\ GetSumOfReplicas(f, S) = Sum(f, S)
<1>1. /\ IsFiniteSet(Clusters) /\ IsFiniteSet(S) /\ bound \in Nat /\ 2 * bound \in Nat
      /\ MaxInt32 \in Nat
  BY DivisionAssumption, FS_Subset DEF Fits
<1>2. /\ Cardinality(S) \in Nat /\ Cardinality(Clusters) \in Nat
      /\ Cardinality(S) <= Cardinality(Clusters)
  BY <1>1, FS_Subset, FS_CardinalityType
<1>3. Sum(f, S) \in Nat /\ Sum(f, S) <= (2 * bound) * Cardinality(S)
  BY <1>1, SumNat, SumBound
<1>4. (2 * bound) * Cardinality(S) <= (2 * bound) * Cardinality(Clusters)
  <2>1. Cardinality(S) \in Int /\ Cardinality(Clusters) \in Int
    BY <1>2
  <2> QED
    BY <1>1, <1>2, <2>1, TimesLess
<1>5. (2 * bound) * Cardinality(Clusters) <= MaxInt32
  BY DEF Fits
<1>6. (2 * bound) * Cardinality(S) \in Int /\ (2 * bound) * Cardinality(Clusters) \in Int
  BY <1>1, <1>2
<1>7. Sum(f, S) <= MaxInt32
  BY <1>1, <1>3, <1>4, <1>5, <1>6
<1>8. Wrap(Sum(f, S)) = Sum(f, S)
  <2>1. Sum(f, S) \in Int /\ 0 - MaxInt32 <= Sum(f, S)
    BY <1>1, <1>3
  <2> QED
    BY <1>7, <2>1, WrapSmall
<1> QED
  BY <1>3, <1>7, <1>8 DEF GetSumOfReplicas

\* With a cluster there is, what fits twice is an int32.
LEMMA TwiceFits ==
    ASSUME NEW bound, Fits(bound), NEW c \in Clusters
    PROVE  bound \in Nat /\ 2 * bound <= MaxInt32 /\ MaxInt32 \in Nat
<1>1. bound \in Nat /\ MaxInt32 \in Nat
  BY DivisionAssumption DEF Fits
<1> DEFINE f == [d \in {c} |-> 2 * bound]
<1>2. {c} \in SUBSET Clusters /\ \A d \in {c} : f[d] \in Nat /\ f[d] <= 2 * bound
  BY <1>1
<1>3. Sum(f, {c}) \in Nat /\ Sum(f, {c}) <= MaxInt32
  BY <1>2, SumFits
<1>4. f[c] <= Sum(f, {c})
  BY <1>2, FS_Singleton, SumTerm
<1>5. f[c] = 2 * bound
  OBVIOUS
<1> HIDE DEF f
<1> QED
  BY <1>1, <1>3, <1>4, <1>5

\* A call whose selected clusters are being divided.
LEMMA CallFacts ==
    ASSUME TypeOK, pc # "idle"
    PROVE  /\ call \in Arguments
           /\ Selected \in SUBSET call.feasible /\ Selected \in SUBSET Clusters
           /\ IsFiniteSet(Selected) /\ IsFiniteSet(Clusters)
           /\ Room \in [Clusters -> Nat] /\ call.allocatable \in [Clusters -> Nat]
           /\ call.replicas \in Nat
           /\ call.placement.tier \in [Clusters -> Nat]
           /\ call.placement.overflow \in BOOLEAN
           /\ call.placement.overflow => call.placement.strategy \in Dynamic
           /\ call.placement.strategy \in Strategies
<1>1. call \in Arguments
  BY DEF TypeOK
<1>2. Selected \in SUBSET call.feasible
  BY <1>1, SelectedIsFeasible DEF Selected
<1>3. call.feasible \in SUBSET Clusters /\ IsFiniteSet(call.feasible)
  BY <1>1, ArgumentTypes
<1>4. IsFiniteSet(Selected)
  BY <1>2, <1>3, FS_Subset
<1>5. call.placement \in Placement /\ call.placement \in Placements
  BY <1>1, ArgumentTypes
<1>6. /\ call.placement.tier \in [Clusters -> Nat] /\ call.placement.overflow \in BOOLEAN
      /\ call.placement.strategy \in Strategies
  BY <1>5 DEF Placement
<1>7. call.placement.overflow => call.placement.strategy \in Dynamic
  BY <1>5, OverflowAssumption
<1>8. /\ Room \in [Clusters -> Nat] /\ call.allocatable \in [Clusters -> Nat]
      /\ call.replicas \in Nat
  BY <1>1, ArgumentTypes DEF Room
<1> QED
  BY <1>1, <1>2, <1>3, <1>4, <1>6, <1>7, <1>8, DivisionAssumption

\* The next tier: a part of the selected clusters, and the replicas it is to
\* take.
LEMMA TierFacts ==
    ASSUME TypeOK, TiersFit, pc \in {"assign", "divide"}
    PROVE  /\ Tier \in SUBSET todo /\ Tier # {} /\ Tier \in SUBSET Clusters
           /\ Tier \cap Passed = {} /\ IsFiniteSet(Tier) /\ IsFiniteSet(Passed)
           /\ Tier \in SUBSET Selected /\ Passed \in SUBSET Selected
           /\ TierReplicas \in Nat /\ TierReplicas <= left /\ left <= call.replicas
           /\ call.placement.overflow =>
                 /\ TierReplicas <= Sum(Room, Tier)
                 /\ TierReplicas < left => TierReplicas = Sum(Room, Tier)
                 /\ \A c \in Tier, d \in todo : call.placement.tier[c] <= call.placement.tier[d]
                 /\ \A c \in Tier, d \in todo \ Tier :
                       call.placement.tier[c] < call.placement.tier[d]
           /\ ~call.placement.overflow =>
                 /\ TierReplicas = call.replicas /\ left = call.replicas
                 /\ Tier = Selected /\ Tier = todo /\ Passed = {}
<1>0. pc # "idle"
  OBVIOUS
<1>1. /\ call \in Arguments
      /\ Selected \in SUBSET call.feasible /\ Selected \in SUBSET Clusters
      /\ IsFiniteSet(Selected) /\ IsFiniteSet(Clusters)
      /\ Room \in [Clusters -> Nat]
      /\ call.replicas \in Nat
      /\ call.placement.tier \in [Clusters -> Nat]
      /\ call.placement.overflow \in BOOLEAN
  BY <1>0, CallFacts
<1>2. /\ todo # {} /\ todo \subseteq Selected
      /\ ~call.placement.overflow => todo = Selected
      /\ left + Sum(Room, Passed) = call.replicas
  BY DEF TiersFit
<1>3. left \in Nat
  BY DEF TypeOK
<1>4. Passed \in SUBSET Selected /\ IsFiniteSet(Passed)
  BY <1>1, FS_Subset DEF Passed
<1>5. Sum(Room, Passed) \in Nat
  <2>1. \A c \in Passed : Room[c] \in Nat
    BY <1>1, <1>4
  <2> QED
    BY <1>4, <2>1, SumNat
<1>6. left <= call.replicas
  BY <1>1, <1>2, <1>3, <1>5
<1>7. Tier \in SUBSET todo
  BY DEF Tier
<1>8. /\ Tier \in SUBSET Clusters /\ Tier \cap Passed = {} /\ IsFiniteSet(Tier)
      /\ Tier \in SUBSET Selected
  <2>1. Tier \in SUBSET Selected
    BY <1>2, <1>7
  <2> QED
    BY <1>1, <1>7, <2>1, FS_Subset DEF Passed
<1>9. CASE ~call.placement.overflow
  <2>1. TierReplicas = call.replicas
    BY <1>9 DEF TierReplicas
  <2>2. Tier = todo /\ Tier = Selected
    BY <1>2, <1>9 DEF Tier
  <2>3. Passed = {}
    BY <2>2 DEF Passed
  <2>4. Sum(Room, Passed) = 0
    BY <2>3, SumEmpty
  <2>5. left = call.replicas
    BY <1>2, <1>3, <2>4
  <2> QED
    BY <1>1, <1>2, <1>4, <1>6, <1>7, <1>8, <1>9, <2>1, <2>2, <2>3, <2>5
<1>10. CASE call.placement.overflow
  <2> DEFINE t == call.placement.tier
  <2>1. Tier = {c \in todo : \A d \in todo : t[c] <= t[d]}
    BY <1>10 DEF Tier
  <2>2. \A c \in todo : t[c] \in Nat
    BY <1>1, <1>2
  <2> HIDE DEF t
  <2>3. Tier # {}
    <3> DEFINE V == {t[c] : c \in todo}
    <3>1. V \in SUBSET Nat /\ V # {}
      BY <1>2, <2>2
    <3>2. PICK v \in V : \A w \in V : v <= w
      BY <3>1, Least
    <3>3. PICK c \in todo : v = t[c]
      BY <3>2
    <3> QED
      BY <2>1, <3>2, <3>3
  <2>4. \A c \in Tier, d \in todo : t[c] <= t[d]
    BY <2>1
  <2>5. ASSUME NEW c \in Tier, NEW d \in todo \ Tier PROVE t[c] < t[d]
    <3>1. PICK e \in todo : ~(t[d] <= t[e])
      BY <2>1
    <3>2. t[c] <= t[e] /\ t[c] \in Nat /\ t[d] \in Nat /\ t[e] \in Nat
      BY <1>7, <2>2, <2>4
    <3> QED
      BY <3>1, <3>2
  <2>6. Sum(Room, Tier) \in Nat
    <3>1. \A c \in Tier : Room[c] \in Nat
      BY <1>1, <1>8
    <3> QED
      BY <1>8, <3>1, SumNat
  <2>7. TierReplicas = IF left <= Sum(Room, Tier) THEN left ELSE Sum(Room, Tier)
    BY <1>3, <1>10, <2>6, SmallerOf DEF TierReplicas, Room
  <2> QED
    BY <1>3, <1>4, <1>6, <1>7, <1>8, <1>10, <2>3, <2>4, <2>5, <2>6, <2>7 DEF t
<1> QED
  BY <1>1, <1>9, <1>10

-----------------------------------------------------------------------------
(***************************************************************************)
(* The steps of a call.                                                    *)
(***************************************************************************)
\* The room of a cluster, and what a tier holds, as int32 sums.
LEMMA TierHolds ==
    ASSUME NEW bound, Fits(bound), DInv(bound), pc \in {"assign", "divide"}
    PROVE  /\ clusters \in [Clusters -> Nat]
           /\ \A c \in Clusters : clusters[c] <= bound
           /\ \A c \in Clusters : Room[c] = call.allocatable[c] + clusters[c]
           /\ call.replicas > 0 => \A c \in Clusters : call.allocatable[c] <= bound
           /\ call.replicas <= bound /\ bound \in Nat
           /\ Sum(clusters, Tier) \in Nat /\ Sum(clusters, Tier) <= MaxInt32
           /\ assignedReplicas = Sum(clusters, Tier)
           /\ Sum(Room, Tier) = Sum(call.allocatable, Tier) + Sum(clusters, Tier)
           /\ Sum(call.allocatable, Tier) \in Nat /\ Sum(Room, Tier) \in Nat
<1>1. TypeOK /\ TiersFit /\ CallFits(bound) /\ pc # "idle"
  BY DEF DInv
<1>2. clusters \in [Clusters -> Nat] /\ bound \in Nat
  BY <1>1 DEF TypeOK, Fits
<1>3. /\ \A c \in Clusters : clusters[c] <= bound
      /\ \A c \in Clusters : Room[c] = call.allocatable[c] + clusters[c]
      /\ call.replicas > 0 => \A c \in Clusters : call.allocatable[c] <= bound
  BY <1>1 DEF CallFits
<1>4. call.replicas <= bound
  <2>1. call.replicas \in Replicas
    BY <1>1, CallFacts DEF Arguments
  <2> QED
    BY <2>1 DEF Fits
<1>5. Tier \in SUBSET Clusters /\ IsFiniteSet(Tier)
  BY <1>1, TierFacts
<1>6. ASSUME NEW c \in Tier PROVE clusters[c] \in Nat /\ clusters[c] <= 2 * bound
  <2>1. clusters[c] \in Nat /\ clusters[c] <= bound
    BY <1>2, <1>3, <1>5
  <2> QED
    BY <1>2, <2>1
<1>7. /\ Sum(clusters, Tier) \in Nat /\ Sum(clusters, Tier) <= MaxInt32
      /\ GetSumOfReplicas(clusters, Tier) = Sum(clusters, Tier)
  BY <1>5, <1>6, SumFits
<1>8. /\ \A c \in Tier : call.allocatable[c] \in Nat
      /\ \A c \in Tier : clusters[c] \in Nat
      /\ \A c \in Tier : Room[c] = call.allocatable[c] + clusters[c]
  BY <1>1, <1>2, <1>3, <1>5, CallFacts
<1>9. Sum(Room, Tier) = Sum(call.allocatable, Tier) + Sum(clusters, Tier)
  <2>1. /\ \A c \in Tier : call.allocatable[c] \in Int
        /\ \A c \in Tier : clusters[c] \in Int
    BY <1>8
  <2> QED
    BY <1>5, <1>8, <2>1, SumPlus
<1>10. Sum(call.allocatable, Tier) \in Nat
  BY <1>5, <1>8, SumNat
<1> QED
  BY <1>2, <1>3, <1>4, <1>7, <1>9, <1>10 DEF assignedReplicas

\* What a step that keeps the call leaves alone.
LEMMA Frame ==
    ASSUME UNCHANGED <<call, todo, left, clusters>>
    PROVE  /\ Tier' = Tier /\ TierReplicas' = TierReplicas
           /\ Selected' = Selected /\ Passed' = Passed /\ Room' = Room
BY DEF Tier, TierReplicas, Selected, Passed, Room

\* The call fails.
LEMMA FailKeeps ==
    ASSUME NEW bound, DInv(bound), pc \in {"assign", "divide"}, pc' = "failed",
           UNCHANGED <<clusters, call, todo, left, result, tier, party>>,
           party.left = 0, call.replicas > 0 => NoRoom(call)
    PROVE  DInv(bound)'
<1>1. TypeOK /\ WInv /\ CallFits(bound)
  BY DEF DInv
<1>2. TypeOK'
  BY <1>1 DEF TypeOK, IsDivision
<1>3. WInv'
  BY <1>1 DEF WInv, IsDivision, Balanced, FullTogether, NoDebts
<1>4. CallFits(bound)'
  BY <1>1, Frame DEF CallFits, Room
<1>5. TiersFit' /\ TierFits'
  BY DEF TiersFit, TierFits
<1>6. ResultFits'
  <2>1. PlacedWhenPossible'
    BY DEF PlacedWhenPossible, NoRoom
  <2> QED
    BY <2>1 DEF ResultFits, ExactlyDivided, WithinCapacity, Undisturbed, TiersInOrder, Succeeded
<1> QED
  BY <1>2, <1>3, <1>4, <1>5, <1>6 DEF DInv

\* What AllocateByWeight is given for the tier under way.
Fair(target, votes, base) ==
    LET n == IF Sum(votes, DOMAIN votes) = 0 THEN 0 ELSE target
    IN  /\ target \in Nat
        /\ DOMAIN votes \subseteq Tier /\ votes \in [DOMAIN votes -> Int]
        /\ base \in [Clusters -> Nat]
        /\ \A c \in Clusters \ Tier : base[c] = 0
        /\ IF call.placement.strategy = "Duplicated"
           THEN DOMAIN votes = {} /\ \A c \in Clusters : base[c] <= call.replicas
           ELSE Sum(base, Tier) + n = TierReplicas
        /\ call.placement.strategy \in Dynamic =>
              /\ \A c \in Tier : base[c] <= Room[c]
              /\ \/ n = 0
                 \/ /\ \A c \in DOMAIN votes : votes[c] >= 0 /\ base[c] + votes[c] <= Room[c]
                    /\ n <= Sum(votes, DOMAIN votes)
              /\ ~call.fresh =>
                    \/ \A c \in Tier : base[c] >= clusters[c]
                    \/ /\ \A c \in Tier : base[c] = 0
                       /\ \A c \in DOMAIN votes : votes[c] <= clusters[c]

\* AllocateByWeight, up to its loop, keeps the invariant.
LEMMA DispenseKeeps ==
    ASSUME NEW bound, DInv(bound), pc = "assign", NEW target, NEW votes, NEW base,
           Fair(target, votes, base), Dispense(target, votes, base)
    PROVE  DInv(bound)'
<1> DEFINE n == IF Sum(votes, DOMAIN votes) = 0 THEN 0 ELSE target
<1>1. TypeOK /\ WInv /\ CallFits(bound) /\ TiersFit
  BY DEF DInv
<1>2. /\ party' = Division(votes, n) /\ tier' = [base |-> base, share |-> TierReplicas]
      /\ pc' = "divide" /\ UNCHANGED <<clusters, call, todo, left, result>>
  BY DEF Dispense
<1>3. n \in Nat
  BY DEF Fair
<1>4. /\ DOMAIN votes \subseteq Tier /\ votes \in [DOMAIN votes -> Int]
      /\ base \in [Clusters -> Nat]
  BY DEF Fair
<1>5. Tier \in SUBSET Clusters /\ TierReplicas \in Nat /\ IsFiniteSet(Tier)
  BY <1>1, TierFacts
<1> HIDE DEF n
<1>6. /\ party'.votes = votes /\ party'.seats = [c \in DOMAIN votes |-> 0] /\ party'.left = n
      /\ DOMAIN party' = {"votes", "seats", "left"}
  BY <1>2 DEF Division
<1>7. IsDivision(party')
  BY <1>3, <1>4, <1>5, <1>6 DEF IsDivision
<1>8. TypeOK'
  BY <1>1, <1>2, <1>4, <1>5, <1>7 DEF TypeOK
<1>9. WInv'
  <2>1. \A c \in DOMAIN party'.votes : party'.seats[c] = 0
    BY <1>6
  <2>2. Balanced'
    BY <1>7, <2>1 DEF Balanced, IsDivision
  <2>3. FullTogether'
    <3> SUFFICES ASSUME NoDebts', NEW p \in DOMAIN party'.votes
                 PROVE  ~(party'.seats[p] > party'.votes[p])
      BY DEF FullTogether
    <3>1. party'.votes[p] \in Int /\ party'.votes[p] >= 0 /\ party'.seats[p] = 0
      BY <1>7, <2>1 DEF NoDebts, IsDivision
    <3> QED
      BY <3>1
  <2> QED
    BY <1>7, <2>2, <2>3 DEF WInv
<1>10. /\ Tier' = Tier /\ TierReplicas' = TierReplicas
       /\ Selected' = Selected /\ Passed' = Passed /\ Room' = Room
  BY <1>2, Frame
<1>11. CallFits(bound)'
  BY <1>1, <1>2, <1>10 DEF CallFits
<1>12. TiersFit'
  BY <1>1, <1>2, <1>10 DEF TiersFit
<1>13. Target' = n
  <2>1. IsFiniteSet(DOMAIN votes)
    BY <1>4, <1>5, FS_Subset
  <2>2. Sum([c \in DOMAIN votes |-> 0], DOMAIN votes) = 0
    BY <2>1, SumZero
  <2>3. Target' = Sum(party'.seats, DOMAIN party'.votes) + party'.left
    BY DEF Target
  <2> QED
    BY <1>3, <1>6, <2>2, <2>3
<1>14. TierFits'
  <2>1. tier'.base = base /\ tier'.share = TierReplicas
    BY <1>2
  <2>2. tier'.share = TierReplicas' /\ (DOMAIN party.votes)' \subseteq Tier'
        /\ \A c \in Clusters \ Tier' : tier'.base[c] = 0
    BY <1>4, <1>6, <1>10, <2>1 DEF Fair
  <2>3. IF call'.placement.strategy = "Duplicated"
        THEN (DOMAIN party.votes)' = {} /\ \A c \in Clusters : tier'.base[c] <= call'.replicas
        ELSE Sum(tier'.base, Tier') + Target' = tier'.share
    <3>1. CASE call.placement.strategy = "Duplicated"
      BY <1>2, <1>6, <2>1, <3>1 DEF Fair
    <3>2. CASE call.placement.strategy # "Duplicated"
      <4>1. Sum(base, Tier) + n = TierReplicas
        BY <3>2 DEF Fair, n
      <4> QED
        BY <1>2, <1>10, <1>13, <2>1, <3>2, <4>1
    <3> QED
      BY <3>1, <3>2
  <2>4. ASSUME call.placement.strategy \in Dynamic
        PROVE  /\ \A c \in Tier' : tier'.base[c] <= Room'[c]
               /\ TargetFits'
               /\ ~call'.fresh => Steady'
    <3>1. \A c \in Tier : base[c] <= Room[c]
      BY <2>4 DEF Fair
    <3>2. \/ n = 0
          \/ /\ \A c \in DOMAIN votes : votes[c] >= 0 /\ base[c] + votes[c] <= Room[c]
             /\ n <= Sum(votes, DOMAIN votes)
      BY <2>4 DEF Fair, n
    <3>3. TargetFits'
      <4>1. CASE n = 0
        BY <1>13, <4>1 DEF TargetFits
      <4>2. CASE /\ \A c \in DOMAIN votes : votes[c] >= 0 /\ base[c] + votes[c] <= Room[c]
                 /\ n <= Sum(votes, DOMAIN votes)
        <5>1. NoDebts'
          BY <1>6, <4>2 DEF NoDebts
        <5>2. Target' <= Sum(party'.votes, DOMAIN party'.votes)
          BY <1>6, <1>13, <4>2
        <5>3. \A c \in DOMAIN party'.votes : tier'.base[c] + party'.votes[c] <= Room'[c]
          BY <1>6, <1>10, <2>1, <4>2
        <5> QED
          BY <5>1, <5>2, <5>3 DEF TargetFits
      <4> QED
        BY <3>2, <4>1, <4>2
    <3>4. ASSUME ~call.fresh
          PROVE  Steady'
      <4>1. \/ \A c \in Tier : base[c] >= clusters[c]
            \/ /\ \A c \in Tier : base[c] = 0
               /\ \A c \in DOMAIN votes : votes[c] <= clusters[c]
        BY <2>4, <3>4 DEF Fair
      <4> QED
        BY <1>2, <1>6, <1>10, <2>1, <4>1 DEF Steady
    <3> QED
      BY <1>2, <1>10, <2>1, <3>1, <3>3, <3>4
  <2> QED
    BY <1>2, <2>2, <2>3, <2>4 DEF TierFits
<1>15. ResultFits'
  BY <1>2 DEF ResultFits, ExactlyDivided, WithinCapacity, Undisturbed, TiersInOrder, Succeeded,
              PlacedWhenPossible
<1> QED
  BY <1>2, <1>8, <1>9, <1>11, <1>12, <1>14, <1>15 DEF DInv

\* A tier without room for its replicas: the call has none for its own.
LEMMA TierNoRoom ==
    ASSUME TypeOK, TiersFit, pc \in {"assign", "divide"},
           call.placement.strategy \in Dynamic, Sum(Room, Tier) < TierReplicas,
           Sum(Room, Tier) \in Nat
    PROVE  NoRoom(call)
<1>1. TierReplicas \in Nat
  BY TierFacts
<1>2. ~(TierReplicas <= Sum(Room, Tier))
  BY <1>1
<1>3. TierReplicas = call.replicas /\ Tier = Selected
  BY <1>2, TierFacts
<1>4. Sum(call.available, SelectBestClusters(call)) < call.replicas
  BY <1>3 DEF Room, Selected
<1>5. call \in Arguments
  BY DEF TypeOK
<1> QED
  BY <1>4, <1>5, SmallSelectionNoRoom

\* The clusters among which the target is divided have room for it.
LEMMA KeptHasRoom ==
    ASSUME NEW target \in Nat, NEW votes, NEW base, IsFiniteSet(DOMAIN votes),
           votes \in [DOMAIN votes -> Int],
           ~(GetSumOfReplicas(votes, DOMAIN votes) < target),
           NEW K \in Kept(target, votes, base)
    PROVE  K \in SUBSET DOMAIN votes /\ GetSumOfReplicas(votes, K) >= target
<1>1. CASE call.placement.strategy = "Aggregated"
  BY <1>1 DEF Kept, Aggregate
<1>2. CASE call.placement.strategy # "Aggregated"
  <2>1. K = DOMAIN votes
    BY <1>2 DEF Kept
  <2>2. GetSumOfReplicas(votes, DOMAIN votes) \in Int
    BY SumInt, WrapInt DEF GetSumOfReplicas
  <2>3. GetSumOfReplicas(votes, DOMAIN votes) >= target
    BY <2>2
  <2> QED
    BY <2>1, <2>3
<1> QED
  BY <1>1, <1>2

\* dynamicDivideReplicas
LEMMA DynamicKeeps ==
    ASSUME NEW bound, Fits(bound), DInv(bound), pc = "assign",
           call.placement.strategy \in Dynamic,
           NEW target \in Nat, NEW votes \in [Tier -> Int], NEW base \in [Clusters -> Nat],
           \A c \in Clusters \ Tier : base[c] = 0,
           \A c \in Tier : base[c] <= Room[c],
           Sum(base, Tier) + target = TierReplicas,
           target = 0 \/ \A c \in Tier : /\ votes[c] \in Nat /\ votes[c] <= 2 * bound
                                         /\ base[c] + votes[c] <= Room[c],
           ~call.fresh => \/ \A c \in Tier : base[c] >= clusters[c]
                          \/ \A c \in Tier : base[c] = 0 /\ votes[c] <= clusters[c],
           GetSumOfReplicas(votes, Tier) < target /\ call.replicas > 0
              => Sum(Room, Tier) < TierReplicas,
           dynamicDivideReplicas(target, votes, base)
    PROVE  DInv(bound)'
<1>1. TypeOK /\ TiersFit /\ party.left = 0 /\ pc \in {"assign", "divide"}
  BY DEF DInv
<1>2. Tier \in SUBSET Clusters /\ IsFiniteSet(Tier) /\ DOMAIN votes = Tier
  BY <1>1, TierFacts
<1>3. CASE GetSumOfReplicas(votes, DOMAIN votes) < target
  <2>1. pc' = "failed" /\ UNCHANGED <<clusters, call, todo, left, result, tier, party>>
    BY <1>3 DEF dynamicDivideReplicas
  <2>2. ASSUME call.replicas > 0 PROVE NoRoom(call)
    <3>1. Sum(Room, Tier) < TierReplicas
      BY <1>2, <1>3, <2>2
    <3>2. Sum(Room, Tier) \in Nat
      BY <1>1, TierHolds
    <3> QED
      BY <1>1, <3>1, <3>2, TierNoRoom
  <2> QED
    BY <1>1, <2>1, <2>2, FailKeeps
<1>4. CASE ~(GetSumOfReplicas(votes, DOMAIN votes) < target)
  <2>1. PICK K \in Kept(target, votes, base) : Dispense(target, Restrict(votes, K), base)
    BY <1>4 DEF dynamicDivideReplicas
  <2>2. K \in SUBSET Tier /\ GetSumOfReplicas(votes, K) >= target
    BY <1>2, <1>4, KeptHasRoom
  <2> DEFINE r == Restrict(votes, K)
             n == IF Sum(r, DOMAIN r) = 0 THEN 0 ELSE target
  <2>3. r = [c \in K |-> votes[c]] /\ DOMAIN r = K /\ r \in [K -> Int]
        /\ \A c \in K : r[c] = votes[c]
    BY <2>2 DEF Restrict
  <2>4. IsFiniteSet(K)
    BY <1>2, <2>2, FS_Subset
  <2>5. Sum(r, K) = Sum(votes, K) /\ Sum(votes, K) \in Int
    <3>1. \A c \in K : votes[c] \in Int /\ r[c] = votes[c]
      BY <2>2, <2>3
    <3> HIDE DEF r
    <3> QED
      BY <2>4, <3>1, SumCong, SumInt
  <2>6. target = 0 \/ /\ \A c \in K : r[c] >= 0 /\ base[c] + r[c] <= Room[c]
                      /\ target <= Sum(r, K)
    <3> SUFFICES ASSUME target # 0
                 PROVE  /\ \A c \in K : r[c] >= 0 /\ base[c] + r[c] <= Room[c]
                        /\ target <= Sum(r, K)
      OBVIOUS
    <3>1. \A c \in K : /\ votes[c] \in Nat /\ votes[c] <= 2 * bound
                       /\ base[c] + votes[c] <= Room[c]
      BY <2>2
    <3>2. GetSumOfReplicas(votes, K) = Sum(votes, K)
      BY <1>2, <2>2, <3>1, SumFits
    <3>3. target <= Sum(r, K)
      BY <2>2, <2>5, <3>2
    <3> QED
      BY <2>3, <3>1, <3>3
  <2>7. n = target
    <3>1. CASE target = 0
      BY <3>1
    <3>2. CASE target # 0
      <4>1. Sum(r, K) # 0
        BY <2>5, <2>6, <3>2
      <4> QED
        BY <2>3, <4>1
    <3> QED
      BY <3>1, <3>2
  <2> HIDE DEF r
  <2>8. Fair(target, r, base)
    <3>1. call.placement.strategy # "Duplicated"
      BY DEF Dynamic
    <3>2. /\ DOMAIN r \subseteq Tier /\ r \in [DOMAIN r -> Int]
      BY <2>2, <2>3
    <3>3. \/ n = 0
          \/ /\ \A c \in DOMAIN r : r[c] >= 0 /\ base[c] + r[c] <= Room[c]
             /\ n <= Sum(r, DOMAIN r)
      BY <2>3, <2>6, <2>7
    <3>4. ~call.fresh => \/ \A c \in Tier : base[c] >= clusters[c]
                         \/ /\ \A c \in Tier : base[c] = 0
                            /\ \A c \in DOMAIN r : r[c] <= clusters[c]
      BY <2>2, <2>3
    <3>5. Sum(base, Tier) + n = TierReplicas
      BY <2>7
    <3> QED
      BY <3>1, <3>2, <3>3, <3>4, <3>5 DEF Fair
  <2> QED
    BY <2>1, <2>8, DispenseKeeps DEF r
<1> QED
  BY <1>3, <1>4

\* A call for no replicas has none for a tier.
LEMMA NoReplicas ==
    ASSUME TypeOK, TiersFit, pc \in {"assign", "divide"}, ~(call.replicas > 0)
    PROVE  TierReplicas = 0
<1>1. TierReplicas \in Nat /\ TierReplicas <= left /\ left <= call.replicas
  BY TierFacts
<1>2. left \in Nat /\ call.replicas \in Nat
  BY CallFacts DEF TypeOK
<1> QED
  BY <1>1, <1>2

\* The replicas a tier keeps.
LEMMA KeptReplicas ==
    ASSUME NEW bound, Fits(bound), DInv(bound), pc = "assign"
    PROVE  /\ scheduledClusters \in [Clusters -> Nat]
           /\ \A c \in Tier : scheduledClusters[c] = clusters[c]
           /\ \A c \in Clusters \ Tier : scheduledClusters[c] = 0
           /\ \A c \in Tier : scheduledClusters[c] <= Room[c]
           /\ Sum(scheduledClusters, Tier) = assignedReplicas
<1>1. TypeOK /\ TiersFit /\ pc \in {"assign", "divide"}
  BY DEF DInv
<1>2. Tier \in SUBSET Clusters /\ IsFiniteSet(Tier)
  BY <1>1, TierFacts
<1>3. /\ clusters \in [Clusters -> Nat] /\ assignedReplicas = Sum(clusters, Tier)
      /\ \A c \in Clusters : Room[c] = call.allocatable[c] + clusters[c]
      /\ call.allocatable \in [Clusters -> Nat]
  BY <1>1, TierHolds, CallFacts
<1>4. /\ scheduledClusters \in [Clusters -> Nat]
      /\ \A c \in Tier : scheduledClusters[c] = clusters[c]
      /\ \A c \in Clusters \ Tier : scheduledClusters[c] = 0
  BY <1>2, <1>3 DEF scheduledClusters
<1>5. ASSUME NEW c \in Tier PROVE scheduledClusters[c] <= Room[c]
  <2>1. /\ scheduledClusters[c] = clusters[c] /\ clusters[c] \in Nat
        /\ call.allocatable[c] \in Nat /\ Room[c] = call.allocatable[c] + clusters[c]
    BY <1>2, <1>3, <1>4
  <2> QED
    BY <2>1
<1>6. Sum(scheduledClusters, Tier) = Sum(clusters, Tier)
  <2>1. \A c \in Tier : clusters[c] \in Nat
    BY <1>2, <1>3
  <2>2. ASSUME NEW c \in Tier PROVE clusters[c] \in Int /\ scheduledClusters[c] = clusters[c]
    <3>1. clusters[c] \in Nat
      BY <2>1
    <3>2. scheduledClusters[c] = clusters[c]
      BY <1>4
    <3> QED
      BY <3>1, <3>2
  <2> QED
    BY <1>2, <2>2, SumCong
<1> QED
  BY <1>3, <1>4, <1>5, <1>6

\* Nothing is kept.
LEMMA NothingFacts ==
    /\ Nothing \in [Clusters -> Nat]
    /\ \A c \in Clusters : Nothing[c] = 0
    /\ \A S \in SUBSET Clusters : Sum(Nothing, S) = 0
<1>1. Nothing \in [Clusters -> Nat] /\ \A c \in Clusters : Nothing[c] = 0
  BY DEF Nothing
<1>2. ASSUME NEW S \in SUBSET Clusters PROVE Sum(Nothing, S) = 0
  <2>1. IsFiniteSet(S)
    BY DivisionAssumption, FS_Subset
  <2>2. \A c \in S : Nothing[c] = 0
    BY <1>1
  <2> QED
    BY <2>1, <2>2, SumZero
<1> QED
  BY <1>1, <1>2

\* dynamicFreshScale keeps the invariant.
LEMMA FreshKeeps ==
    ASSUME NEW bound, Fits(bound), DInv(bound), dynamicFreshScale
    PROVE  DInv(bound)'
<1> DEFINE votes == [c \in Tier |-> Wrap(call.allocatable[c] + clusters[c])]
<1>1. /\ pc = "assign" /\ call.placement.strategy \in Dynamic /\ call.fresh
      /\ dynamicDivideReplicas(TierReplicas, votes, Nothing)
  BY DEF dynamicFreshScale
<1>2. TypeOK /\ TiersFit /\ pc \in {"assign", "divide"}
  BY <1>1 DEF DInv
<1>3. Tier \in SUBSET Clusters /\ IsFiniteSet(Tier) /\ TierReplicas \in Nat
  BY <1>2, TierFacts
<1>4. /\ clusters \in [Clusters -> Nat] /\ \A c \in Clusters : clusters[c] <= bound
      /\ \A c \in Clusters : Room[c] = call.allocatable[c] + clusters[c]
      /\ call.replicas > 0 => \A c \in Clusters : call.allocatable[c] <= bound
      /\ call.allocatable \in [Clusters -> Nat]
      /\ Room \in [Clusters -> Nat]
  BY <1>2, TierHolds, CallFacts
<1>5. votes \in [Tier -> Int]
  <2> SUFFICES ASSUME NEW c \in Tier PROVE Wrap(call.allocatable[c] + clusters[c]) \in Int
    OBVIOUS
  <2>1. call.allocatable[c] + clusters[c] \in Int
    <3>1. call.allocatable[c] \in Nat /\ clusters[c] \in Nat
      BY <1>3, <1>4
    <3> QED
      BY <3>1
  <2> QED
    BY <2>1, WrapInt
<1>6. ASSUME call.replicas > 0, NEW c \in Tier
      PROVE  votes[c] = Room[c] /\ Room[c] \in Nat /\ Room[c] <= 2 * bound
  <2>1. c \in Clusters
    BY <1>3
  <2>2. bound \in Nat /\ 2 * bound <= MaxInt32 /\ MaxInt32 \in Nat
    BY <2>1, TwiceFits
  <2>3. /\ call.allocatable[c] \in Nat /\ clusters[c] \in Nat /\ call.allocatable[c] <= bound
        /\ clusters[c] <= bound /\ Room[c] = call.allocatable[c] + clusters[c]
    BY <1>4, <1>6, <2>1
  <2>4. Room[c] \in Int /\ Room[c] >= 0 /\ Room[c] <= 2 * bound
    BY <2>2, <2>3
  <2>5. Wrap(Room[c]) = Room[c]
    BY <2>2, <2>4, WrapSmall
  <2> QED
    BY <2>3, <2>4, <2>5
<1>7. ASSUME TierReplicas # 0, NEW c \in Tier
      PROVE  votes[c] = Room[c] /\ Room[c] \in Nat /\ Room[c] <= 2 * bound
  <2>1. call.replicas > 0
    BY <1>2, <1>7, NoReplicas
  <2> QED
    BY <1>6, <2>1
<1> HIDE DEF votes
<1>8. TierReplicas = 0 \/ \A c \in Tier : /\ votes[c] \in Nat /\ votes[c] <= 2 * bound
                                          /\ Nothing[c] + votes[c] <= Room[c]
  <2> SUFFICES ASSUME TierReplicas # 0, NEW c \in Tier
               PROVE  /\ votes[c] \in Nat /\ votes[c] <= 2 * bound
                      /\ Nothing[c] + votes[c] <= Room[c]
    OBVIOUS
  <2>1. votes[c] = Room[c] /\ Room[c] \in Nat /\ Room[c] <= 2 * bound
    BY <1>7
  <2>2. Nothing[c] = 0
    BY <1>3, NothingFacts
  <2> QED
    BY <2>1, <2>2
<1>9. ASSUME GetSumOfReplicas(votes, Tier) < TierReplicas, call.replicas > 0
      PROVE  Sum(Room, Tier) < TierReplicas
  <2>1. \A c \in Tier : votes[c] \in Nat /\ votes[c] <= 2 * bound /\ votes[c] = Room[c]
    BY <1>6, <1>9
  <2>2. GetSumOfReplicas(votes, Tier) = Sum(votes, Tier)
    BY <1>3, <2>1, SumFits
  <2>3. \A c \in Tier : Room[c] \in Int /\ votes[c] = Room[c]
    BY <1>6, <1>9
  <2>4. Sum(votes, Tier) = Sum(Room, Tier)
    BY <1>3, <2>3, SumCong
  <2> QED
    BY <1>9, <2>2, <2>4
<1>10. Sum(Nothing, Tier) + TierReplicas = TierReplicas
  <2>1. Sum(Nothing, Tier) = 0
    BY <1>3, NothingFacts
  <2> QED
    BY <1>3, <2>1
<1>11. /\ Nothing \in [Clusters -> Nat] /\ \A c \in Clusters \ Tier : Nothing[c] = 0
       /\ \A c \in Tier : Nothing[c] <= Room[c]
  <2>1. \A c \in Tier : Room[c] \in Nat /\ Nothing[c] = 0
    BY <1>3, <1>4, NothingFacts
  <2> QED
    BY <2>1, NothingFacts
<1> QED
  BY <1>1, <1>3, <1>5, <1>8, <1>9, <1>10, <1>11, DynamicKeeps

\* dynamicScaleDown keeps the invariant.
LEMMA DownKeeps ==
    ASSUME NEW bound, Fits(bound), DInv(bound), dynamicScaleDown
    PROVE  DInv(bound)'
<1> DEFINE votes == Restrict(clusters, Tier)
<1>1. /\ pc = "assign" /\ call.placement.strategy \in Dynamic
      /\ assignedReplicas > TierReplicas
      /\ dynamicDivideReplicas(TierReplicas, votes, Nothing)
  BY DEF dynamicScaleDown
<1>2. TypeOK /\ TiersFit /\ pc \in {"assign", "divide"}
  BY <1>1 DEF DInv
<1>3. Tier \in SUBSET Clusters /\ IsFiniteSet(Tier) /\ TierReplicas \in Nat
  BY <1>2, TierFacts
<1>4. /\ clusters \in [Clusters -> Nat] /\ \A c \in Clusters : clusters[c] <= bound
      /\ \A c \in Clusters : Room[c] = call.allocatable[c] + clusters[c]
      /\ call.allocatable \in [Clusters -> Nat]
      /\ assignedReplicas = Sum(clusters, Tier) /\ Sum(clusters, Tier) \in Nat
      /\ bound \in Nat
  BY <1>2, TierHolds, CallFacts
<1>5. votes = [c \in Tier |-> clusters[c]]
  BY DEF Restrict
<1> HIDE DEF votes
<1>6. ASSUME NEW c \in Tier
      PROVE  /\ votes[c] \in Nat /\ votes[c] <= 2 * bound /\ Nothing[c] + votes[c] <= Room[c]
             /\ Nothing[c] = 0 /\ votes[c] = clusters[c] /\ Room[c] \in Nat
  <2>1. /\ clusters[c] \in Nat /\ clusters[c] <= bound /\ call.allocatable[c] \in Nat
        /\ Room[c] = call.allocatable[c] + clusters[c]
        /\ Nothing[c] = 0
    BY <1>3, <1>4, NothingFacts
  <2>2. votes[c] = clusters[c]
    BY <1>5
  <2> QED
    BY <1>4, <2>1, <2>2
<1>7. votes \in [Tier -> Int]
  <2>1. \A c \in Tier : clusters[c] \in Int
    BY <1>6
  <2> QED
    BY <1>5, <2>1
<1>8. ~(GetSumOfReplicas(votes, Tier) < TierReplicas)
  <2>1. GetSumOfReplicas(votes, Tier) = Sum(votes, Tier)
    BY <1>3, <1>6, SumFits
  <2>2. \A c \in Tier : clusters[c] \in Int /\ votes[c] = clusters[c]
    BY <1>6
  <2>3. Sum(votes, Tier) = Sum(clusters, Tier)
    BY <1>3, <2>2, SumCong
  <2> QED
    BY <1>1, <1>3, <1>4, <2>1, <2>3
<1>9. Sum(Nothing, Tier) + TierReplicas = TierReplicas
  <2>1. Sum(Nothing, Tier) = 0
    BY <1>3, NothingFacts
  <2> QED
    BY <1>3, <2>1
<1>10. /\ Nothing \in [Clusters -> Nat] /\ \A c \in Clusters \ Tier : Nothing[c] = 0
       /\ \A c \in Tier : Nothing[c] <= Room[c]
  BY <1>6, NothingFacts
<1>11. \A c \in Tier : Nothing[c] = 0 /\ votes[c] <= clusters[c]
  BY <1>6
<1>12. \A c \in Tier : /\ votes[c] \in Nat /\ votes[c] <= 2 * bound
                       /\ Nothing[c] + votes[c] <= Room[c]
  BY <1>6
<1> QED
  BY <1>1, <1>3, <1>7, <1>8, <1>9, <1>10, <1>11, <1>12, DynamicKeeps

\* dynamicScaleUp keeps the invariant.
LEMMA UpKeeps ==
    ASSUME NEW bound, Fits(bound), DInv(bound), dynamicScaleUp
    PROVE  DInv(bound)'
<1> DEFINE votes == Restrict(call.allocatable, Tier)
           target == Wrap(TierReplicas - assignedReplicas)
<1>1. /\ pc = "assign" /\ call.placement.strategy \in Dynamic
      /\ assignedReplicas < TierReplicas
      /\ dynamicDivideReplicas(target, votes, scheduledClusters)
  BY DEF dynamicScaleUp
<1>2. TypeOK /\ TiersFit /\ pc \in {"assign", "divide"}
  BY <1>1 DEF DInv
<1>3. /\ Tier \in SUBSET Clusters /\ IsFiniteSet(Tier) /\ TierReplicas \in Nat
      /\ Tier # {} /\ TierReplicas <= left /\ left <= call.replicas
  BY <1>2, TierFacts
<1>4. /\ clusters \in [Clusters -> Nat] /\ \A c \in Clusters : clusters[c] <= bound
      /\ \A c \in Clusters : Room[c] = call.allocatable[c] + clusters[c]
      /\ call.allocatable \in [Clusters -> Nat]
      /\ assignedReplicas = Sum(clusters, Tier) /\ Sum(clusters, Tier) \in Nat
      /\ call.replicas > 0 => \A c \in Clusters : call.allocatable[c] <= bound
      /\ bound \in Nat /\ call.replicas <= bound /\ call.replicas \in Nat
      /\ Sum(Room, Tier) = Sum(call.allocatable, Tier) + Sum(clusters, Tier)
      /\ Sum(call.allocatable, Tier) \in Nat
  BY <1>2, TierHolds, CallFacts
<1>5. left \in Nat
  BY <1>2 DEF TypeOK
<1>6. 2 * bound <= MaxInt32 /\ MaxInt32 \in Nat
  <2>1. PICK c \in Clusters : TRUE
    BY <1>3
  <2> QED
    BY <2>1, TwiceFits
<1>7. target = TierReplicas - assignedReplicas
  <2>1. /\ TierReplicas - assignedReplicas \in Int
        /\ 0 - MaxInt32 <= TierReplicas - assignedReplicas
        /\ TierReplicas - assignedReplicas <= MaxInt32
    BY <1>1, <1>3, <1>4, <1>5, <1>6
  <2> QED
    BY <2>1, WrapSmall
<1> HIDE DEF target
<1>8. target \in Nat /\ assignedReplicas + target = TierReplicas
  BY <1>1, <1>3, <1>4, <1>7
<1>9. call.replicas > 0
  BY <1>1, <1>3, <1>4, <1>5
<1>10. votes = [c \in Tier |-> call.allocatable[c]]
  BY DEF Restrict
<1> HIDE DEF votes
<1>11. /\ scheduledClusters \in [Clusters -> Nat]
       /\ \A c \in Tier : scheduledClusters[c] = clusters[c]
       /\ \A c \in Clusters \ Tier : scheduledClusters[c] = 0
       /\ \A c \in Tier : scheduledClusters[c] <= Room[c]
       /\ Sum(scheduledClusters, Tier) = assignedReplicas
  BY <1>1, KeptReplicas
<1>12. ASSUME NEW c \in Tier
       PROVE  /\ votes[c] \in Nat /\ votes[c] <= 2 * bound
              /\ scheduledClusters[c] + votes[c] <= Room[c]
              /\ votes[c] = call.allocatable[c] /\ scheduledClusters[c] >= clusters[c]
  <2>1. /\ clusters[c] \in Nat /\ call.allocatable[c] <= bound /\ call.allocatable[c] \in Nat
        /\ Room[c] = call.allocatable[c] + clusters[c]
        /\ scheduledClusters[c] = clusters[c]
    BY <1>3, <1>4, <1>9, <1>11
  <2>2. votes[c] = call.allocatable[c]
    BY <1>10
  <2> QED
    BY <1>4, <2>1, <2>2
<1>13. votes \in [Tier -> Int]
  <2>1. \A c \in Tier : call.allocatable[c] \in Int
    BY <1>12
  <2> QED
    BY <1>10, <2>1
<1>14. ASSUME GetSumOfReplicas(votes, Tier) < target PROVE Sum(Room, Tier) < TierReplicas
  <2>1. GetSumOfReplicas(votes, Tier) = Sum(votes, Tier)
    BY <1>3, <1>12, SumFits
  <2>2. \A c \in Tier : call.allocatable[c] \in Int /\ votes[c] = call.allocatable[c]
    BY <1>12
  <2>3. Sum(votes, Tier) = Sum(call.allocatable, Tier)
    BY <1>3, <2>2, SumCong
  <2> QED
    BY <1>3, <1>4, <1>7, <1>14, <2>1, <2>3
<1>15. Sum(scheduledClusters, Tier) + target = TierReplicas
  BY <1>8, <1>11
<1>16. \A c \in Tier : /\ votes[c] \in Nat /\ votes[c] <= 2 * bound
                       /\ scheduledClusters[c] + votes[c] <= Room[c]
  BY <1>12
<1>17. \A c \in Tier : scheduledClusters[c] >= clusters[c]
  BY <1>12
<1> QED
  BY <1>1, <1>8, <1>11, <1>13, <1>14, <1>15, <1>16, <1>17, DynamicKeeps

\* A division among no clusters.
LEMMA NoVotes ==
    /\ DOMAIN <<>> = {} /\ <<>> \in [DOMAIN <<>> -> Int] /\ Sum(<<>>, DOMAIN <<>>) = 0
<1>1. DOMAIN <<>> = {} /\ <<>> \in [DOMAIN <<>> -> Int]
  OBVIOUS
<1>2. Sum(<<>>, DOMAIN <<>>) = 0
  BY <1>1, SumEmpty
<1> QED
  BY <1>1, <1>2

\* A tier that has its replicas already keeps the invariant.
LEMMA UnchangedKeeps ==
    ASSUME NEW bound, Fits(bound), DInv(bound), unchanged
    PROVE  DInv(bound)'
<1>1. /\ pc = "assign" /\ call.placement.strategy \in Dynamic
      /\ assignedReplicas = TierReplicas /\ Dispense(0, <<>>, scheduledClusters)
  BY DEF unchanged
<1>2. TypeOK /\ TiersFit /\ pc \in {"assign", "divide"}
  BY <1>1 DEF DInv
<1>3. TierReplicas \in Nat
  BY <1>2, TierFacts
<1>4. /\ scheduledClusters \in [Clusters -> Nat]
      /\ \A c \in Tier : scheduledClusters[c] = clusters[c]
      /\ \A c \in Clusters \ Tier : scheduledClusters[c] = 0
      /\ \A c \in Tier : scheduledClusters[c] <= Room[c]
      /\ Sum(scheduledClusters, Tier) = assignedReplicas
  BY <1>1, KeptReplicas
<1>5. clusters \in [Clusters -> Nat] /\ Tier \in SUBSET Clusters
  BY <1>2, TierFacts DEF TypeOK
<1>6. ASSUME NEW c \in Tier PROVE scheduledClusters[c] >= clusters[c]
  <2>1. clusters[c] \in Nat /\ scheduledClusters[c] = clusters[c]
    BY <1>4, <1>5
  <2> QED
    BY <2>1
<1>7. Sum(scheduledClusters, Tier) + 0 = TierReplicas
  BY <1>1, <1>3, <1>4
<1>8. call.placement.strategy # "Duplicated"
  BY <1>1 DEF Dynamic
<1>9. Fair(0, <<>>, scheduledClusters)
  BY <1>4, <1>6, <1>7, <1>8, NoVotes DEF Fair
<1> QED
  BY <1>1, <1>9, DispenseKeeps

\* Only dynamic divisions have tiers.
LEMMA StaticFacts ==
    ASSUME TypeOK, TiersFit, pc = "assign", call.placement.strategy \notin Dynamic
    PROVE  TierReplicas = call.replicas
<1>1. pc # "idle" /\ pc \in {"assign", "divide"}
  OBVIOUS
<1>2. ~call.placement.overflow
  BY <1>1, CallFacts
<1> QED
  BY <1>1, <1>2, TierFacts

\* propagateToAll gives no cluster replicas.
LEMMA PropagatesNothing ==
    ASSUME NEW bound, DInv(bound), propagateToAll
    PROVE  /\ pc' = "done" /\ call'.replicas = 0
           /\ \A c \in Clusters : result'[c] = 0
<1>1. /\ pc = "assign" /\ pc' = "done" /\ call.replicas = 0
      /\ UNCHANGED <<clusters, call, todo, left, result, tier, party>>
  BY DEF propagateToAll
<1>2. TypeOK /\ TiersFit
  BY DEF DInv
<1>3. /\ left \in Nat /\ left + Sum(Room, Passed) = 0
      /\ \A c \in Clusters : result[c] = IF c \in Passed THEN Room[c] ELSE 0
  BY <1>1, <1>2 DEF TypeOK, TiersFit
<1>4. ASSUME NEW c \in Clusters PROVE result[c] = 0
  <2> SUFFICES ASSUME c \in Passed PROVE Room[c] = 0
    BY <1>3
  <2>1. /\ Room \in [Clusters -> Nat] /\ Selected \in SUBSET Clusters
        /\ IsFiniteSet(Selected)
    BY <1>1, <1>2, CallFacts
  <2>2. IsFiniteSet(Passed) /\ Passed \in SUBSET Clusters
    BY <2>1, FS_Subset DEF Passed
  <2>3. \A d \in Passed : Room[d] \in Nat
    BY <2>1, <2>2
  <2>4. Room[c] <= Sum(Room, Passed) /\ Sum(Room, Passed) \in Nat
    BY <2>2, <2>3, SumTerm, SumNat
  <2>5. Room[c] \in Nat /\ left \in Nat /\ left + Sum(Room, Passed) = 0
    BY <1>3, <2>3
  <2>6. Sum(Room, Passed) = 0
    BY <2>4, <2>5
  <2> QED
    BY <2>4, <2>5, <2>6
<1> QED
  BY <1>1, <1>4

\* propagateToAll keeps the invariant.
LEMMA PropagateKeeps ==
    ASSUME NEW bound, Fits(bound), DInv(bound), propagateToAll
    PROVE  DInv(bound)'
<1>1. /\ pc = "assign" /\ pc' = "done"
      /\ UNCHANGED <<clusters, call, todo, left, result, tier, party>>
  BY DEF propagateToAll
<1>2. TypeOK /\ WInv /\ CallFits(bound) /\ TiersFit /\ party.left = 0
  BY <1>1 DEF DInv
<1>3. TypeOK'
  BY <1>1, <1>2 DEF TypeOK, IsDivision
<1>4. WInv'
  BY <1>1, <1>2 DEF WInv, IsDivision, Balanced, FullTogether, NoDebts
<1>5. CallFits(bound)'
  BY <1>1, <1>2, Frame DEF CallFits, Room
<1>6. TiersFit' /\ TierFits'
  BY <1>1 DEF TiersFit, TierFits
<1>7. call'.replicas = 0 /\ \A c \in Clusters : result'[c] = 0
  BY PropagatesNothing
<1>8. Used' = {}
  BY <1>7 DEF Used
<1>9. ResultFits'
  <2>1. Sum(result', Clusters) = 0
    BY <1>7, DivisionAssumption, SumZero
  <2>2. ExactlyDivided'
    BY <1>7, <1>8, <2>1 DEF ExactlyDivided
  <2>3. WithinCapacity' /\ TiersInOrder'
    BY <1>8 DEF WithinCapacity, TiersInOrder
  <2>4. PlacedWhenPossible'
    BY <1>1 DEF PlacedWhenPossible
  <2>5. Undisturbed'
    <3>1. clusters' \in [Clusters -> Nat]
      BY <1>3 DEF TypeOK
    <3>2. \A c \in Clusters : result'[c] <= clusters'[c]
      BY <1>7, <3>1
    <3> QED
      BY <3>2 DEF Undisturbed
  <2>6. \A c \in Clusters : result'[c] <= call'.replicas
    BY <1>7
  <2> QED
    BY <2>2, <2>3, <2>4, <2>5, <2>6 DEF ResultFits
<1> QED
  BY <1>1, <1>2, <1>3, <1>4, <1>5, <1>6, <1>9 DEF DInv

\* assignByDuplicatedStrategy keeps the invariant.
LEMMA DuplicatedKeeps ==
    ASSUME NEW bound, Fits(bound), DInv(bound), assignByDuplicatedStrategy
    PROVE  DInv(bound)'
<1> DEFINE base == [c \in Clusters |-> IF c \in Tier THEN TierReplicas ELSE 0]
<1>1. pc = "assign" /\ call.placement.strategy = "Duplicated" /\ Dispense(0, <<>>, base)
  BY DEF assignByDuplicatedStrategy
<1>2. TypeOK /\ TiersFit /\ pc \in {"assign", "divide"} /\ call.placement.strategy \notin Dynamic
  BY <1>1 DEF DInv, Dynamic
<1>3. TierReplicas = call.replicas /\ TierReplicas \in Nat
  BY <1>1, <1>2, StaticFacts, TierFacts
<1>4. /\ base \in [Clusters -> Nat] /\ \A c \in Clusters \ Tier : base[c] = 0
      /\ \A c \in Clusters : base[c] <= call.replicas
  BY <1>3
<1> HIDE DEF base
<1>5. Fair(0, <<>>, base)
  BY <1>1, <1>2, <1>4, NoVotes DEF Fair
<1> QED
  BY <1>1, <1>5, DispenseKeeps

\* assignByStaticWeightStrategy keeps the invariant.
LEMMA StaticKeeps ==
    ASSUME NEW bound, Fits(bound), DInv(bound), assignByStaticWeightStrategy
    PROVE  DInv(bound)'
<1> DEFINE votes == getStaticWeightInfoList
<1>1. /\ pc = "assign" /\ call.placement.strategy = "StaticWeight"
      /\ Dispense(TierReplicas, votes, Nothing)
  BY DEF assignByStaticWeightStrategy
<1>2. TypeOK /\ TiersFit /\ pc \in {"assign", "divide"} /\ pc # "idle"
      /\ call.placement.strategy \notin Dynamic /\ call.placement.strategy # "Duplicated"
  BY <1>1 DEF DInv, Dynamic
<1>3. Tier \in SUBSET Clusters /\ IsFiniteSet(Tier) /\ Tier # {} /\ TierReplicas \in Nat
  BY <1>2, TierFacts
<1>4. call.placement.weight \in [Clusters -> Nat]
  <2>1. call.placement \in Placement
    BY <1>2, CallFacts, ArgumentTypes
  <2> QED
    BY <2>1 DEF Placement
<1>5. /\ DOMAIN votes \subseteq Tier /\ DOMAIN votes # {}
      /\ \A c \in DOMAIN votes : votes[c] \in Nat /\ votes[c] > 0
      /\ votes \in [DOMAIN votes -> Int]
  <2> DEFINE ruled == {c \in Tier : call.placement.weight[c] > 0}
  <2>1. CASE ruled = {}
    <3>1. votes = [c \in Tier |-> 1]
      BY <2>1 DEF getStaticWeightInfoList
    <3> QED
      BY <1>3, <3>1
  <2>2. CASE ruled # {}
    <3>1. votes = [c \in ruled |-> call.placement.weight[c]]
      BY <2>2 DEF getStaticWeightInfoList, Restrict
    <3>2. \A c \in ruled : /\ call.placement.weight[c] \in Nat /\ call.placement.weight[c] > 0
                           /\ c \in Tier
      BY <1>3, <1>4
    <3> HIDE DEF ruled, votes
    <3> QED
      BY <2>2, <3>1, <3>2
  <2> QED
    BY <2>1, <2>2
<1> HIDE DEF votes
<1>6. Sum(votes, DOMAIN votes) # 0
  <2>1. IsFiniteSet(DOMAIN votes)
    BY <1>3, <1>5, FS_Subset
  <2>2. PICK c \in DOMAIN votes : TRUE
    BY <1>5
  <2>3. votes[c] <= Sum(votes, DOMAIN votes)
    BY <1>5, <2>1, SumTerm
  <2>4. Sum(votes, DOMAIN votes) \in Nat /\ votes[c] \in Nat /\ votes[c] > 0
    BY <1>5, <2>1, SumNat
  <2> QED
    BY <2>3, <2>4
<1>7. Sum(Nothing, Tier) + TierReplicas = TierReplicas
  <2>1. Sum(Nothing, Tier) = 0
    BY <1>3, NothingFacts
  <2> QED
    BY <1>3, <2>1
<1>8. Fair(TierReplicas, votes, Nothing)
  BY <1>2, <1>3, <1>5, <1>6, <1>7, NothingFacts DEF Fair
<1> QED
  BY <1>1, <1>8, DispenseKeeps

\* A seat more, and one less to give.
LEMMA DivideKeeps ==
    ASSUME NEW bound, Fits(bound), DInv(bound), DivideTier
    PROVE  DInv(bound)'
<1>1. /\ pc = "divide" /\ AllocateSeat
      /\ UNCHANGED <<clusters, pc, call, todo, left, result, tier>>
  BY DEF DivideTier
<1>2. TypeOK /\ WInv /\ CallFits(bound) /\ TiersFit /\ TierFits /\ IsDivision(party)
  BY DEF DInv, WInv
<1>3. WInv'
  BY <1>1, <1>2, SeatKeeps
<1>4. TypeOK'
  BY <1>1, <1>2, <1>3 DEF TypeOK, WInv
<1>5. /\ Tier' = Tier /\ TierReplicas' = TierReplicas
      /\ Selected' = Selected /\ Passed' = Passed /\ Room' = Room
  BY <1>1, Frame
<1>6. CallFits(bound)' /\ TiersFit'
  BY <1>1, <1>2, <1>5 DEF CallFits, TiersFit
<1>7. PICK p \in DOMAIN party.votes :
         party' = [party EXCEPT !.seats[p] = @ + 1, !.left = @ - 1]
  BY <1>1 DEF AllocateSeat
<1>8. /\ party'.votes = party.votes
      /\ party'.seats = [party.seats EXCEPT ![p] = @ + 1]
      /\ party'.left = party.left - 1
  BY <1>2, <1>7 DEF IsDivision
<1>9. Tier \in SUBSET Clusters /\ IsFiniteSet(Tier) /\ DOMAIN party.votes \subseteq Tier
  BY <1>1, <1>2, TierFacts DEF TierFits
<1>10. IsFiniteSet(DOMAIN party.votes)
  BY <1>9, FS_Subset
<1>11. Target' = Target
  <2> DEFINE V == DOMAIN party.votes
  <2>1. party.seats \in [V -> Nat] /\ party.left \in Nat
    BY <1>2 DEF IsDivision
  <2>2. \A c \in V : party.seats[c] \in Int
    BY <2>1
  <2>3. party'.seats[p] = party.seats[p] + 1 /\ \A c \in V \ {p} : party'.seats[c] = party.seats[c]
    BY <1>8, <2>1
  <2>4. Sum(party'.seats, V) = Sum(party.seats, V) + 1
    BY <1>10, <2>2, <2>3, SumOneMore
  <2>5. Sum(party.seats, V) \in Int
    BY <1>10, <2>2, SumInt
  <2>6. Target = Sum(party.seats, V) + party.left /\ Target' = Sum(party'.seats, V) + party'.left
    BY <1>8 DEF Target
  <2> HIDE DEF V
  <2> QED
    BY <1>8, <2>1, <2>4, <2>5, <2>6
<1>12. NoDebts' = NoDebts
  BY <1>8 DEF NoDebts
<1>13. TargetFits => TargetFits'
  BY <1>1, <1>5, <1>8, <1>11, <1>12 DEF TargetFits
<1>14. Steady => Steady'
  BY <1>1, <1>5, <1>8 DEF Steady
<1>15. TierFits'
  BY <1>1, <1>2, <1>5, <1>8, <1>11, <1>13, <1>14 DEF TierFits
<1>16. ResultFits'
  BY <1>1 DEF ResultFits, ExactlyDivided, WithinCapacity, Undisturbed, TiersInOrder, Succeeded,
              PlacedWhenPossible
<1> QED
  BY <1>1, <1>3, <1>4, <1>6, <1>15, <1>16 DEF DInv

\* A division that has not begun satisfies the invariant of divisions.
LEMMA NoDivisionFits ==
    ASSUME party' = NoDivision
    PROVE  WInv' /\ IsDivision(party') /\ party'.left = 0
<1>1. DOMAIN party' = {"votes", "seats", "left"} /\ DOMAIN party'.votes = {} /\ party'.left = 0
  BY DEF NoDivision, Division
<1>2. IsDivision(party')
  BY <1>1 DEF NoDivision, Division, IsDivision
<1>3. Balanced' /\ FullTogether'
  BY <1>1 DEF Balanced, FullTogether
<1> QED
  BY <1>1, <1>2, <1>3 DEF WInv

\* The return of Schedule, with a result or without, keeps the invariant.
LEMMA ReturnKeeps ==
    ASSUME NEW bound, Fits(bound), DInv(bound), Return
    PROVE  DInv(bound)'
<1>1. /\ pc' = "idle" /\ call' = NoCall /\ todo' = {} /\ left' = 0 /\ result' = Nothing
      /\ party' = NoDivision /\ pc \in {"done", "failed"}
      /\ \/ pc = "done" /\ clusters' = result
         \/ UNCHANGED clusters
         \/ clusters' = Nothing
  BY DEF Return, Recorded, Failed
<1>2. TypeOK /\ CallFits(bound) /\ ResultFits
  BY DEF DInv
<1>3. clusters' \in [Clusters -> Nat] /\ \A c \in Clusters : clusters'[c] <= bound
  <2>1. CASE UNCHANGED clusters
    BY <1>2, <2>1 DEF TypeOK, CallFits
  <2>2. CASE pc = "done" /\ clusters' = result
    <3>1. result \in [Clusters -> Nat] /\ \A c \in Clusters : result[c] <= call.replicas
      BY <1>2, <2>2 DEF TypeOK, ResultFits
    <3>2. call.replicas \in Replicas
      BY <1>2, <2>2, CallFacts DEF Arguments
    <3>3. call.replicas \in Nat /\ call.replicas <= bound /\ bound \in Nat
      BY <3>2, DivisionAssumption DEF Fits
    <3>4. ASSUME NEW c \in Clusters PROVE result[c] <= bound
      <4>1. result[c] \in Nat /\ result[c] <= call.replicas
        BY <3>1
      <4> QED
        BY <3>3, <4>1
    <3> QED
      BY <2>2, <3>1, <3>4
  <2>3. CASE clusters' = Nothing
    BY <2>3, NothingFacts DEF Fits
  <2> QED
    BY <1>1, <2>1, <2>2, <2>3
<1>4. WInv' /\ IsDivision(party') /\ party'.left = 0
  BY <1>1, NoDivisionFits
<1>5. TypeOK'
  BY <1>1, <1>3, <1>4, NothingFacts DEF TypeOK
<1>6. CallFits(bound)' /\ TiersFit' /\ TierFits'
  BY <1>1, <1>3 DEF CallFits, TiersFit, TierFits
<1>7. ResultFits'
  BY <1>1 DEF ResultFits, ExactlyDivided, WithinCapacity, Undisturbed, TiersInOrder, Succeeded,
              PlacedWhenPossible
<1> QED
  BY <1>4, <1>5, <1>6, <1>7 DEF DInv

\* What a cluster gets of the tier under way.
seat(c) == IF c \in DOMAIN party.seats THEN party.seats[c] ELSE 0

\* What the clusters have of the tier once its seats are merged.
gain == [c \in Clusters |-> tier.base[c] + seat(c)]

\* The seats of a finished tier: no cluster has more than its votes.
LEMMA SeatsWithinVotes ==
    ASSUME WInv, IsFiniteSet(DOMAIN party.votes), party.left = 0, Target # 0, TargetFits
    PROVE  \A c \in DOMAIN party.votes : party.seats[c] <= party.votes[c]
<1> DEFINE V == DOMAIN party.votes
<1>1. /\ party.seats \in [V -> Nat] /\ party.votes \in [V -> Int]
  BY DEF WInv, IsDivision
<1>2. NoDebts /\ Target <= Sum(party.votes, V)
  BY DEF TargetFits
<1>3. Sum(party.seats, V) \in Nat /\ Sum(party.votes, V) \in Int
  BY <1>1, SumNat, SumInt
<1>4. Sum(party.seats, V) <= Sum(party.votes, V)
  BY <1>2, <1>3 DEF Target
<1>5. FullTogether
  BY DEF WInv
<1> SUFFICES ASSUME NEW p \in V, ~(party.seats[p] <= party.votes[p]) PROVE FALSE
  OBVIOUS
<1>6. party.seats[p] > party.votes[p]
  BY <1>1
<1>7. \A q \in V : party.seats[q] >= party.votes[q]
  BY <1>2, <1>5, <1>6 DEF FullTogether
<1>8. ASSUME NEW q \in V
      PROVE  /\ party.votes[q] \in Int /\ party.seats[q] \in Int
             /\ party.votes[q] <= party.seats[q]
  <2>1. party.votes[q] \in Int /\ party.seats[q] \in Nat /\ party.seats[q] >= party.votes[q]
    BY <1>1, <1>7
  <2> QED
    BY <2>1
<1>9. /\ Sum(party.votes, V) <= Sum(party.seats, V)
      /\ Sum(party.votes, V) = Sum(party.seats, V) => \A q \in V : party.votes[q] = party.seats[q]
  BY <1>8, SumMono
<1>10. Sum(party.votes, V) = Sum(party.seats, V)
  BY <1>3, <1>4, <1>9
<1>11. party.votes[p] = party.seats[p]
  BY <1>9, <1>10
<1> QED
  BY <1>1, <1>6, <1>11

\* A tier that is divided to the end.
LEMMA GainFacts ==
    ASSUME NEW bound, DInv(bound), pc = "divide", party.left = 0
    PROVE  /\ gain \in [Clusters -> Nat] /\ \A c \in Clusters \ Tier : gain[c] = 0
           /\ tier.share = TierReplicas
           /\ call.placement.strategy # "Duplicated" => Sum(gain, Tier) = TierReplicas
           /\ call.placement.strategy = "Duplicated" => \A c \in Clusters : gain[c] <= call.replicas
           /\ call.placement.strategy \in Dynamic =>
                 /\ \A c \in Tier : gain[c] <= Room[c]
                 /\ ~call.fresh => \/ \A c \in Tier : gain[c] >= clusters[c]
                                   \/ \A c \in Tier : gain[c] <= clusters[c]
<1> DEFINE V == DOMAIN party.votes
           B == tier.base
           s == [c \in Clusters |-> seat(c)]
<1>1. TypeOK /\ TiersFit /\ TierFits /\ WInv /\ pc \in {"assign", "divide"} /\ pc # "idle"
  BY DEF DInv
<1>2. Tier \in SUBSET Clusters /\ IsFiniteSet(Tier) /\ TierReplicas \in Nat
  BY <1>1, TierFacts
<1>3. /\ tier.share = TierReplicas /\ V \subseteq Tier
      /\ \A c \in Clusters \ Tier : B[c] = 0
  BY <1>1 DEF TierFits
<1>4. B \in [Clusters -> Nat] /\ party.seats \in [V -> Nat] /\ DOMAIN party.seats = V
      /\ party.votes \in [V -> Int]
  BY <1>1 DEF TypeOK, IsDivision
<1>5. IsFiniteSet(V)
  BY <1>2, <1>3, FS_Subset
<1>6. /\ s \in [Clusters -> Nat] /\ \A c \in V : s[c] = party.seats[c]
      /\ \A c \in Clusters \ V : s[c] = 0
      /\ \A c \in Clusters : s[c] = seat(c)
  BY <1>2, <1>3, <1>4 DEF seat
<1>7. \A c \in Clusters : gain[c] = B[c] + s[c]
  BY DEF gain
<1>8. gain \in [Clusters -> Nat]
  <2>1. ASSUME NEW c \in Clusters PROVE B[c] + s[c] \in Nat
    <3>1. B[c] \in Nat /\ s[c] \in Nat
      BY <1>4, <1>6
    <3> HIDE DEF B, s
    <3> QED
      BY <3>1
  <2>2. gain = [c \in Clusters |-> B[c] + s[c]]
    BY DEF gain
  <2> HIDE DEF B, s
  <2> QED
    BY <2>1, <2>2
<1> HIDE DEF s
<1>9. \A c \in Clusters \ Tier : gain[c] = 0
  <2> SUFFICES ASSUME NEW c \in Clusters \ Tier PROVE gain[c] = 0
    OBVIOUS
  <2>1. B[c] = 0 /\ s[c] = 0
    BY <1>3, <1>6
  <2> QED
    BY <1>7, <2>1
<1>10. Sum(s, Tier) = Sum(party.seats, V) /\ Sum(s, Tier) \in Nat
  <2>1. ASSUME NEW c \in V PROVE party.seats[c] \in Int /\ s[c] = party.seats[c]
    <3>1. party.seats[c] \in Nat
      BY <1>4
    <3>2. s[c] = party.seats[c]
      BY <1>6
    <3> QED
      BY <3>1, <3>2
  <2>2. Sum(s, V) = Sum(party.seats, V)
    BY <1>5, <2>1, SumCong
  <2>3. \A c \in V : s[c] \in Int
    BY <2>1
  <2>4. \A c \in Tier \ V : s[c] = 0
    BY <1>2, <1>6
  <2>5. Sum(s, Tier) = Sum(s, V)
    BY <1>2, <1>3, <2>3, <2>4, SumElsewhere
  <2>6. \A c \in Tier : s[c] \in Nat
    BY <1>2, <1>6
  <2>7. Sum(s, Tier) \in Nat
    BY <1>2, <2>6, SumNat
  <2> QED
    BY <2>2, <2>5, <2>7
<1>11. Target = Sum(party.seats, V)
  <2>1. Sum(party.seats, V) \in Nat
    BY <1>10
  <2> QED
    BY <2>1 DEF Target
<1>12. Sum(gain, Tier) = Sum(B, Tier) + Target
  <2>1. \A c \in Tier : B[c] \in Int
    <3>1. \A c \in Tier : B[c] \in Nat
      BY <1>2, <1>4
    <3> QED
      BY <3>1
  <2>2. \A c \in Tier : s[c] \in Int
    <3>1. \A c \in Tier : s[c] \in Nat
      BY <1>2, <1>6
    <3> QED
      BY <3>1
  <2>3. \A c \in Tier : gain[c] = B[c] + s[c]
    BY <1>2, <1>7
  <2> HIDE DEF B
  <2>4. Sum(gain, Tier) = Sum(B, Tier) + Sum(s, Tier)
    BY <1>2, <2>1, <2>2, <2>3, SumPlus
  <2> QED
    BY <1>10, <1>11, <2>4
<1>13. call.placement.strategy # "Duplicated" => Sum(gain, Tier) = TierReplicas
  BY <1>1, <1>3, <1>12 DEF TierFits
<1>14. ASSUME call.placement.strategy = "Duplicated", NEW c \in Clusters
       PROVE  gain[c] <= call.replicas
  <2>1. V = {} /\ B[c] <= call.replicas
    BY <1>1, <1>14 DEF TierFits
  <2>2. s[c] = 0 /\ B[c] \in Nat
    BY <1>4, <1>6, <2>1
  <2>3. gain[c] = B[c]
    BY <1>7, <2>2
  <2> QED
    BY <2>1, <2>3
<1>15. ASSUME Target = 0, NEW c \in Clusters PROVE s[c] = 0
  <2>1. CASE c \in V
    <3>1. party.seats[c] <= Sum(party.seats, V)
      BY <1>4, <1>5, <2>1, SumTerm
    <3>2. party.seats[c] \in Nat
      BY <1>4, <2>1
    <3> QED
      BY <1>6, <1>11, <1>15, <2>1, <3>1, <3>2
  <2>2. CASE c \notin V
    BY <1>6, <2>2
  <2> QED
    BY <2>1, <2>2
<1>16. ASSUME call.placement.strategy \in Dynamic, Target # 0, NEW c \in V
       PROVE  s[c] <= party.votes[c] /\ B[c] + party.votes[c] <= Room[c]
  <2>1. TargetFits
    BY <1>1, <1>16 DEF TierFits
  <2>2. party.seats[c] <= party.votes[c]
    BY <1>1, <1>5, <1>16, <2>1, SeatsWithinVotes
  <2>3. B[c] + party.votes[c] <= Room[c]
    BY <1>16, <2>1 DEF TargetFits
  <2> QED
    BY <1>6, <2>2, <2>3
<1>17. ASSUME call.placement.strategy \in Dynamic, NEW c \in Tier PROVE gain[c] <= Room[c]
  <2>1. /\ B[c] \in Nat /\ s[c] \in Nat /\ gain[c] = B[c] + s[c] /\ c \in Clusters
        /\ Room[c] \in Nat
    BY <1>1, <1>2, <1>4, <1>6, <1>7, CallFacts
  <2>2. B[c] <= Room[c]
    BY <1>1, <1>17 DEF TierFits
  <2>3. CASE s[c] = 0
    BY <2>1, <2>2, <2>3
  <2>4. CASE s[c] # 0
    <3>1. c \in V /\ Target # 0
      BY <1>6, <1>15, <2>1, <2>4
    <3>2. s[c] <= party.votes[c] /\ B[c] + party.votes[c] <= Room[c]
      BY <1>16, <1>17, <3>1
    <3>3. party.votes[c] \in Int
      BY <1>4, <3>1
    <3> HIDE DEF B
    <3> QED
      BY <2>1, <3>2, <3>3
  <2> QED
    BY <2>3, <2>4
<1>18. ASSUME call.placement.strategy \in Dynamic, ~call.fresh
       PROVE  \/ \A c \in Tier : gain[c] >= clusters[c]
              \/ \A c \in Tier : gain[c] <= clusters[c]
  <2>1. Steady
    BY <1>1, <1>18 DEF TierFits
  <2>2. \A c \in Tier : /\ B[c] \in Nat /\ s[c] \in Nat /\ gain[c] = B[c] + s[c]
                        /\ c \in Clusters /\ clusters[c] \in Nat
    BY <1>1, <1>2, <1>4, <1>6, <1>7 DEF TypeOK
  <2>3. CASE \A c \in Tier : B[c] >= clusters[c]
    <3>1. ASSUME NEW c \in Tier PROVE gain[c] >= clusters[c]
      <4>1. /\ B[c] \in Nat /\ s[c] \in Nat /\ gain[c] = B[c] + s[c] /\ clusters[c] \in Nat
            /\ B[c] >= clusters[c]
        BY <2>2, <2>3
      <4> HIDE DEF B
      <4> QED
        BY <4>1
    <3> QED
      BY <3>1
  <2>4. CASE /\ \A c \in Tier : B[c] = 0
             /\ \A c \in V : party.votes[c] <= clusters[c]
    <3>1. ASSUME NEW c \in Tier PROVE gain[c] <= clusters[c]
      <4>1. /\ B[c] = 0 /\ s[c] \in Nat /\ gain[c] = s[c] /\ clusters[c] \in Nat
            /\ c \in Clusters
        <5>1. /\ B[c] = 0 /\ s[c] \in Nat /\ gain[c] = B[c] + s[c] /\ clusters[c] \in Nat
              /\ c \in Clusters
          BY <2>2, <2>4
        <5> HIDE DEF B
        <5> QED
          BY <5>1
      <4>2. CASE s[c] = 0
        BY <4>1, <4>2
      <4>3. CASE s[c] # 0
        <5>1. c \in V /\ Target # 0
          BY <1>6, <1>15, <4>1, <4>3
        <5>2. s[c] <= party.votes[c] /\ party.votes[c] <= clusters[c] /\ party.votes[c] \in Int
          BY <1>4, <1>16, <1>18, <2>4, <5>1
        <5> QED
          BY <4>1, <5>2
      <4> QED
        BY <4>2, <4>3
    <3> QED
      BY <3>1
  <2> QED
    BY <2>1, <2>3, <2>4 DEF Steady
<1> QED
  BY <1>3, <1>8, <1>9, <1>13, <1>14, <1>17, <1>18

\* The end of a tier: what the result is then.
LEMMA FinishFacts ==
    ASSUME NEW bound, DInv(bound), FinishTier
    PROVE  /\ pc = "divide" /\ party.left = 0 /\ UNCHANGED <<clusters, call, tier, party>>
           /\ result' \in [Clusters -> Nat]
           /\ \A c \in Passed : result'[c] = Room[c]
           /\ \A c \in Tier : result'[c] = gain[c]
           /\ \A c \in (Clusters \ Passed) \ Tier : result'[c] = 0
           /\ left' = left - TierReplicas /\ left' \in Nat
           /\ todo' = todo \ Tier
<1>1. /\ pc = "divide" /\ party.left = 0 /\ UNCHANGED <<clusters, call, tier, party>>
      /\ result' = [c \in Clusters |-> result[c] + tier.base[c] + seat(c)]
      /\ left' = left - tier.share /\ todo' = todo \ Tier
  BY DEF FinishTier, seat
<1>2. TypeOK /\ TiersFit /\ WInv /\ pc \in {"assign", "divide"} /\ pc # "idle"
  BY <1>1 DEF DInv
<1>3. /\ Tier \in SUBSET Clusters /\ Tier \cap Passed = {} /\ Passed \in SUBSET Selected
      /\ TierReplicas \in Nat /\ TierReplicas <= left
  BY <1>2, TierFacts
<1>4. gain \in [Clusters -> Nat] /\ (\A c \in Clusters \ Tier : gain[c] = 0)
      /\ tier.share = TierReplicas
  BY <1>1, GainFacts
<1>5. /\ result \in [Clusters -> Nat] /\ left \in Nat /\ tier.base \in [Clusters -> Nat]
      /\ \A c \in Clusters : seat(c) \in Nat
  BY <1>1, <1>2 DEF TypeOK, seat, IsDivision
<1>6. Passed \in SUBSET Clusters /\ Room \in [Clusters -> Nat]
  BY <1>2, <1>3, CallFacts
<1>7. \A c \in Clusters : result[c] = IF c \in Passed THEN Room[c] ELSE 0
  BY <1>1, <1>2 DEF TiersFit
<1>8. ASSUME NEW c \in Clusters
      PROVE  result'[c] = result[c] + gain[c] /\ result'[c] \in Nat
  <2>1. result[c] \in Nat /\ tier.base[c] \in Nat /\ seat(c) \in Nat
    BY <1>5
  <2>2. result'[c] = result[c] + tier.base[c] + seat(c) /\ gain[c] = tier.base[c] + seat(c)
    BY <1>1 DEF gain
  <2> QED
    BY <2>1, <2>2
<1>9. result' \in [Clusters -> Nat]
  <2>1. \A c \in Clusters : result'[c] \in Nat
    BY <1>8
  <2>2. result' = [c \in Clusters |-> result'[c]]
    BY <1>1
  <2> QED
    BY <2>1, <2>2
<1>10. ASSUME NEW c \in Clusters
       PROVE  /\ c \in Passed => result'[c] = Room[c]
              /\ c \in Tier => result'[c] = gain[c]
              /\ c \notin Passed /\ c \notin Tier => result'[c] = 0
  <2>1. result'[c] = result[c] + gain[c] /\ gain[c] \in Nat /\ Room[c] \in Nat
    BY <1>4, <1>6, <1>8
  <2>2. CASE c \in Passed
    <3>1. c \notin Tier /\ gain[c] = 0 /\ result[c] = Room[c]
      BY <1>3, <1>4, <1>7, <2>2
    <3> QED
      BY <2>1, <2>2, <3>1
  <2>3. CASE c \notin Passed
    <3>1. result[c] = 0
      BY <1>7, <2>3
    <3>2. result'[c] = gain[c]
      BY <2>1, <3>1
    <3> QED
      BY <1>4, <2>3, <3>2
  <2> QED
    BY <2>2, <2>3
<1>11. left' = left - TierReplicas /\ left' \in Nat
  BY <1>1, <1>3, <1>4, <1>5
<1> QED
  BY <1>1, <1>3, <1>6, <1>9, <1>10, <1>11

\* The last tier: the result.
LEMMA DoneFits ==
    ASSUME NEW bound, DInv(bound), FinishTier, pc' = "done"
    PROVE  ResultFits'
<1>1. /\ pc = "divide" /\ party.left = 0 /\ UNCHANGED <<clusters, call, tier, party>>
      /\ result' \in [Clusters -> Nat]
      /\ \A c \in Passed : result'[c] = Room[c]
      /\ \A c \in Tier : result'[c] = gain[c]
      /\ \A c \in (Clusters \ Passed) \ Tier : result'[c] = 0
      /\ left' = left - TierReplicas /\ left' \in Nat
  BY FinishFacts
<1>2. TypeOK /\ TiersFit /\ pc \in {"assign", "divide"} /\ pc # "idle"
  BY <1>1 DEF DInv
<1>3. ~call.placement.overflow \/ left' <= 0
  <2>1. pc' = IF ~call.placement.overflow \/ left' <= 0 THEN "done"
              ELSE IF todo' = {} THEN "failed" ELSE "assign"
    BY DEF FinishTier
  <2> QED
    BY <2>1
<1>4. /\ Tier \in SUBSET todo /\ Tier \in SUBSET Clusters
      /\ Tier \cap Passed = {} /\ IsFiniteSet(Tier) /\ IsFiniteSet(Passed)
      /\ Tier \in SUBSET Selected /\ Passed \in SUBSET Selected
      /\ TierReplicas \in Nat /\ TierReplicas <= left
      /\ ~call.placement.overflow =>
            /\ TierReplicas = call.replicas /\ left = call.replicas
            /\ Tier = Selected /\ Tier = todo /\ Passed = {}
  BY <1>2, TierFacts
<1>5. /\ gain \in [Clusters -> Nat] /\ \A c \in Clusters \ Tier : gain[c] = 0
      /\ call.placement.strategy # "Duplicated" => Sum(gain, Tier) = TierReplicas
      /\ call.placement.strategy = "Duplicated" => \A c \in Clusters : gain[c] <= call.replicas
      /\ call.placement.strategy \in Dynamic =>
            /\ \A c \in Tier : gain[c] <= Room[c]
            /\ ~call.fresh => \/ \A c \in Tier : gain[c] >= clusters[c]
                              \/ \A c \in Tier : gain[c] <= clusters[c]
  BY <1>1, GainFacts
<1>6. /\ call.replicas \in Nat /\ Room \in [Clusters -> Nat] /\ IsFiniteSet(Clusters)
      /\ Selected \in SUBSET call.feasible /\ Selected \in SUBSET Clusters
      /\ call.placement.overflow => call.placement.strategy \in Dynamic
      /\ call.placement.tier \in [Clusters -> Nat]
  BY <1>2, CallFacts
<1>7. left \in Nat /\ left + Sum(Room, Passed) = call.replicas
  BY <1>1, <1>2 DEF TypeOK, TiersFit
<1>8. Passed \in SUBSET Clusters /\ Passed \cup Tier \in SUBSET Clusters
      /\ IsFiniteSet(Passed \cup Tier)
  BY <1>4, <1>6, FS_Union
<1>9. left = TierReplicas
  BY <1>1, <1>3, <1>4, <1>7
<1>10. ASSUME call.placement.strategy # "Duplicated"
       PROVE  Sum(result', Clusters) = call.replicas
  <2>1. \A c \in Clusters : result'[c] \in Nat
    BY <1>1
  <2>2. /\ \A c \in Passed \cup Tier : result'[c] \in Int
        /\ \A c \in Clusters \ (Passed \cup Tier) : result'[c] = 0
    BY <1>1, <1>8, <2>1
  <2>3. Sum(result', Clusters) = Sum(result', Passed \cup Tier)
    BY <1>6, <1>8, <2>2, SumElsewhere
  <2>4. Passed \cap Tier = {}
    BY <1>4
  <2>5. Sum(result', Passed \cup Tier) = Sum(result', Passed) + Sum(result', Tier)
    BY <1>4, <2>2, <2>4, SumUnion
  <2>6. Sum(result', Passed) = Sum(Room, Passed)
    <3>1. ASSUME NEW c \in Passed PROVE Room[c] \in Int /\ result'[c] = Room[c]
      <4>1. Room[c] \in Nat
        BY <1>6, <1>8
      <4> QED
        BY <1>1, <4>1
    <3> QED
      BY <1>4, <3>1, SumCong
  <2>7. Sum(result', Tier) = Sum(gain, Tier)
    <3>1. ASSUME NEW c \in Tier PROVE gain[c] \in Int /\ result'[c] = gain[c]
      <4>1. gain[c] \in Nat
        BY <1>4, <1>5
      <4> QED
        BY <1>1, <4>1
    <3> QED
      BY <1>4, <3>1, SumCong
  <2>8. Sum(gain, Tier) = TierReplicas
    BY <1>5, <1>10
  <2>9. Sum(Room, Passed) \in Int
    <3>1. \A c \in Passed : Room[c] \in Nat
      BY <1>6, <1>8
    <3>2. Sum(Room, Passed) \in Nat
      BY <1>4, <3>1, SumNat
    <3> QED
      BY <3>2
  <2> QED
    BY <1>4, <1>7, <1>9, <2>3, <2>5, <2>6, <2>7, <2>8, <2>9
<1>11. ASSUME NEW c \in Clusters, result'[c] > 0 PROVE c \in Passed \/ c \in Tier
  BY <1>1, <1>11
<1>12. ExactlyDivided'
  <2>1. Used' \subseteq call.feasible
    BY <1>4, <1>6, <1>11 DEF Used
  <2> QED
    BY <1>1, <1>10, <2>1 DEF ExactlyDivided, Succeeded
<1>13. WithinCapacity'
  <2> SUFFICES ASSUME call.placement.strategy \in Dynamic, NEW c \in Clusters, result'[c] > 0
               PROVE  result'[c] <= Room[c]
    BY <1>1 DEF WithinCapacity, Succeeded, Used, Room
  <2>1. CASE c \in Passed
    <3>1. result'[c] = Room[c] /\ Room[c] \in Nat
      BY <1>1, <1>6, <2>1
    <3> QED
      BY <3>1
  <2>2. CASE c \in Tier
    BY <1>1, <1>5, <2>2
  <2> QED
    BY <1>11, <2>1, <2>2
<1>14. Undisturbed'
  <2> SUFFICES ASSUME call.placement.strategy \in Dynamic, ~call.fresh, ~call.placement.overflow
               PROVE  \/ \A c \in {d \in Selected : clusters[d] > 0} : result'[c] >= clusters[c]
                      \/ \A c \in Clusters : result'[c] <= clusters[c]
    BY <1>1 DEF Undisturbed, Succeeded, Selected
  <2>1. Tier = Selected /\ Passed = {}
    BY <1>4
  <2>2. CASE \A c \in Tier : gain[c] >= clusters[c]
    BY <1>1, <2>1, <2>2
  <2>3. CASE \A c \in Tier : gain[c] <= clusters[c]
    <3>1. ASSUME NEW c \in Clusters PROVE result'[c] <= clusters[c]
      <4>1. CASE c \in Tier
        BY <1>1, <2>3, <4>1
      <4>2. CASE c \notin Tier
        <5>1. result'[c] = 0
          BY <1>1, <2>1, <4>2
        <5>2. clusters[c] \in Nat
          BY <1>2 DEF TypeOK
        <5> QED
          BY <5>1, <5>2
      <4> QED
        BY <4>1, <4>2
    <3> QED
      BY <3>1
  <2> QED
    BY <1>5, <2>2, <2>3
<1>15. TiersInOrder'
  <2> SUFFICES ASSUME call.placement.overflow, NEW c \in Clusters, result'[c] > 0,
                      NEW d \in Selected, call.placement.tier[d] < call.placement.tier[c]
               PROVE  result'[d] = Room[d]
    BY <1>1 DEF TiersInOrder, Used, Selected, Room
  <2>1. call.placement.tier[c] \in Nat /\ call.placement.tier[d] \in Nat
    BY <1>6
  <2>2. d \in Passed
    <3> SUFFICES ASSUME d \in todo PROVE FALSE
      BY DEF Passed
    <3>1. CASE c \in Passed
      <4>1. call.placement.tier[c] < call.placement.tier[d]
        BY <1>1, <1>2, <3>1 DEF TiersFit
      <4> QED
        BY <2>1, <4>1
    <3>2. CASE c \in Tier
      <4>1. call.placement.tier[c] <= call.placement.tier[d]
        BY <1>2, <3>2, TierFacts
      <4> QED
        BY <2>1, <4>1
    <3> QED
      BY <1>11, <3>1, <3>2
  <2> QED
    BY <1>1, <2>2
<1>16. PlacedWhenPossible'
  BY DEF PlacedWhenPossible
<1>17. ASSUME NEW c \in Clusters PROVE result'[c] <= call.replicas
  <2>1. CASE call.placement.strategy # "Duplicated"
    <3>1. \A d \in Clusters : result'[d] \in Nat
      BY <1>1
    <3>2. result'[c] <= Sum(result', Clusters)
      BY <1>6, <3>1, SumTerm
    <3> QED
      BY <1>10, <2>1, <3>2
  <2>2. CASE call.placement.strategy = "Duplicated"
    <3>1. Passed = {}
      <4>1. call.placement.strategy \notin Dynamic
        BY <2>2 DEF Dynamic
      <4> QED
        BY <1>4, <1>6, <4>1
    <3>2. CASE c \in Tier
      BY <1>1, <1>5, <2>2, <3>2
    <3>3. CASE c \notin Tier
      BY <1>1, <1>6, <3>1, <3>3
    <3> QED
      BY <3>2, <3>3
  <2> QED
    BY <2>1, <2>2
<1> QED
  BY <1>1, <1>12, <1>13, <1>14, <1>15, <1>16, <1>17 DEF ResultFits

\* A tier that others follow is full.
LEMMA FullTier ==
    ASSUME NEW bound, DInv(bound), FinishTier, call.placement.overflow, left' > 0
    PROVE  /\ TierReplicas = Sum(Room, Tier) /\ Sum(Room, Tier) \in Nat
           /\ \A c \in Tier : gain[c] = Room[c]
<1>1. pc = "divide" /\ party.left = 0 /\ left' = left - TierReplicas
  BY FinishFacts
<1>2. TypeOK /\ TiersFit /\ pc \in {"assign", "divide"} /\ pc # "idle" /\ left \in Nat
  BY <1>1 DEF DInv, TypeOK
<1>3. /\ Tier \in SUBSET Clusters /\ IsFiniteSet(Tier) /\ TierReplicas \in Nat
      /\ TierReplicas < left => TierReplicas = Sum(Room, Tier)
  BY <1>2, TierFacts
<1>4. TierReplicas = Sum(Room, Tier)
  BY <1>1, <1>2, <1>3
<1>5. call.placement.strategy \in Dynamic /\ Room \in [Clusters -> Nat]
  BY <1>2, CallFacts
<1>6. call.placement.strategy # "Duplicated"
  BY <1>5 DEF Dynamic
<1>7. /\ gain \in [Clusters -> Nat] /\ Sum(gain, Tier) = TierReplicas
      /\ \A c \in Tier : gain[c] <= Room[c]
  BY <1>1, <1>5, <1>6, GainFacts
<1>8. ASSUME NEW c \in Tier PROVE gain[c] \in Int /\ Room[c] \in Int /\ gain[c] <= Room[c]
  <2>1. gain[c] \in Nat /\ Room[c] \in Nat
    BY <1>3, <1>5, <1>7
  <2> QED
    BY <1>7, <2>1
<1>9. Sum(gain, Tier) = Sum(Room, Tier) => \A c \in Tier : gain[c] = Room[c]
  BY <1>3, <1>8, SumMono
<1> QED
  BY <1>3, <1>4, <1>7, <1>9

\* The end of a tier keeps the invariant.
LEMMA FinishKeeps ==
    ASSUME NEW bound, Fits(bound), DInv(bound), FinishTier
    PROVE  DInv(bound)'
<1>1. /\ pc = "divide" /\ party.left = 0 /\ UNCHANGED <<clusters, call, tier, party>>
      /\ result' \in [Clusters -> Nat]
      /\ \A c \in Passed : result'[c] = Room[c]
      /\ \A c \in Tier : result'[c] = gain[c]
      /\ \A c \in (Clusters \ Passed) \ Tier : result'[c] = 0
      /\ left' = left - TierReplicas /\ left' \in Nat
      /\ todo' = todo \ Tier
  BY FinishFacts
<1>2. TypeOK /\ TiersFit /\ WInv /\ CallFits(bound) /\ pc \in {"assign", "divide"} /\ pc # "idle"
  BY <1>1 DEF DInv
<1>3. pc' = IF ~call.placement.overflow \/ left' <= 0 THEN "done"
            ELSE IF todo' = {} THEN "failed" ELSE "assign"
  BY DEF FinishTier
<1>4. pc' \in {"done", "failed", "assign"}
  BY <1>3
<1>5. TypeOK'
  <2>1. todo' \in SUBSET Clusters /\ clusters' \in [Clusters -> Nat] /\ IsDivision(party')
    BY <1>1, <1>2 DEF TypeOK
  <2>2. call' \in Arguments
    BY <1>1, <1>2 DEF TypeOK
  <2> QED
    BY <1>1, <1>4, <2>1, <2>2 DEF TypeOK
<1>6. WInv'
  BY <1>1, <1>2 DEF WInv, IsDivision, Balanced, FullTogether, NoDebts
<1>7. Room' = Room /\ Selected' = Selected
  BY <1>1 DEF Room, Selected
<1>8. CallFits(bound)'
  BY <1>1, <1>2, <1>7 DEF CallFits
<1>9. TierFits'
  BY <1>4 DEF TierFits
<1>10. /\ Tier \in SUBSET todo /\ Tier \in SUBSET Clusters
       /\ Tier \cap Passed = {} /\ IsFiniteSet(Tier) /\ IsFiniteSet(Passed)
       /\ Tier \in SUBSET Selected /\ Passed \in SUBSET Selected /\ TierReplicas \in Nat
       /\ call.placement.overflow => \A c \in Tier, d \in todo \ Tier :
                                        call.placement.tier[c] < call.placement.tier[d]
  BY <1>2, TierFacts
<1>11. /\ Room \in [Clusters -> Nat] /\ call.replicas \in Nat /\ Selected \in SUBSET Clusters
       /\ call.placement.overflow => call.placement.strategy \in Dynamic
       /\ call \in Arguments
  BY <1>2, CallFacts
<1>12. /\ left \in Nat /\ left + Sum(Room, Passed) = call.replicas /\ todo \subseteq Selected
       /\ \A c \in Passed, d \in todo : call.placement.tier[c] < call.placement.tier[d]
  BY <1>1, <1>2 DEF TypeOK, TiersFit
<1>13. \A c \in Passed \cup Tier : Room[c] \in Nat
  BY <1>10, <1>11
<1>14. Sum(Room, Passed \cup Tier) = Sum(Room, Passed) + Sum(Room, Tier)
       /\ Sum(Room, Passed) \in Nat
  <2>1. \A c \in Passed \cup Tier : Room[c] \in Int
    BY <1>13
  <2>2. Passed \cap Tier = {}
    BY <1>10
  <2>3. Sum(Room, Passed) \in Nat
    BY <1>10, <1>13, SumNat
  <2> QED
    BY <1>10, <2>1, <2>2, <2>3, SumUnion
<1>15. CASE pc' = "done"
  <2>1. ResultFits'
    BY <1>15, DoneFits
  <2>2. TiersFit'
    BY <1>15 DEF TiersFit
  <2> QED
    BY <1>1, <1>5, <1>6, <1>8, <1>9, <2>1, <2>2 DEF DInv
<1>16. CASE pc' = "failed"
  <2>1. call.placement.overflow /\ left' > 0 /\ todo' = {}
    BY <1>1, <1>3, <1>16
  <2>2. TierReplicas = Sum(Room, Tier) /\ Sum(Room, Tier) \in Nat
    BY <2>1, FullTier
  <2>3. Passed \cup Tier = Selected
    BY <1>1, <1>10, <1>12, <2>1 DEF Passed
  <2>4. Sum(Room, Selected) = Sum(Room, Passed) + Sum(Room, Tier)
    BY <1>14, <2>3
  <2>5. Sum(Room, Selected) < call.replicas
    BY <1>1, <1>11, <1>12, <1>14, <2>1, <2>2, <2>4
  <2>6. NoRoom(call)
    BY <1>11, <2>1, <2>5, SmallSelectionNoRoom DEF Room, Selected
  <2>7. PlacedWhenPossible'
    BY <1>1, <2>6 DEF PlacedWhenPossible, NoRoom
  <2>8. ResultFits'
    BY <1>16, <2>7 DEF ResultFits, ExactlyDivided, WithinCapacity, Undisturbed, TiersInOrder,
                       Succeeded
  <2>9. TiersFit'
    BY <1>16 DEF TiersFit
  <2> QED
    BY <1>1, <1>5, <1>6, <1>8, <1>9, <2>8, <2>9 DEF DInv
<1>17. CASE pc' = "assign"
  <2>1. call.placement.overflow /\ left' > 0 /\ todo' # {}
    BY <1>1, <1>3, <1>17
  <2>2. /\ TierReplicas = Sum(Room, Tier) /\ Sum(Room, Tier) \in Nat
        /\ \A c \in Tier : gain[c] = Room[c]
    BY <2>1, FullTier
  <2>3. Passed' = Passed \cup Tier
    BY <1>1, <1>7, <1>10, <1>12 DEF Passed
  <2>4. left' + Sum(Room, Passed') = call.replicas
    BY <1>1, <1>11, <1>12, <1>14, <2>2, <2>3
  <2>5. \A c \in Clusters : result'[c] = IF c \in Passed' THEN Room[c] ELSE 0
    BY <1>1, <2>2, <2>3
  <2>6. \A c \in Passed', d \in todo' : call.placement.tier[c] < call.placement.tier[d]
    BY <1>1, <1>10, <1>12, <2>1, <2>3
  <2>7. todo' \subseteq Selected
    BY <1>1, <1>12
  <2>8. TiersFit'
    BY <1>1, <1>7, <2>1, <2>4, <2>5, <2>6, <2>7 DEF TiersFit
  <2>9. ResultFits'
    BY <1>17 DEF ResultFits, ExactlyDivided, WithinCapacity, Undisturbed, TiersInOrder, Succeeded,
                 PlacedWhenPossible
  <2> QED
    BY <1>1, <1>5, <1>6, <1>8, <1>9, <2>8, <2>9 DEF DInv
<1> QED
  BY <1>4, <1>15, <1>16, <1>17

\* What the estimators leave: an authentic number, and a small one for a call with
\* replicas.
LEMMA EstimateFacts ==
    ASSUME NEW bound, Fits(bound), NEW replicas \in Replicas,
           NEW reports \in [Estimators -> [Clusters -> Reports \cup {UnauthenticReplica}]],
           NEW c \in Clusters
    PROVE  /\ calAvailableReplicas(replicas, reports)[c] \in Nat
           /\ replicas > 0 => calAvailableReplicas(replicas, reports)[c] <= bound
<1> DEFINE known == {reports[e][c] : e \in Estimators} \ {UnauthenticReplica}
           least == Min(known \cup {MaxInt32})
<1>1. known \subseteq Reports /\ UnauthenticReplica \notin known
  OBVIOUS
<1>2. known \subseteq Nat /\ MaxInt32 \in Nat /\ replicas \in Nat
  BY <1>1, DivisionAssumption
<1>3. calAvailableReplicas(replicas, reports)[c] =
         IF replicas > 0 /\ least = MaxInt32 THEN replicas
         ELSE IF replicas > 0 THEN least ELSE MaxInt32
  BY DEF calAvailableReplicas
<1> HIDE DEF known
<1>4. known \cup {MaxInt32} \in SUBSET Nat /\ known \cup {MaxInt32} # {}
  BY <1>2
<1>5. least \in known \cup {MaxInt32}
  BY <1>4, SmallestOf
<1> HIDE DEF least
<1>6. least \in Nat /\ (least # MaxInt32 => least <= bound) /\ replicas <= bound
  BY <1>1, <1>2, <1>5 DEF Fits
<1> QED
  BY <1>2, <1>3, <1>6

\* A new call keeps the invariant.
LEMMA ScheduleKeeps ==
    ASSUME NEW bound, Fits(bound), DInv(bound),
           NEW placement \in Placements, NEW replicas \in Replicas, NEW fresh \in BOOLEAN,
           NEW feasible \in SUBSET Clusters,
           NEW reports \in [Estimators -> [Clusters -> Reports \cup {UnauthenticReplica}]],
           Schedule(placement, replicas, fresh, feasible, reports)
    PROVE  DInv(bound)'
<1> DEFINE room == calAvailableReplicas(replicas, reports)
<1>1. /\ pc = "idle"
      /\ call' = [placement |-> placement, replicas |-> replicas, fresh |-> fresh,
                  feasible |-> feasible, assigned |-> clusters,
                  allocatable |-> room, available |-> AvailableReplicas(room)]
      /\ todo' = SelectBestClusters(call')
      /\ pc' = (IF todo' = {} THEN "failed" ELSE "assign")
      /\ left' = replicas /\ result' = Nothing
      /\ UNCHANGED <<clusters, tier, party>>
  BY DEF Schedule
<1>2. TypeOK /\ WInv /\ CallFits(bound) /\ party.left = 0
  BY <1>1 DEF DInv
<1>3. clusters \in [Clusters -> Nat]
  BY <1>2 DEF TypeOK
<1>4. \A c \in Clusters : room[c] \in Nat /\ (replicas > 0 => room[c] <= bound)
  BY EstimateFacts
<1>5. room \in [Clusters -> Nat]
  <2>1. room = [c \in Clusters |-> room[c]]
    BY DEF calAvailableReplicas
  <2> HIDE DEF room
  <2> QED
    BY <1>4, <2>1
<1> HIDE DEF room
<1>6. /\ AvailableReplicas(room) \in [Clusters -> Nat]
      /\ \A c \in Clusters : AvailableReplicas(room)[c] = room[c] + clusters[c]
  <2>1. ASSUME NEW c \in Clusters PROVE room[c] + clusters[c] \in Nat
    <3>1. room[c] \in Nat /\ clusters[c] \in Nat
      BY <1>3, <1>5
    <3> QED
      BY <3>1
  <2> QED
    BY <2>1 DEF AvailableReplicas
<1>7. call' \in Arguments
  BY <1>1, <1>3, <1>5, <1>6 DEF Arguments
<1>8. todo' \in SUBSET Clusters
  BY <1>1, <1>7, SelectedIsFeasible, ArgumentTypes
<1>9. replicas \in Nat /\ pc' \in {"failed", "assign"}
  BY <1>1, DivisionAssumption
<1>10. TypeOK'
  BY <1>1, <1>2, <1>7, <1>8, <1>9, NothingFacts DEF TypeOK
<1>11. WInv'
  BY <1>1, <1>2 DEF WInv, IsDivision, Balanced, FullTogether, NoDebts
<1>12. CallFits(bound)'
  <2>1. /\ call'.assigned = clusters /\ Room' = AvailableReplicas(room)
        /\ call'.allocatable = room /\ call'.replicas = replicas
    BY <1>1 DEF Room
  <2> QED
    BY <1>1, <1>2, <1>4, <1>6, <2>1 DEF CallFits, room
<1>13. TierFits' /\ party'.left = 0
  BY <1>1, <1>2, <1>9 DEF TierFits
<1>14. TiersFit'
  <2> SUFFICES ASSUME pc' = "assign" PROVE TiersFit'
    BY <1>9 DEF TiersFit
  <2>1. todo' # {} /\ Selected' = todo'
    BY <1>1 DEF Selected
  <2>2. Passed' = {}
    BY <2>1 DEF Passed
  <2>3. Sum(Room', Passed') = 0
    BY <2>2, SumEmpty
  <2>4. left' + Sum(Room', Passed') = call'.replicas
    BY <1>1, <1>9, <2>3
  <2>5. \A c \in Clusters : result'[c] = 0
    BY <1>1, NothingFacts
  <2> QED
    BY <2>1, <2>2, <2>4, <2>5 DEF TiersFit
<1>15. ResultFits'
  <2>1. PlacedWhenPossible'
    <3> SUFFICES ASSUME pc' = "failed" PROVE PlacedWhenPossible'
      BY DEF PlacedWhenPossible
    <3>1. SelectBestClusters(call') = {}
      BY <1>1
    <3>2. NoRoom(call')
      BY <1>7, <3>1, EmptySelectionNoRoom
    <3> QED
      BY <3>2 DEF PlacedWhenPossible, NoRoom
  <2> QED
    BY <1>9, <2>1 DEF ResultFits, ExactlyDivided, WithinCapacity, Undisturbed, TiersInOrder,
                      Succeeded
<1> QED
  BY <1>10, <1>11, <1>12, <1>13, <1>14, <1>15 DEF DInv

-----------------------------------------------------------------------------

\* The invariant holds before the first call.
LEMMA InitFits ==
    ASSUME NEW bound, Fits(bound), Init
    PROVE  DInv(bound)
<1>1. /\ clusters = Nothing /\ pc = "idle" /\ call = NoCall /\ todo = {} /\ left = 0
      /\ result = Nothing /\ party = NoDivision
  BY DEF Init
<1>2. DOMAIN party = {"votes", "seats", "left"} /\ DOMAIN party.votes = {} /\ party.left = 0
  BY <1>1 DEF NoDivision, Division
<1>3. IsDivision(party)
  BY <1>1, <1>2 DEF NoDivision, Division, IsDivision
<1>4. WInv
  BY <1>2, <1>3, BegunBalanced DEF WInv
<1>5. TypeOK
  BY <1>1, <1>3, NothingFacts DEF TypeOK
<1>6. CallFits(bound)
  BY <1>1, NothingFacts DEF CallFits, Fits
<1>7. TiersFit /\ TierFits /\ ResultFits
  BY <1>1 DEF TiersFit, TierFits, ResultFits, ExactlyDivided, WithinCapacity, Undisturbed,
              TiersInOrder, Succeeded, PlacedWhenPossible
<1> QED
  BY <1>2, <1>4, <1>5, <1>6, <1>7 DEF DInv

\* Every step keeps the invariant.
LEMMA StepKeeps ==
    ASSUME NEW bound, Fits(bound), DInv(bound), [Next]_vars
    PROVE  DInv(bound)'
<1>1. ASSUME NEW placement \in Placements, NEW replicas \in Replicas, NEW fresh \in BOOLEAN,
             NEW feasible \in SUBSET Clusters,
             NEW reports \in [Estimators -> [feasible -> Reports]],
             Schedule(placement, replicas, fresh, feasible,
                      [e \in Estimators |->
                          [c \in Clusters |-> IF c \in feasible THEN reports[e][c]
                                              ELSE UnauthenticReplica]])
      PROVE  DInv(bound)'
  <2> DEFINE r == [e \in Estimators |->
                     [c \in Clusters |-> IF c \in feasible THEN reports[e][c]
                                         ELSE UnauthenticReplica]]
  <2>1. r \in [Estimators -> [Clusters -> Reports \cup {UnauthenticReplica}]]
    OBVIOUS
  <2> HIDE DEF r
  <2>2. Schedule(placement, replicas, fresh, feasible, r)
    BY <1>1 DEF r
  <2> QED
    BY <2>1, <2>2, ScheduleKeeps
<1>2. CASE dynamicFreshScale
  BY <1>2, FreshKeeps
<1>3. CASE dynamicScaleDown
  BY <1>3, DownKeeps
<1>4. CASE dynamicScaleUp
  BY <1>4, UpKeeps
<1>5. CASE unchanged
  BY <1>5, UnchangedKeeps
<1>6. CASE assignByStaticWeightStrategy
  BY <1>6, StaticKeeps
<1>7. CASE assignByDuplicatedStrategy
  BY <1>7, DuplicatedKeeps
<1>8. CASE DivideTier
  BY <1>8, DivideKeeps
<1>9. CASE FinishTier
  BY <1>9, FinishKeeps
<1>10. CASE Return
  BY <1>10, ReturnKeeps
<1>11. CASE propagateToAll
  BY <1>11, PropagateKeeps
<1>12. CASE UNCHANGED vars
  <2>1. UNCHANGED <<clusters, pc, call, todo, left, result, tier, party>>
    BY <1>12 DEF vars
  <2>2. /\ Tier' = Tier /\ TierReplicas' = TierReplicas
        /\ Selected' = Selected /\ Passed' = Passed /\ Room' = Room
    BY <2>1, Frame
  <2>3. TypeOK'
    BY <2>1 DEF DInv, TypeOK, IsDivision
  <2>4. WInv'
    BY <2>1 DEF DInv, WInv, IsDivision, Balanced, FullTogether, NoDebts
  <2>5. CallFits(bound)' /\ TiersFit'
    BY <2>1, <2>2 DEF DInv, CallFits, TiersFit
  <2>6. Target' = Target /\ NoDebts' = NoDebts
    BY <2>1 DEF Target, NoDebts
  <2>7. TierFits'
    BY <2>1, <2>2, <2>6 DEF DInv, TierFits, TargetFits, Steady
  <2>8. ResultFits'
    BY <2>1 DEF DInv, ResultFits, ExactlyDivided, WithinCapacity, Undisturbed, TiersInOrder,
                Succeeded, PlacedWhenPossible, Used
  <2> QED
    BY <2>1, <2>3, <2>4, <2>5, <2>7, <2>8 DEF DInv
<1> QED
  BY <1>1, <1>2, <1>3, <1>4, <1>5, <1>6, <1>7, <1>8, <1>9, <1>10, <1>11,
     <1>12 DEF Next

\* The invariant, for numbers that int32 sums can hold.
THEOREM DivisionInvariance ==
    ASSUME NEW CONSTANT bound, Fits(bound)
    PROVE  Spec => []DInv(bound)
<1>1. Init => DInv(bound)
  BY InitFits
<1>2. DInv(bound) /\ [Next]_vars => DInv(bound)'
  BY StepKeeps
<1> QED
  BY <1>1, <1>2, PTL DEF Spec

-----------------------------------------------------------------------------
(***************************************************************************)
(* The results.                                                            *)
(***************************************************************************)
\* The variables of the scheduler keep their types: no division starts with a
\* negative number of replicas or with more parties than clusters.
THEOREM TypeCorrect ==
    ASSUME FitsInt32
    PROVE  Spec => []TypeOK
<1>1. PICK bound : Fits(bound)
  BY DEF FitsInt32
<1>2. Spec => []DInv(bound)
  BY <1>1, DivisionInvariance
<1>3. DInv(bound) => TypeOK
  BY DEF DInv
<1> QED
  BY <1>2, <1>3, PTL

\* assignWorkloadReplicas gives out every replica, no more and no less, and only
\* to clusters that passed the filters.
THEOREM DividesExactly ==
    ASSUME FitsInt32
    PROVE  Spec => []ExactlyDivided
<1>1. PICK bound : Fits(bound)
  BY DEF FitsInt32
<1>2. Spec => []DInv(bound)
  BY <1>1, DivisionInvariance
<1>3. DInv(bound) => ExactlyDivided
  BY DEF DInv, ResultFits
<1> QED
  BY <1>2, <1>3, PTL

\* dynamicDivideReplicas gives no cluster more than it holds and has room for.
THEOREM StaysWithinCapacity ==
    ASSUME FitsInt32
    PROVE  Spec => []WithinCapacity
<1>1. PICK bound : Fits(bound)
  BY DEF FitsInt32
<1>2. Spec => []DInv(bound)
  BY <1>1, DivisionInvariance
<1>3. DInv(bound) => WithinCapacity
  BY DEF DInv, ResultFits
<1> QED
  BY <1>2, <1>3, PTL

\* A dynamic division that is not fresh moves no replica from one cluster to
\* another (assignmentMode Steady).
THEOREM MovesNothing ==
    ASSUME FitsInt32
    PROVE  Spec => []Undisturbed
<1>1. PICK bound : Fits(bound)
  BY DEF FitsInt32
<1>2. Spec => []DInv(bound)
  BY <1>1, DivisionInvariance
<1>3. DInv(bound) => Undisturbed
  BY DEF DInv, ResultFits
<1> QED
  BY <1>2, <1>3, PTL

\* The overflow tiers are filled in order: one is used only when those before it
\* are full.
THEOREM TiersFillInOrder ==
    ASSUME FitsInt32
    PROVE  Spec => []TiersInOrder
<1>1. PICK bound : Fits(bound)
  BY DEF FitsInt32
<1>2. Spec => []DInv(bound)
  BY <1>1, DivisionInvariance
<1>3. DInv(bound) => TiersInOrder
  BY DEF DInv, ResultFits
<1> QED
  BY <1>2, <1>3, PTL

\* A workload with replicas is refused only when no choice of clusters that the
\* placement allows has room for it: what selectClustersByAvailableResource
\* exchanges is enough, and clusters it selects are never found too small.
THEOREM RefusedOnlyWithoutRoom ==
    ASSUME FitsInt32
    PROVE  Spec => []PlacedWhenPossible
<1>1. PICK bound : Fits(bound)
  BY DEF FitsInt32
<1>2. Spec => []DInv(bound)
  BY <1>1, DivisionInvariance
<1>3. DInv(bound) => PlacedWhenPossible
  BY DEF DInv, ResultFits
<1> QED
  BY <1>2, <1>3, PTL

\* The divisions of the scheduler are balanced at every point.
THEOREM DivisionIsBalanced ==
    ASSUME FitsInt32
    PROVE  Spec => []Balanced
<1>1. PICK bound : Fits(bound)
  BY DEF FitsInt32
<1>2. Spec => []DInv(bound)
  BY <1>1, DivisionInvariance
<1>3. DInv(bound) => Balanced
  BY DEF DInv, WInv
<1> QED
  BY <1>2, <1>3, PTL

-----------------------------------------------------------------------------
(***************************************************************************)
(* Aggregated divisions.                                                   *)
(***************************************************************************)
\* The selected clusters that have replicas.
Prior == {c \in Selected : clusters[c] > 0}

\* No replica is where it was before.
Anew == call.fresh \/ Prior = {}

\* The clusters that may get seats.
Takers == IF Target = 0 THEN {} ELSE DOMAIN party.votes

\* The tier of an aggregated division is divided among as few clusters as it can.
Frugal ==
    pc = "divide" /\ call.placement.strategy = "Aggregated" /\ ~call.placement.overflow =>
        IF Anew
        THEN /\ \A c \in Clusters : tier.base[c] = 0
             /\ \A K \in SUBSET Selected : Sum(Room, K) >= call.replicas
                                              => Cardinality(Takers) <= Cardinality(K)
        ELSE /\ \A c \in Clusters : tier.base[c] > 0 => c \in Prior
             /\ (\E c \in Takers \ Prior : party.votes[c] # 0)
                   => Sum(call.allocatable, Prior) < call.replicas - Sum(clusters, Selected)

\* The clusters among which an aggregated division is made: without the last of
\* them there is no room, and none ahead of the others is left out.
LEMMA AggregateFacts ==
    ASSUME NEW bound, Fits(bound), NEW target \in Nat, target # 0, NEW votes, NEW prior,
           DOMAIN votes \in SUBSET Clusters,
           \A c \in DOMAIN votes : votes[c] \in Nat /\ votes[c] <= 2 * bound,
           NEW K \in Aggregate(target, votes, prior)
    PROVE  /\ K \in SUBSET DOMAIN votes
           /\ \E last \in K :
                 /\ Sum(votes, K \ {last}) < target
                 /\ \A b \in K, c \in DOMAIN votes \ K :
                       /\ ~(c \in prior /\ b \notin prior)
                       /\ (c \in prior <=> b \in prior) => ~(votes[c] > votes[b])
                 /\ \A b \in K \ {last} :
                       /\ ~(last \in prior /\ b \notin prior)
                       /\ (last \in prior <=> b \in prior) => ~(votes[last] > votes[b])
<1>1. K \in SUBSET DOMAIN votes
  BY DEF Aggregate
<1>2. \A b \in K, c \in DOMAIN votes \ K :
         /\ ~(c \in prior /\ b \notin prior)
         /\ (c \in prior <=> b \in prior) => ~(votes[c] > votes[b])
  BY DEF Aggregate
<1>3. PICK last \in K :
         /\ \A b \in K \ {last} :
               /\ ~(last \in prior /\ b \notin prior)
               /\ (last \in prior <=> b \in prior) => ~(votes[last] > votes[b])
         /\ K = {last} \/ GetSumOfReplicas(votes, K \ {last}) < target
  BY DEF Aggregate
<1>4. Sum(votes, K \ {last}) < target
  <2>1. CASE K = {last}
    <3>1. K \ {last} = {}
      BY <2>1
    <3>2. Sum(votes, K \ {last}) = 0
      BY <3>1, SumEmpty
    <3> QED
      BY <3>2
  <2>2. CASE GetSumOfReplicas(votes, K \ {last}) < target
    <3>1. K \ {last} \in SUBSET Clusters
      BY <1>1
    <3>2. \A c \in K \ {last} : votes[c] \in Nat /\ votes[c] <= 2 * bound
      BY <1>1
    <3>3. GetSumOfReplicas(votes, K \ {last}) = Sum(votes, K \ {last})
      BY <3>1, <3>2, SumFits
    <3> QED
      BY <2>2, <3>3
  <2> QED
    BY <1>3, <2>1, <2>2
<1> QED
  BY <1>1, <1>2, <1>3, <1>4

\* No fewer clusters have room.
LEMMA AggregateIsLeast ==
    ASSUME NEW bound, Fits(bound), NEW target \in Nat, target # 0, NEW votes, NEW prior,
           DOMAIN votes \in SUBSET Clusters,
           \A c \in DOMAIN votes : votes[c] \in Nat /\ votes[c] <= 2 * bound,
           \A c \in DOMAIN votes : c \notin prior,
           NEW K \in Aggregate(target, votes, prior),
           NEW B \in SUBSET DOMAIN votes, Sum(votes, B) >= target
    PROVE  Cardinality(K) <= Cardinality(B)
<1>1. PICK last \in K :
         /\ Sum(votes, K \ {last}) < target
         /\ \A b \in K, c \in DOMAIN votes \ K : ~(votes[c] > votes[b])
         /\ \A b \in K \ {last} : ~(votes[last] > votes[b])
  <2>1. PICK last \in K :
         /\ Sum(votes, K \ {last}) < target
         /\ \A b \in K, c \in DOMAIN votes \ K :
               (c \in prior <=> b \in prior) => ~(votes[c] > votes[b])
         /\ \A b \in K \ {last} :
               (last \in prior <=> b \in prior) => ~(votes[last] > votes[b])
    BY AggregateFacts
  <2>2. K \in SUBSET DOMAIN votes
    BY AggregateFacts
  <2> QED
    BY <2>1, <2>2
<1>2. K \in SUBSET DOMAIN votes
  BY AggregateFacts
<1> DEFINE A == K \ {last}
<1>3. IsFiniteSet(Clusters) /\ IsFiniteSet(DOMAIN votes)
  BY DivisionAssumption, FS_Subset
<1>4. /\ IsFiniteSet(K) /\ IsFiniteSet(A) /\ IsFiniteSet(B)
      /\ Cardinality(K) \in Nat /\ Cardinality(A) \in Nat /\ Cardinality(B) \in Nat
  BY <1>2, <1>3, FS_Subset, FS_CardinalityType
<1>5. Cardinality(A) = Cardinality(K) - 1
  BY <1>4, FS_RemoveElement
<1> SUFFICES ASSUME ~(Cardinality(K) <= Cardinality(B)) PROVE FALSE
  OBVIOUS
<1> HIDE DEF A
<1>6. Cardinality(B) <= Cardinality(A)
  BY <1>4, <1>5
<1>7. \A x \in A \cup B : votes[x] \in Nat
  BY <1>2 DEF A
<1>8. \A x \in A \ B, y \in B \ A : votes[y] <= votes[x]
  <2> SUFFICES ASSUME NEW x \in A \ B, NEW y \in B \ A PROVE votes[y] <= votes[x]
    OBVIOUS
  <2>1. ~(votes[y] > votes[x])
    <3>1. CASE y = last
      BY <1>1, <3>1 DEF A
    <3>2. CASE y # last
      <4>1. y \in DOMAIN votes \ K /\ x \in K
        BY <3>2 DEF A
      <4> QED
        BY <1>1, <4>1
    <3> QED
      BY <3>1, <3>2
  <2> QED
    BY <1>7, <2>1
<1>9. Sum(votes, B) <= Sum(votes, A)
  BY <1>4, <1>6, <1>7, <1>8, SumLargest
<1>10. Sum(votes, A) \in Nat /\ Sum(votes, B) \in Nat
  BY <1>4, <1>7, SumNat
<1>11. Sum(votes, A) < target
  BY <1>1 DEF A
<1> QED
  BY <1>9, <1>10, <1>11

\* A cluster that is not in prior is taken only when those that are have no room.
LEMMA AggregateTakesPriorFirst ==
    ASSUME NEW bound, Fits(bound), NEW target \in Nat, target # 0, NEW votes,
           DOMAIN votes \in SUBSET Clusters, NEW prior \in SUBSET DOMAIN votes,
           \A c \in DOMAIN votes : votes[c] \in Nat /\ votes[c] <= 2 * bound,
           NEW K \in Aggregate(target, votes, prior), NEW new \in K \ prior
    PROVE  Sum(votes, prior) < target
<1>1. K \in SUBSET DOMAIN votes
  BY AggregateFacts
<1>2. PICK last \in K :
         /\ Sum(votes, K \ {last}) < target
         /\ \A b \in K, c \in DOMAIN votes \ K : ~(c \in prior /\ b \notin prior)
         /\ \A b \in K \ {last} : ~(last \in prior /\ b \notin prior)
  BY AggregateFacts
<1>3. prior \subseteq K \ {last}
  <2> SUFFICES ASSUME NEW p \in prior, p \notin K \ {last} PROVE FALSE
    OBVIOUS
  <2>1. CASE p \in K
    <3>1. p = last /\ new # last
      BY <2>1
    <3> QED
      BY <1>2, <3>1
  <2>2. CASE p \notin K
    BY <1>2, <2>2
  <2> QED
    BY <2>1, <2>2
<1> DEFINE A == K \ {last}
<1>4. IsFiniteSet(A)
  BY <1>1, DivisionAssumption, FS_Subset
<1>5. \A x \in A : votes[x] \in Nat
  BY <1>1
<1>6. prior \in SUBSET A /\ Sum(votes, A) < target
  BY <1>2, <1>3
<1> HIDE DEF A
<1>7. Sum(votes, prior) <= Sum(votes, A)
  BY <1>4, <1>5, <1>6, SumSubset
<1>8. Sum(votes, A) \in Nat /\ Sum(votes, prior) \in Nat
  <2>1. IsFiniteSet(prior) /\ \A x \in prior : votes[x] \in Nat
    BY <1>4, <1>5, <1>6, FS_Subset
  <2> QED
    BY <1>4, <1>5, <2>1, SumNat
<1> QED
  BY <1>6, <1>7, <1>8

\* AllocateByWeight, up to its loop, for a tier of an aggregated division.
LEMMA DispenseFrugal ==
    ASSUME TypeOK, TiersFit, pc = "assign", NEW target \in Nat, NEW votes, NEW base,
           DOMAIN votes \in SUBSET Tier, Dispense(target, votes, base),
           call.placement.strategy = "Aggregated" /\ ~call.placement.overflow =>
             IF Anew
             THEN /\ \A c \in Clusters : base[c] = 0
                  /\ target # 0 =>
                        \A K \in SUBSET Selected : Sum(Room, K) >= call.replicas
                            => Cardinality(DOMAIN votes) <= Cardinality(K)
             ELSE /\ \A c \in Clusters : base[c] > 0 => c \in Prior
                  /\ target # 0 /\ (\E c \in DOMAIN votes \ Prior : votes[c] # 0)
                        => Sum(call.allocatable, Prior) < call.replicas - Sum(clusters, Selected)
    PROVE  Frugal' /\ FewestClusters'
<1> DEFINE n == IF Sum(votes, DOMAIN votes) = 0 THEN 0 ELSE target
<1>1. /\ party' = Division(votes, n) /\ tier' = [base |-> base, share |-> TierReplicas]
      /\ pc' = "divide" /\ UNCHANGED <<clusters, call, todo, left, result>>
  BY DEF Dispense
<1>2. Tier \in SUBSET Clusters /\ IsFiniteSet(Tier) /\ Selected \in SUBSET Clusters
      /\ IsFiniteSet(Selected)
  BY TierFacts, CallFacts
<1>3. /\ Selected' = Selected /\ Room' = Room /\ Prior' = Prior /\ Anew' = Anew
  BY <1>1 DEF Selected, Room, Prior, Anew
<1>4. /\ party'.votes = votes /\ party'.seats = [c \in DOMAIN votes |-> 0] /\ party'.left = n
  BY <1>1 DEF Division
<1>5. Target' = n
  <2>1. IsFiniteSet(DOMAIN votes)
    BY <1>2, FS_Subset
  <2>2. Sum([c \in DOMAIN votes |-> 0], DOMAIN votes) = 0
    BY <2>1, SumZero
  <2>3. Target' = Sum(party'.seats, DOMAIN party'.votes) + party'.left
    BY DEF Target
  <2> QED
    BY <1>4, <2>2, <2>3
<1>6. Takers' = {} \/ (target # 0 /\ Takers' = DOMAIN votes)
  BY <1>4, <1>5 DEF Takers
<1>7. tier'.base = base
  BY <1>1
<1>8. FewestClusters'
  BY <1>1 DEF FewestClusters, Succeeded
<1> HIDE DEF n
<1>9. ASSUME call.placement.strategy = "Aggregated", ~call.placement.overflow, Anew,
             NEW K \in SUBSET Selected, Sum(Room, K) >= call.replicas
      PROVE  Cardinality(Takers') <= Cardinality(K)
  <2>1. CASE Takers' = {}
    <3>1. Cardinality(Takers') = 0
      BY <2>1, FS_EmptySet
    <3>2. Cardinality(K) \in Nat
      BY <1>2, FS_Subset, FS_CardinalityType
    <3> QED
      BY <3>1, <3>2
  <2>2. CASE target # 0 /\ Takers' = DOMAIN votes
    BY <1>9, <2>2
  <2> QED
    BY <1>6, <2>1, <2>2
<1>10. ASSUME call.placement.strategy = "Aggregated", ~call.placement.overflow, ~Anew,
              NEW c \in Takers' \ Prior, votes[c] # 0
       PROVE  Sum(call.allocatable, Prior) < call.replicas - Sum(clusters, Selected)
  BY <1>6, <1>10
<1>11. Frugal'
  <2>1. CASE ~(call.placement.strategy = "Aggregated" /\ ~call.placement.overflow)
    BY <1>1, <2>1 DEF Frugal
  <2>2. CASE /\ call.placement.strategy = "Aggregated" /\ ~call.placement.overflow
             /\ Anew
    BY <1>1, <1>3, <1>7, <1>9, <2>2 DEF Frugal
  <2>3. CASE /\ call.placement.strategy = "Aggregated" /\ ~call.placement.overflow
             /\ ~Anew
    BY <1>1, <1>3, <1>4, <1>7, <1>10, <2>3 DEF Frugal
  <2> QED
    BY <2>1, <2>2, <2>3
<1> QED
  BY <1>8, <1>11

\* dynamicDivideReplicas, for a tier of an aggregated division.
LEMMA DynamicFrugal ==
    ASSUME TypeOK, TiersFit, pc = "assign", NEW target \in Nat,
           NEW votes \in [Tier -> Int], NEW base,
           dynamicDivideReplicas(target, votes, base),
           \A K \in Kept(target, votes, base) :
             call.placement.strategy = "Aggregated" /\ ~call.placement.overflow =>
             IF Anew
             THEN /\ \A c \in Clusters : base[c] = 0
                  /\ target # 0 =>
                        \A B \in SUBSET Selected : Sum(Room, B) >= call.replicas
                            => Cardinality(K) <= Cardinality(B)
             ELSE /\ \A c \in Clusters : base[c] > 0 => c \in Prior
                  /\ target # 0 /\ (\E c \in K \ Prior : votes[c] # 0)
                        => Sum(call.allocatable, Prior) < call.replicas - Sum(clusters, Selected)
    PROVE  Frugal' /\ FewestClusters'
<1>1. DOMAIN votes = Tier
  OBVIOUS
<1>2. CASE GetSumOfReplicas(votes, DOMAIN votes) < target
  <2>1. pc' = "failed"
    BY <1>2 DEF dynamicDivideReplicas
  <2> QED
    BY <2>1 DEF Frugal, FewestClusters, Succeeded
<1>3. CASE ~(GetSumOfReplicas(votes, DOMAIN votes) < target)
  <2>1. PICK K \in Kept(target, votes, base) : Dispense(target, Restrict(votes, K), base)
    BY <1>3 DEF dynamicDivideReplicas
  <2>2. K \in SUBSET Tier
    <3>1. IsFiniteSet(Tier)
      BY TierFacts
    <3> QED
      BY <1>1, <1>3, <3>1, KeptHasRoom
  <2> DEFINE r == Restrict(votes, K)
  <2>3. DOMAIN r = K /\ \A c \in K : r[c] = votes[c]
    BY <2>2 DEF Restrict
  <2>4. Dispense(target, r, base)
    BY <2>1
  <2> HIDE DEF r
  <2>5. DOMAIN r \in SUBSET Tier
    BY <2>2, <2>3
  <2>6. call.placement.strategy = "Aggregated" /\ ~call.placement.overflow =>
         IF Anew
         THEN /\ \A c \in Clusters : base[c] = 0
              /\ target # 0 =>
                    \A B \in SUBSET Selected : Sum(Room, B) >= call.replicas
                        => Cardinality(DOMAIN r) <= Cardinality(B)
         ELSE /\ \A c \in Clusters : base[c] > 0 => c \in Prior
              /\ target # 0 /\ (\E c \in DOMAIN r \ Prior : r[c] # 0)
                    => Sum(call.allocatable, Prior) < call.replicas - Sum(clusters, Selected)
    BY <2>1, <2>3
  <2> QED
    BY <2>4, <2>5, <2>6, DispenseFrugal
<1> QED
  BY <1>2, <1>3

\* dynamicFreshScale takes the largest clusters.
LEMMA FreshFrugal ==
    ASSUME NEW bound, Fits(bound), DInv(bound), dynamicFreshScale
    PROVE  Frugal' /\ FewestClusters'
<1> DEFINE votes == [c \in Tier |-> Wrap(call.allocatable[c] + clusters[c])]
<1>1. /\ pc = "assign" /\ call.placement.strategy \in Dynamic /\ call.fresh
      /\ dynamicDivideReplicas(TierReplicas, votes, Nothing)
  BY DEF dynamicFreshScale
<1>2. TypeOK /\ TiersFit /\ pc \in {"assign", "divide"}
  BY <1>1 DEF DInv
<1>3. Tier \in SUBSET Clusters /\ IsFiniteSet(Tier) /\ TierReplicas \in Nat
  BY <1>2, TierFacts
<1>4. /\ clusters \in [Clusters -> Nat] /\ \A c \in Clusters : clusters[c] <= bound
      /\ \A c \in Clusters : Room[c] = call.allocatable[c] + clusters[c]
      /\ call.replicas > 0 => \A c \in Clusters : call.allocatable[c] <= bound
      /\ call.allocatable \in [Clusters -> Nat]
      /\ Room \in [Clusters -> Nat] /\ call.replicas \in Nat
  BY <1>2, TierHolds, CallFacts
<1>5. votes \in [Tier -> Int]
  <2> SUFFICES ASSUME NEW c \in Tier PROVE Wrap(call.allocatable[c] + clusters[c]) \in Int
    OBVIOUS
  <2>1. call.allocatable[c] + clusters[c] \in Int
    <3>1. call.allocatable[c] \in Nat /\ clusters[c] \in Nat
      BY <1>3, <1>4
    <3> QED
      BY <3>1
  <2> QED
    BY <2>1, WrapInt
<1>6. ASSUME TierReplicas # 0, NEW c \in Tier
      PROVE  votes[c] = Room[c] /\ Room[c] \in Nat /\ Room[c] <= 2 * bound
  <2>0. call.replicas > 0
    BY <1>2, <1>6, NoReplicas
  <2>1. c \in Clusters
    BY <1>3
  <2>2. bound \in Nat /\ 2 * bound <= MaxInt32 /\ MaxInt32 \in Nat
    BY <2>1, TwiceFits
  <2>3. /\ call.allocatable[c] \in Nat /\ clusters[c] \in Nat /\ call.allocatable[c] <= bound
        /\ clusters[c] <= bound /\ Room[c] = call.allocatable[c] + clusters[c]
    BY <1>4, <2>0, <2>1
  <2>4. Room[c] \in Int /\ Room[c] >= 0 /\ Room[c] <= 2 * bound
    BY <2>2, <2>3
  <2>5. Wrap(Room[c]) = Room[c]
    BY <2>2, <2>4, WrapSmall
  <2> QED
    BY <2>3, <2>4, <2>5
<1> HIDE DEF votes
<1>7. ASSUME NEW K \in Kept(TierReplicas, votes, Nothing),
             call.placement.strategy = "Aggregated", ~call.placement.overflow
      PROVE  /\ \A c \in Clusters : Nothing[c] = 0
             /\ TierReplicas # 0 =>
                   \A B \in SUBSET Selected : Sum(Room, B) >= call.replicas
                       => Cardinality(K) <= Cardinality(B)
  <2>1. \A c \in Clusters : Nothing[c] = 0
    BY NothingFacts
  <2>2. TierReplicas = call.replicas /\ Tier = Selected
    BY <1>2, <1>7, TierFacts
  <2> SUFFICES ASSUME TierReplicas # 0, NEW B \in SUBSET Selected,
                      Sum(Room, B) >= call.replicas
               PROVE  Cardinality(K) <= Cardinality(B)
    BY <2>1
  <2> DEFINE prior == {c \in DOMAIN votes : Nothing[c] > 0}
  <2>3. K \in Aggregate(TierReplicas, votes, prior)
    BY <1>7 DEF Kept
  <2>4. DOMAIN votes = Tier
    BY <1>5
  <2>5. ASSUME NEW c \in DOMAIN votes PROVE c \notin prior
    <3>1. c \in Clusters
      BY <1>3, <2>4
    <3>2. Nothing[c] = 0
      BY <2>1, <3>1
    <3> QED
      BY <3>2
  <2>6. \A c \in DOMAIN votes : votes[c] \in Nat /\ votes[c] <= 2 * bound
    BY <1>6, <2>4
  <2>7. Sum(votes, B) >= TierReplicas
    <3>1. IsFiniteSet(B)
      BY <1>3, <2>2, FS_Subset
    <3>2. \A c \in B : Room[c] \in Int /\ votes[c] = Room[c]
      BY <1>6, <2>2
    <3>3. Sum(votes, B) = Sum(Room, B)
      BY <3>1, <3>2, SumCong
    <3> QED
      BY <2>2, <3>3
  <2>8. B \in SUBSET DOMAIN votes /\ DOMAIN votes \in SUBSET Clusters
    BY <1>3, <2>2, <2>4
  <2> HIDE DEF prior
  <2> QED
    BY <1>3, <2>3, <2>5, <2>6, <2>7, <2>8, AggregateIsLeast
<1> QED
  BY <1>1, <1>2, <1>3, <1>5, <1>7, DynamicFrugal DEF Anew

\* dynamicScaleDown only takes away.
LEMMA DownFrugal ==
    ASSUME NEW bound, Fits(bound), DInv(bound), dynamicScaleDown
    PROVE  Frugal' /\ FewestClusters'
<1> DEFINE votes == Restrict(clusters, Tier)
<1>1. /\ pc = "assign" /\ ~call.fresh /\ assignedReplicas > TierReplicas
      /\ dynamicDivideReplicas(TierReplicas, votes, Nothing)
  BY DEF dynamicScaleDown
<1>2. TypeOK /\ TiersFit /\ pc \in {"assign", "divide"}
  BY <1>1 DEF DInv
<1>3. Tier \in SUBSET Clusters /\ IsFiniteSet(Tier) /\ TierReplicas \in Nat
  BY <1>2, TierFacts
<1>4. clusters \in [Clusters -> Nat]
  BY <1>2 DEF TypeOK
<1>5. /\ DOMAIN votes = Tier /\ votes \in [Tier -> Int]
      /\ \A c \in Tier : votes[c] = clusters[c] /\ clusters[c] \in Nat
  BY <1>3, <1>4 DEF Restrict
<1> HIDE DEF votes
<1>6. ASSUME NEW K \in Kept(TierReplicas, votes, Nothing),
             call.placement.strategy = "Aggregated", ~call.placement.overflow
      PROVE  /\ ~Anew
             /\ \A c \in Clusters : Nothing[c] > 0 => c \in Prior
             /\ ~\E c \in K \ Prior : votes[c] # 0
  <2>1. \A c \in Clusters : Nothing[c] = 0
    BY NothingFacts
  <2>2. Tier = Selected
    BY <1>2, <1>6, TierFacts
  <2>3. K \in SUBSET Tier
    BY <1>5, <1>6 DEF Kept, Aggregate
  <2>4. Prior # {}
    <3> SUFFICES ASSUME Prior = {} PROVE FALSE
      OBVIOUS
    <3>1. \A c \in Tier : clusters[c] = 0
      BY <1>5, <2>2 DEF Prior
    <3>2. Sum(clusters, Tier) = 0
      BY <1>3, <3>1, SumZero
    <3>3. assignedReplicas = Sum(clusters, Tier)
      BY <1>2, TierHolds
    <3> QED
      BY <1>1, <1>3, <3>2, <3>3
  <2> QED
    BY <1>1, <1>5, <2>1, <2>2, <2>3, <2>4 DEF Prior, Anew
<1> QED
  BY <1>1, <1>2, <1>3, <1>5, <1>6, DynamicFrugal

\* dynamicScaleUp takes the clusters that have replicas first.
LEMMA UpFrugal ==
    ASSUME NEW bound, Fits(bound), DInv(bound), dynamicScaleUp
    PROVE  Frugal' /\ FewestClusters'
<1> DEFINE votes == Restrict(call.allocatable, Tier)
           target == Wrap(TierReplicas - assignedReplicas)
<1>1. /\ pc = "assign" /\ ~call.fresh
      /\ assignedReplicas < TierReplicas
      /\ dynamicDivideReplicas(target, votes, scheduledClusters)
  BY DEF dynamicScaleUp
<1>2. TypeOK /\ TiersFit /\ pc \in {"assign", "divide"}
  BY <1>1 DEF DInv
<1>3. /\ Tier \in SUBSET Clusters /\ IsFiniteSet(Tier) /\ TierReplicas \in Nat
      /\ Tier # {} /\ TierReplicas <= left /\ left <= call.replicas
  BY <1>2, TierFacts
<1>4. /\ clusters \in [Clusters -> Nat]
      /\ call.allocatable \in [Clusters -> Nat]
      /\ assignedReplicas = Sum(clusters, Tier) /\ Sum(clusters, Tier) \in Nat
      /\ call.replicas > 0 => \A c \in Clusters : call.allocatable[c] <= bound
      /\ bound \in Nat /\ call.replicas <= bound /\ call.replicas \in Nat
  BY <1>2, TierHolds, CallFacts
<1>5. left \in Nat
  BY <1>2 DEF TypeOK
<1>6. 2 * bound <= MaxInt32 /\ MaxInt32 \in Nat
  <2>1. PICK c \in Clusters : TRUE
    BY <1>3
  <2> QED
    BY <2>1, TwiceFits
<1>7. target = TierReplicas - assignedReplicas
  <2>1. /\ TierReplicas - assignedReplicas \in Int
        /\ 0 - MaxInt32 <= TierReplicas - assignedReplicas
        /\ TierReplicas - assignedReplicas <= MaxInt32
    BY <1>1, <1>3, <1>4, <1>5, <1>6
  <2> QED
    BY <2>1, WrapSmall
<1> HIDE DEF target
<1>8. target \in Nat /\ call.replicas > 0
  BY <1>1, <1>3, <1>4, <1>5, <1>7
<1>9. votes = [c \in Tier |-> call.allocatable[c]]
  BY DEF Restrict
<1> HIDE DEF votes
<1>10. ASSUME NEW c \in Tier
       PROVE  votes[c] \in Nat /\ votes[c] <= 2 * bound /\ votes[c] = call.allocatable[c]
  <2>1. call.allocatable[c] <= bound /\ call.allocatable[c] \in Nat
    BY <1>3, <1>4, <1>8
  <2> QED
    BY <1>4, <1>9, <2>1
<1>11. votes \in [Tier -> Int] /\ DOMAIN votes = Tier
  <2>1. \A c \in Tier : call.allocatable[c] \in Int
    BY <1>10
  <2> QED
    BY <1>9, <2>1
<1>12. /\ \A c \in Tier : scheduledClusters[c] = clusters[c]
       /\ \A c \in Clusters \ Tier : scheduledClusters[c] = 0
  BY <1>1, KeptReplicas
<1>13. ASSUME NEW K \in Kept(target, votes, scheduledClusters),
              call.placement.strategy = "Aggregated", ~call.placement.overflow, ~Anew
       PROVE  /\ \A c \in Clusters : scheduledClusters[c] > 0 => c \in Prior
              /\ target # 0 /\ (\E c \in K \ Prior : votes[c] # 0)
                    => Sum(call.allocatable, Prior) < call.replicas - Sum(clusters, Selected)
  <2>1. TierReplicas = call.replicas /\ Tier = Selected
    BY <1>2, <1>13, TierFacts
  <2>2. \A c \in Clusters : scheduledClusters[c] > 0 => c \in Prior
    <3> SUFFICES ASSUME NEW c \in Clusters, scheduledClusters[c] > 0 PROVE c \in Prior
      OBVIOUS
    <3>1. c \in Tier
      BY <1>12
    <3> QED
      BY <1>12, <2>1, <3>1 DEF Prior
  <2>3. {c \in DOMAIN votes : scheduledClusters[c] > 0} = Prior
    BY <1>11, <1>12, <2>1 DEF Prior
  <2>4. K \in Aggregate(target, votes, Prior)
    BY <1>13, <2>3 DEF Kept
  <2> SUFFICES ASSUME target # 0, NEW new \in K \ Prior
               PROVE  Sum(call.allocatable, Prior) < call.replicas - Sum(clusters, Selected)
    BY <2>2
  <2>5. Prior \in SUBSET DOMAIN votes /\ DOMAIN votes \in SUBSET Clusters
    BY <1>3, <1>11, <2>1 DEF Prior
  <2>6. \A c \in DOMAIN votes : votes[c] \in Nat /\ votes[c] <= 2 * bound
    BY <1>10, <1>11
  <2>7. Sum(votes, Prior) < target
    BY <1>8, <2>4, <2>5, <2>6, AggregateTakesPriorFirst
  <2>8. Sum(votes, Prior) = Sum(call.allocatable, Prior)
    <3>1. IsFiniteSet(Prior)
      BY <1>3, <1>11, <2>5, FS_Subset
    <3>2. \A c \in Prior : call.allocatable[c] \in Int /\ votes[c] = call.allocatable[c]
      BY <1>10, <1>11, <2>5
    <3> QED
      BY <3>1, <3>2, SumCong
  <2> QED
    BY <1>4, <1>7, <2>1, <2>7, <2>8
<1>14. ASSUME NEW K \in Kept(target, votes, scheduledClusters),
              call.placement.strategy = "Aggregated", ~call.placement.overflow, Anew
       PROVE  /\ \A c \in Clusters : scheduledClusters[c] = 0
              /\ target # 0 =>
                    \A B \in SUBSET Selected : Sum(Room, B) >= call.replicas
                        => Cardinality(K) <= Cardinality(B)
  <2>1. TierReplicas = call.replicas /\ Tier = Selected /\ Prior = {}
    BY <1>1, <1>2, <1>14, TierFacts DEF Anew
  <2>2. ASSUME NEW c \in Tier PROVE clusters[c] = 0
    <3>1. clusters[c] \in Nat /\ c \in Selected
      BY <1>3, <1>4, <2>1
    <3>2. ~(clusters[c] > 0)
      BY <2>1, <3>1 DEF Prior
    <3> QED
      BY <3>1, <3>2
  <2>3. \A c \in Clusters : scheduledClusters[c] = 0
    BY <1>12, <2>2
  <2>4. target = call.replicas
    <3>1. Sum(clusters, Tier) = 0
      BY <1>3, <2>2, SumZero
    <3> QED
      BY <1>4, <1>7, <2>1, <3>1
  <2> SUFFICES ASSUME target # 0, NEW B \in SUBSET Selected, Sum(Room, B) >= call.replicas
               PROVE  Cardinality(K) <= Cardinality(B)
    BY <2>3
  <2> DEFINE prior == {c \in DOMAIN votes : scheduledClusters[c] > 0}
  <2>5. K \in Aggregate(target, votes, prior)
    BY <1>14 DEF Kept
  <2>6. ASSUME NEW c \in DOMAIN votes PROVE c \notin prior
    <3>1. scheduledClusters[c] = 0
      BY <1>3, <1>11, <2>3
    <3> QED
      BY <3>1
  <2>7. \A c \in DOMAIN votes : votes[c] \in Nat /\ votes[c] <= 2 * bound
    BY <1>10, <1>11
  <2>8. Sum(votes, B) >= target
    <3>1. IsFiniteSet(B)
      BY <1>3, <2>1, FS_Subset
    <3>2. ASSUME NEW c \in B PROVE Room[c] \in Int /\ votes[c] = Room[c]
      <4>1. c \in Tier /\ c \in Clusters
        BY <1>3, <2>1
      <4>2. Room[c] = call.allocatable[c] + clusters[c] /\ clusters[c] = 0
        BY <1>2, <2>2, <4>1, TierHolds
      <4>3. votes[c] \in Nat /\ votes[c] = call.allocatable[c]
        BY <1>10, <4>1
      <4> QED
        BY <4>2, <4>3
    <3>3. Sum(votes, B) = Sum(Room, B)
      BY <3>1, <3>2, SumCong
    <3> QED
      BY <2>4, <3>3
  <2>9. B \in SUBSET DOMAIN votes /\ DOMAIN votes \in SUBSET Clusters
    BY <1>3, <1>11, <2>1
  <2> HIDE DEF prior
  <2> QED
    BY <1>8, <2>5, <2>6, <2>7, <2>8, <2>9, AggregateIsLeast
<1> QED
  BY <1>1, <1>2, <1>8, <1>11, <1>13, <1>14, DynamicFrugal

\* A tier that has its replicas already takes no cluster.
LEMMA UnchangedFrugal ==
    ASSUME NEW bound, Fits(bound), DInv(bound), unchanged
    PROVE  Frugal' /\ FewestClusters'
<1>1. pc = "assign" /\ ~call.fresh /\ Dispense(0, <<>>, scheduledClusters)
  BY DEF unchanged
<1>2. TypeOK /\ TiersFit /\ pc \in {"assign", "divide"}
  BY <1>1 DEF DInv
<1>3. /\ \A c \in Tier : scheduledClusters[c] = clusters[c]
      /\ \A c \in Clusters \ Tier : scheduledClusters[c] = 0
  BY <1>1, KeptReplicas
<1>4. ASSUME ~call.placement.overflow, NEW c \in Clusters, scheduledClusters[c] > 0
      PROVE  c \in Prior
  <2>1. Tier = Selected
    BY <1>2, <1>4, TierFacts
  <2>2. c \in Tier
    BY <1>3, <1>4
  <2> QED
    BY <1>3, <1>4, <2>1, <2>2 DEF Prior
<1>5. DOMAIN <<>> \in SUBSET Tier
  BY NoVotes
<1>6. ASSUME ~call.placement.overflow, Anew, NEW c \in Clusters
      PROVE  scheduledClusters[c] = 0
  <2>1. Prior = {} /\ clusters \in [Clusters -> Nat]
    BY <1>1, <1>2, <1>6 DEF Anew, TypeOK
  <2>2. scheduledClusters[c] = 0 \/ scheduledClusters[c] = clusters[c]
    BY <1>3
  <2>3. ~(scheduledClusters[c] > 0)
    BY <1>4, <1>6, <2>1
  <2> QED
    BY <2>1, <2>2, <2>3
<1> QED
  BY <1>1, <1>2, <1>4, <1>5, <1>6, DispenseFrugal

\* A seat more leaves the seats the tier is going to have.
LEMMA SeatKeepsTarget ==
    ASSUME NEW bound, DInv(bound), DivideTier
    PROVE  Target' = Target /\ party'.votes = party.votes
<1>1. /\ pc = "divide" /\ AllocateSeat
      /\ UNCHANGED <<clusters, pc, call, todo, left, result, tier>>
  BY DEF DivideTier
<1>2. TypeOK /\ TiersFit /\ TierFits /\ IsDivision(party)
  BY DEF DInv, WInv
<1>3. PICK p \in DOMAIN party.votes :
         party' = [party EXCEPT !.seats[p] = @ + 1, !.left = @ - 1]
  BY <1>1 DEF AllocateSeat
<1>4. /\ party'.votes = party.votes
      /\ party'.seats = [party.seats EXCEPT ![p] = @ + 1]
      /\ party'.left = party.left - 1
  BY <1>2, <1>3 DEF IsDivision
<1> DEFINE V == DOMAIN party.votes
<1>5. IsFiniteSet(V)
  <2>1. IsFiniteSet(Tier) /\ V \subseteq Tier
    BY <1>1, <1>2, TierFacts DEF TierFits
  <2> QED
    BY <2>1, FS_Subset
<1>6. party.seats \in [V -> Nat] /\ party.left \in Nat
  BY <1>2 DEF IsDivision
<1>7. \A c \in V : party.seats[c] \in Int
  BY <1>6
<1>8. /\ party'.seats[p] = party.seats[p] + 1
      /\ \A c \in V \ {p} : party'.seats[c] = party.seats[c]
  BY <1>4, <1>6
<1>9. Sum(party'.seats, V) = Sum(party.seats, V) + 1
  BY <1>5, <1>7, <1>8, SumOneMore
<1>10. Sum(party.seats, V) \in Int
  BY <1>5, <1>7, SumInt
<1>11. /\ Target = Sum(party.seats, V) + party.left
       /\ Target' = Sum(party'.seats, V) + party'.left
  BY <1>4 DEF Target
<1> HIDE DEF V
<1> QED
  BY <1>4, <1>6, <1>9, <1>10, <1>11

\* A seat more takes no other cluster.
LEMMA DivideFrugal ==
    ASSUME NEW bound, DInv(bound), Frugal, DivideTier
    PROVE  Frugal' /\ FewestClusters'
<1>1. pc = "divide" /\ UNCHANGED <<clusters, pc, call, tier>>
  BY DEF DivideTier
<1>2. Target' = Target /\ party'.votes = party.votes
  BY SeatKeepsTarget
<1>3. /\ Takers' = Takers /\ Selected' = Selected /\ Room' = Room /\ Prior' = Prior
      /\ Anew' = Anew
  BY <1>1, <1>2 DEF Takers, Selected, Room, Prior, Anew
<1>4. FewestClusters'
  BY <1>1 DEF FewestClusters, Succeeded
<1>5. Frugal'
  BY <1>1, <1>2, <1>3 DEF Frugal
<1> QED
  BY <1>4, <1>5

\* Only the clusters of a tier that are taken get seats, and no more than their
\* votes.
LEMMA SeatsTaken ==
    ASSUME NEW bound, DInv(bound), pc = "divide", party.left = 0,
           call.placement.strategy \in Dynamic, NEW c \in Clusters, seat(c) > 0
    PROVE  c \in Takers /\ party.votes[c] # 0
<1> DEFINE V == DOMAIN party.votes
<1>1. TypeOK /\ TiersFit /\ TierFits /\ WInv
  BY DEF DInv
<1>2. party.seats \in [V -> Nat] /\ DOMAIN party.seats = V /\ party.votes \in [V -> Int]
  BY <1>1 DEF WInv, IsDivision
<1>3. c \in V /\ party.seats[c] > 0
  BY <1>2 DEF seat
<1>4. IsFiniteSet(V)
  <2>1. IsFiniteSet(Tier) /\ V \subseteq Tier
    BY <1>1, TierFacts DEF TierFits
  <2> QED
    BY <2>1, FS_Subset
<1>5. \A d \in V : party.seats[d] \in Nat
  BY <1>2
<1>6. party.seats[c] <= Sum(party.seats, V) /\ Sum(party.seats, V) \in Nat
  BY <1>3, <1>4, <1>5, SumTerm, SumNat
<1>7. Target = Sum(party.seats, V)
  BY <1>6 DEF Target
<1>8. Target # 0
  BY <1>3, <1>5, <1>6, <1>7
<1>9. TargetFits
  BY <1>1 DEF TierFits
<1>10. party.seats[c] <= party.votes[c]
  BY <1>1, <1>3, <1>4, <1>8, <1>9, SeatsWithinVotes
<1>11. party.votes[c] \in Int /\ party.seats[c] \in Nat
  BY <1>2, <1>3
<1> QED
  BY <1>3, <1>8, <1>10, <1>11 DEF Takers

\* The end of a tier: the clusters taken are those that are used.
LEMMA FinishFrugal ==
    ASSUME NEW bound, Fits(bound), DInv(bound), Frugal, FinishTier
    PROVE  Frugal' /\ FewestClusters'
<1>1. /\ pc = "divide" /\ party.left = 0 /\ UNCHANGED <<clusters, call, tier, party>>
      /\ result' \in [Clusters -> Nat]
      /\ \A c \in Tier : result'[c] = gain[c]
      /\ \A c \in (Clusters \ Passed) \ Tier : result'[c] = 0
  BY FinishFacts
<1>2. pc' # "divide"
  BY DEF FinishTier
<1>3. Frugal'
  BY <1>2 DEF Frugal
<1>4. TypeOK /\ TiersFit /\ pc \in {"assign", "divide"} /\ pc # "idle"
  BY <1>1 DEF DInv
<1>5. /\ Selected \in SUBSET Clusters /\ IsFiniteSet(Selected) /\ IsFiniteSet(Clusters)
      /\ Selected = SelectBestClusters(call) /\ Room = call.available
  BY <1>4, CallFacts DEF Selected, Room
<1> SUFFICES ASSUME call.placement.strategy = "Aggregated", ~call.placement.overflow
             PROVE  FewestClusters'
  BY <1>1, <1>3 DEF FewestClusters, Succeeded
<1>6. Tier = Selected /\ Passed = {} /\ call.placement.strategy \in Dynamic
  BY <1>4, TierFacts DEF Dynamic
<1>7. tier.base \in [Clusters -> Nat]
  BY <1>1, <1>4 DEF TypeOK
<1>8. ASSUME NEW c \in Used'
      PROVE  c \in Clusters /\ (tier.base[c] > 0 \/ (c \in Takers /\ party.votes[c] # 0))
  <2>1. c \in Clusters /\ result'[c] > 0
    BY DEF Used
  <2>2. c \in Tier
    BY <1>1, <1>6, <2>1
  <2>3. tier.base[c] + seat(c) > 0
    BY <1>1, <2>1, <2>2 DEF gain
  <2>4. tier.base[c] \in Nat
    BY <1>7, <2>1
  <2>5. CASE tier.base[c] > 0
    BY <2>1, <2>5
  <2>6. CASE tier.base[c] = 0
    <3>1. seat(c) \in Nat
      <4>1. party.seats \in [DOMAIN party.votes -> Nat]
        BY <1>4 DEF TypeOK, IsDivision
      <4> QED
        BY <4>1 DEF seat
    <3>2. seat(c) > 0
      BY <2>3, <2>6, <3>1
    <3> QED
      BY <1>1, <1>6, <2>1, <3>2, SeatsTaken
  <2> QED
    BY <2>4, <2>5, <2>6
<1>9. ASSUME Anew, NEW K \in SUBSET Selected, Sum(Room, K) >= call.replicas
      PROVE  Cardinality(Used') <= Cardinality(K)
  <2>1. /\ \A c \in Clusters : tier.base[c] = 0
        /\ Cardinality(Takers) <= Cardinality(K)
    BY <1>1, <1>9 DEF Frugal
  <2>2. Used' \in SUBSET Takers
    <3> SUFFICES ASSUME NEW c \in Used' PROVE c \in Takers
      OBVIOUS
    <3>1. c \in Clusters /\ (tier.base[c] > 0 \/ c \in Takers)
      BY <1>8
    <3>2. ~(tier.base[c] > 0)
      BY <2>1, <3>1
    <3> QED
      BY <3>1, <3>2
  <2>3. IsFiniteSet(Takers)
    <3>1. DOMAIN party.votes \in SUBSET Clusters
      BY <1>4 DEF TypeOK, IsDivision
    <3>2. Takers \in SUBSET Clusters
      BY <3>1 DEF Takers
    <3> QED
      BY <1>5, <3>2, FS_Subset
  <2>4. Cardinality(Used') <= Cardinality(Takers) /\ IsFiniteSet(Used')
    BY <2>2, <2>3, FS_Subset
  <2>5. /\ Cardinality(Used') \in Nat /\ Cardinality(Takers) \in Nat
        /\ Cardinality(K) \in Nat
    BY <1>5, <2>3, <2>4, FS_Subset, FS_CardinalityType
  <2> QED
    BY <2>1, <2>4, <2>5
<1>10. ASSUME ~Anew, NEW c \in Used' \ Prior
       PROVE  Sum(call.allocatable, Prior) < call.replicas - Sum(clusters, Selected)
  <2>1. /\ \A d \in Clusters : tier.base[d] > 0 => d \in Prior
        /\ (\E d \in Takers \ Prior : party.votes[d] # 0)
              => Sum(call.allocatable, Prior) < call.replicas - Sum(clusters, Selected)
    BY <1>1, <1>10 DEF Frugal
  <2>2. c \in Takers \ Prior /\ party.votes[c] # 0
    BY <1>8, <1>10, <2>1
  <2> QED
    BY <1>10, <2>1, <2>2
<1>11. /\ call' = call /\ clusters' = clusters
       /\ Prior = {c \in SelectBestClusters(call) : clusters[c] > 0}
  BY <1>1, <1>5 DEF Prior
<1>12. CASE Anew
  BY <1>5, <1>9, <1>11, <1>12 DEF FewestClusters, Anew
<1>13. CASE ~Anew
  BY <1>5, <1>10, <1>11, <1>13 DEF FewestClusters, Anew
<1> QED
  BY <1>12, <1>13

\* Every step keeps it.
LEMMA StepFrugal ==
    ASSUME NEW bound, Fits(bound), DInv(bound), Frugal, FewestClusters, [Next]_vars
    PROVE  Frugal' /\ FewestClusters'
<1>1. ASSUME NEW placement, NEW replicas, NEW fresh, NEW feasible, NEW reports,
             Schedule(placement, replicas, fresh, feasible, reports)
      PROVE  Frugal' /\ FewestClusters'
  <2>1. pc' \in {"failed", "assign"}
    BY <1>1 DEF Schedule
  <2> QED
    BY <2>1 DEF Frugal, FewestClusters, Succeeded
<1>2. CASE dynamicFreshScale
  BY <1>2, FreshFrugal
<1>3. CASE dynamicScaleDown
  BY <1>3, DownFrugal
<1>4. CASE dynamicScaleUp
  BY <1>4, UpFrugal
<1>5. CASE unchanged
  BY <1>5, UnchangedFrugal
<1>6. CASE assignByStaticWeightStrategy
  <2>1. call.placement.strategy # "Aggregated" /\ pc' = "divide" /\ UNCHANGED call
    BY <1>6 DEF assignByStaticWeightStrategy, Dispense
  <2> QED
    BY <2>1 DEF Frugal, FewestClusters, Succeeded
<1>7. CASE assignByDuplicatedStrategy
  <2>1. call.placement.strategy # "Aggregated" /\ pc' = "divide" /\ UNCHANGED call
    BY <1>7 DEF assignByDuplicatedStrategy, Dispense
  <2> QED
    BY <2>1 DEF Frugal, FewestClusters, Succeeded
<1>8. CASE DivideTier
  BY <1>8, DivideFrugal
<1>9. CASE FinishTier
  BY <1>9, FinishFrugal
<1>10. CASE Return
  <2>1. pc' = "idle"
    BY <1>10 DEF Return
  <2> QED
    BY <2>1 DEF Frugal, FewestClusters, Succeeded
<1>11. CASE propagateToAll
  <2>1. pc' = "done" /\ \A c \in Clusters : result'[c] = 0
    BY <1>11, PropagatesNothing
  <2>2. Used' = {}
    BY <2>1 DEF Used
  <2>3. Cardinality(Used') = 0
    BY <2>2, FS_EmptySet
  <2>4. ASSUME NEW K \in SUBSET SelectBestClusters(call') PROVE Cardinality(Used') <= Cardinality(K)
    <3>1. Selected' = Selected /\ Selected' = SelectBestClusters(call')
      BY <1>11 DEF propagateToAll, Selected
    <3>2. IsFiniteSet(Selected)
      BY <1>11, CallFacts DEF propagateToAll, DInv
    <3>3. Cardinality(K) \in Nat
      BY <3>1, <3>2, FS_Subset, FS_CardinalityType
    <3> QED
      BY <2>3, <3>3
  <2>5. FewestClusters'
    BY <2>2, <2>4 DEF FewestClusters
  <2> QED
    BY <2>1, <2>5 DEF Frugal
<1>12. CASE UNCHANGED vars
  <2>1. UNCHANGED <<clusters, pc, call, todo, left, result, tier, party>>
    BY <1>12 DEF vars
  <2>2. /\ Target' = Target /\ Selected' = Selected /\ Room' = Room /\ Prior' = Prior
        /\ Anew' = Anew
    BY <2>1 DEF Target, Selected, Room, Prior, Anew
  <2>3. Takers' = Takers
    BY <2>1, <2>2 DEF Takers
  <2>4. Frugal'
    BY <2>1, <2>2, <2>3 DEF Frugal
  <2>5. FewestClusters'
    BY <2>1 DEF FewestClusters, Succeeded, Used
  <2> QED
    BY <2>4, <2>5
<1> QED
  BY <1>1, <1>2, <1>3, <1>4, <1>5, <1>6, <1>7, <1>8, <1>9, <1>10, <1>11,
     <1>12 DEF Next

\* An aggregated division uses as few clusters as it can: a fresh one no more than
\* any set of the selected clusters that has room, a steady one no cluster without
\* replicas unless those that have replicas cannot take the extra ones
\* (dynamicDivideReplicas with the prefix of resortAvailableClusters).
THEOREM UsesFewestClusters ==
    ASSUME FitsInt32
    PROVE  Spec => []FewestClusters
<1>1. PICK bound : Fits(bound)
  BY DEF FitsInt32
<1>2. Spec => []DInv(bound)
  BY <1>1, DivisionInvariance
<1>3. Init => Frugal /\ FewestClusters
  BY DEF Init, Frugal, FewestClusters, Succeeded
<1>4. DInv(bound) /\ (Frugal /\ FewestClusters) /\ [Next]_vars
         => Frugal' /\ FewestClusters'
  BY <1>1, StepFrugal
<1> QED
  BY <1>2, <1>3, <1>4, PTL DEF Spec
=============================================================================
