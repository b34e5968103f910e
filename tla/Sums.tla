-------------------------------- MODULE Sums --------------------------------
(***************************************************************************)
(* The sum of a function over a finite set, as Uploads and Edits compute   *)
(* what a user is charged, and the lemmas their proofs need: the sum does  *)
(* not depend on the order in which the fold takes the elements.           *)
(* The library states this with operators as parameters, which the provers *)
(* cannot instantiate; here the addends are a function.                    *)
(***************************************************************************)
EXTENDS Integers, FiniteSets, FiniteSetsExt, FiniteSetTheorems,
        WellFoundedInduction, TLAPS

SumOf(f, S) == MapThenSumSet(LAMBDA s : f[s], S)

\* The element that the fold takes next.
First(T) == CHOOSE x \in T : TRUE

\* g is the fold's recursive function on the sets in D.
Folding(f, D, g) ==
    g = [T \in D |-> IF T = {} THEN 0 ELSE f[First(T)] + g[T \ {First(T)}]]

\* The sums of all subsets of S, as the fold over S itself computes them.
Sums(f, S) == CHOOSE g : Folding(f, SUBSET S, g)

-----------------------------------------------------------------------------
(* Taking elements out of finite sets *)

\* A nonempty set of subsets of a finite set has a member that leaves the set
\* whichever element it loses: what replaces an induction over finite sets.
LEMMA MinimalSubset ==
    ASSUME NEW S, IsFiniteSet(S), NEW B, B \subseteq SUBSET S, B # {}
    PROVE  \E T \in B : \A x \in T : T \ {x} \notin B
  <1>1. B \subseteq FiniteSubsetsOf(S)
    BY FS_Subset DEF FiniteSubsetsOf
  <1>2. PICK T \in B : \A R \in B : ~ (<<R, T>> \in StrictSubsetOrdering(S))
    BY <1>1, WFMin, FS_StrictSubsetOrderingWellFounded
  <1>3. ASSUME NEW x \in T, T \ {x} \in B PROVE FALSE
    <2>1. <<T \ {x}, T>> \in StrictSubsetOrdering(S)
      BY <1>3 DEF StrictSubsetOrdering
    <2> QED
      BY <1>2, <1>3, <2>1
  <1> QED
    BY <1>3

\* A nonempty set of natural numbers has a smallest member.
LEMMA Smallest ==
    ASSUME NEW T, T \subseteq Nat, T # {}
    PROVE  \E n \in T : \A m \in T : n <= m
  <1>1. PICK n \in T : \A m \in T : ~ (<<m, n>> \in OpToRel(<, Nat))
    BY WFMin, NatLessThanWellFounded
  <1>2. ASSUME NEW m \in T PROVE n <= m
    <2>1. m \in Nat /\ n \in Nat
      OBVIOUS
    <2>2. ~ (m < n)
      BY <1>1, <1>2, <2>1 DEF OpToRel
    <2> QED
      BY <2>1, <2>2
  <1> QED
    BY <1>2

-----------------------------------------------------------------------------
(* The fold *)

Upto(S, n) == {T \in SUBSET S : Cardinality(T) <= n}

\* The library's definition, in these words.
LEMMA SumIs ==
    ASSUME NEW f, NEW S
    PROVE SumOf(f, S) = (CHOOSE g : Folding(f, SUBSET S, g))[S]
  BY DEF SumOf, MapThenSumSet, MapThenFoldSet, Folding, First

\* The subsets of a finite set, with the element that is taken next.
LEMMA Parts ==
    ASSUME NEW S, IsFiniteSet(S), NEW T \in SUBSET S
    PROVE  /\ IsFiniteSet(T) /\ Cardinality(T) \in Nat
           /\ T # {} => /\ First(T) \in T
                        /\ T \ {First(T)} \in SUBSET S
                        /\ Cardinality(T \ {First(T)}) = Cardinality(T) - 1
           /\ T = {} <=> Cardinality(T) = 0
  <1>1. IsFiniteSet(T) /\ Cardinality(T) \in Nat
    BY FS_Subset, FS_CardinalityType
  <1>2. T # {} => First(T) \in T
    BY DEF First
  <1>3. T # {} => Cardinality(T \ {First(T)}) = Cardinality(T) - 1
    BY <1>1, <1>2, FS_RemoveElement
  <1> QED
    BY <1>1, <1>2, <1>3, FS_EmptySet

\* The subsets of at most n elements, and how they become smaller.
LEMMA UptoIs ==
    ASSUME NEW S, IsFiniteSet(S), NEW n \in Nat
    PROVE  /\ \A T : T \in Upto(S, n) <=> T \in SUBSET S /\ Cardinality(T) <= n
           /\ Upto(S, 0) = {{}}
           /\ n # 0 => /\ Upto(S, n - 1) \subseteq Upto(S, n)
                       /\ \A T \in Upto(S, n) : T # {} => T \ {First(T)} \in Upto(S, n - 1)
  <1>1. \A T, m : T \in Upto(S, m) <=> T \in SUBSET S /\ Cardinality(T) <= m
    BY DEF Upto
  <1>2. \A T \in SUBSET S : Cardinality(T) \in Nat
    BY Parts
  <1>3. ASSUME NEW T PROVE T \in Upto(S, 0) <=> T = {}
    <2>1. ASSUME T \in SUBSET S PROVE Cardinality(T) <= 0 <=> T = {}
      <3>1. Cardinality(T) \in Nat /\ (T = {} <=> Cardinality(T) = 0)
        BY <2>1, Parts
      <3> QED
        BY <3>1
    <2> QED
      BY <1>1, <2>1
  <1>4. Upto(S, 0) = {{}}
    BY <1>3
  <1>5. ASSUME n # 0 PROVE Upto(S, n - 1) \subseteq Upto(S, n)
    <2> SUFFICES ASSUME NEW T \in Upto(S, n - 1) PROVE T \in Upto(S, n)
      OBVIOUS
    <2>1. T \in SUBSET S /\ Cardinality(T) <= n - 1 /\ Cardinality(T) \in Nat
      BY <1>1, <1>2
    <2> QED
      BY <1>1, <2>1
  <1>6. ASSUME n # 0, NEW T \in Upto(S, n), T # {} PROVE T \ {First(T)} \in Upto(S, n - 1)
    <2>1. T \in SUBSET S /\ Cardinality(T) <= n
      BY <1>1, <1>6
    <2>2. T \ {First(T)} \in SUBSET S /\ Cardinality(T \ {First(T)}) = Cardinality(T) - 1
      BY <1>6, <2>1, Parts
    <2>3. Cardinality(T) \in Nat
      BY <1>2, <2>1
    <2>4. Cardinality(T \ {First(T)}) <= n - 1
      BY <2>1, <2>2, <2>3
    <2> QED
      BY <1>1, <2>2, <2>4
  <1> QED
    BY <1>1, <1>4, <1>5, <1>6

\* The fold's recursive function exists, by the size of the subsets.
LEMMA FoldingExists ==
    ASSUME NEW f, NEW S, IsFiniteSet(S)
    PROVE  \E g : Folding(f, SUBSET S, g)
  <1> DEFINE Bad == {n \in Nat : ~ \E g : Folding(f, Upto(S, n), g)}
  <1>1. Bad = {}
    <2> SUFFICES ASSUME Bad # {} PROVE FALSE
      OBVIOUS
    <2>0. Bad \subseteq Nat
      OBVIOUS
    <2>1. PICK n \in Bad : \A m \in Bad : n <= m
      <3> HIDE DEF Bad
      <3> QED
        BY <2>0, Smallest
    <2>2. CASE n = 0
      <3>1. Folding(f, {{}}, [T \in {{}} |-> 0])
        BY DEF Folding
      <3> QED
        BY <2>2, <3>1, UptoIs
    <2>3. CASE n # 0
      <3>1. n - 1 \in Nat /\ n - 1 \notin Bad
        BY <2>1, <2>3
      <3>2. PICK g : Folding(f, Upto(S, n - 1), g)
        BY <3>1
      <3> DEFINE h == [T \in Upto(S, n) |->
                          IF T = {} THEN 0 ELSE f[First(T)] + g[T \ {First(T)}]]
      <3>3. ASSUME NEW T \in Upto(S, n - 1) PROVE h[T] = g[T]
        <4>1. T \in Upto(S, n)
          BY <2>3, <3>3, UptoIs
        <4>2. g[T] = IF T = {} THEN 0 ELSE f[First(T)] + g[T \ {First(T)}]
          BY <3>2, <3>3 DEF Folding
        <4> QED
          BY <4>1, <4>2
      <3>4. ASSUME NEW T \in Upto(S, n), T # {} PROVE T \ {First(T)} \in Upto(S, n - 1)
        BY <2>3, <3>4, UptoIs
      <3>5. h = [T \in Upto(S, n) |-> IF T = {} THEN 0 ELSE f[First(T)] + h[T \ {First(T)}]]
        <4>1. \A T \in Upto(S, n) : T # {} => h[T \ {First(T)}] = g[T \ {First(T)}]
          BY <3>3, <3>4
        <4> HIDE DEF h
        <4>2. h = [T \in Upto(S, n) |-> IF T = {} THEN 0 ELSE f[First(T)] + g[T \ {First(T)}]]
          BY DEF h
        <4> QED
          BY <4>1, <4>2
      <3>6. Folding(f, Upto(S, n), h)
        BY <3>5 DEF Folding
      <3> QED
        BY <2>1, <3>6
    <2> QED
      BY <2>2, <2>3
  <1>2. Cardinality(S) \in Nat
    BY FS_CardinalityType
  <1>3. SUBSET S = Upto(S, Cardinality(S))
    <2>1. \A T \in SUBSET S : Cardinality(T) <= Cardinality(S)
      BY FS_Subset
    <2> QED
      BY <2>1 DEF Upto
  <1>4. Cardinality(S) \notin Bad
    BY <1>1
  <1> HIDE DEF Bad
  <1> QED
    BY <1>2, <1>3, <1>4 DEF Bad

\* The recursive equation.
LEMMA SumsStep ==
    ASSUME NEW f, NEW S, IsFiniteSet(S), NEW T \in SUBSET S
    PROVE  Sums(f, S)[T] =
              IF T = {} THEN 0 ELSE f[First(T)] + Sums(f, S)[T \ {First(T)}]
  <1>1. Folding(f, SUBSET S, Sums(f, S))
    BY FoldingExists DEF Sums
  <1> QED
    BY <1>1 DEF Folding

\* It does not matter which set the fold began with, nor what f is outside.
LEMMA SumsAgree ==
    ASSUME NEW f, NEW h, NEW S, IsFiniteSet(S), NEW R \in SUBSET S, \A x \in R : f[x] = h[x]
    PROVE  \A T \in SUBSET R : Sums(f, S)[T] = Sums(h, R)[T]
  <1> DEFINE Bad == {T \in SUBSET R : Sums(f, S)[T] # Sums(h, R)[T]}
  <1> SUFFICES ASSUME Bad # {} PROVE FALSE
    OBVIOUS
  <1>1. IsFiniteSet(R)
    BY FS_Subset
  <1>2. PICK T \in Bad : \A x \in T : T \ {x} \notin Bad
    BY <1>1, MinimalSubset
  <1>3. /\ T \in SUBSET R /\ T \in SUBSET S
        /\ Sums(f, S)[T] # Sums(h, R)[T]
    OBVIOUS
  <1>4. /\ Sums(f, S)[T] = IF T = {} THEN 0 ELSE f[First(T)] + Sums(f, S)[T \ {First(T)}]
        /\ Sums(h, R)[T] = IF T = {} THEN 0 ELSE h[First(T)] + Sums(h, R)[T \ {First(T)}]
    <2>1. Sums(f, S)[T] = IF T = {} THEN 0 ELSE f[First(T)] + Sums(f, S)[T \ {First(T)}]
      BY <1>3, SumsStep
    <2>2. Sums(h, R)[T] = IF T = {} THEN 0 ELSE h[First(T)] + Sums(h, R)[T \ {First(T)}]
      BY <1>1, <1>3, SumsStep
    <2> QED
      BY <2>1, <2>2
  <1>5. T # {}
    BY <1>3, <1>4
  <1>6. First(T) \in T /\ First(T) \in R
    BY <1>3, <1>5 DEF First
  <1>7. Sums(f, S)[T \ {First(T)}] = Sums(h, R)[T \ {First(T)}]
    BY <1>2, <1>3, <1>6
  <1> QED
    BY <1>3, <1>4, <1>5, <1>6, <1>7

\* So every subset of S may be summed as a part of S.
LEMMA SumIsSums ==
    ASSUME NEW f, NEW S, IsFiniteSet(S), NEW T \in SUBSET S
    PROVE  SumOf(f, T) = Sums(f, S)[T]
  <1>1. SumOf(f, T) = Sums(f, T)[T]
    BY SumIs DEF Sums
  <1>2. Sums(f, S)[T] = Sums(f, T)[T]
    BY SumsAgree
  <1> QED
    BY <1>1, <1>2

-----------------------------------------------------------------------------
(* What the sum is *)

\* Nothing adds up to nothing.
LEMMA SumEmpty == ASSUME NEW f PROVE SumOf(f, {}) = 0
  <1>1. IsFiniteSet({})
    BY FS_EmptySet
  <1>2. SumOf(f, {}) = Sums(f, {})[{}]
    BY <1>1, SumIsSums
  <1> QED
    BY <1>1, <1>2, SumsStep

\* The recursive equation of the sum.
LEMMA SumFirst ==
    ASSUME NEW f, NEW S, IsFiniteSet(S), S # {}
    PROVE  SumOf(f, S) = f[First(S)] + SumOf(f, S \ {First(S)})
  <1>1. SumOf(f, S) = Sums(f, S)[S]
    BY SumIsSums
  <1>2. SumOf(f, S \ {First(S)}) = Sums(f, S)[S \ {First(S)}]
    BY SumIsSums
  <1>3. Sums(f, S)[S] = f[First(S)] + Sums(f, S)[S \ {First(S)}]
    BY SumsStep
  <1> QED
    BY <1>1, <1>2, <1>3

\* Sums of equal numbers are equal.
LEMMA SumAgree ==
    ASSUME NEW f, NEW h, NEW S, IsFiniteSet(S), \A x \in S : f[x] = h[x]
    PROVE  SumOf(f, S) = SumOf(h, S)
  <1>1. SumOf(f, S) = Sums(f, S)[S]
    BY SumIsSums
  <1>2. SumOf(h, S) = Sums(h, S)[S]
    BY SumIsSums
  <1>3. Sums(f, S)[S] = Sums(h, S)[S]
    BY SumsAgree
  <1> QED
    BY <1>1, <1>2, <1>3

\* The sum of natural numbers is one.
LEMMA SumType ==
    ASSUME NEW f, NEW S, IsFiniteSet(S), \A x \in S : f[x] \in Nat
    PROVE  SumOf(f, S) \in Nat
  <1> DEFINE Bad == {T \in SUBSET S : SumOf(f, T) \notin Nat}
  <1> SUFFICES ASSUME Bad # {} PROVE FALSE
    OBVIOUS
  <1>1. PICK T \in Bad : \A x \in T : T \ {x} \notin Bad
    BY MinimalSubset
  <1>2. T \in SUBSET S /\ IsFiniteSet(T) /\ SumOf(f, T) \notin Nat
    BY FS_Subset
  <1>3. T # {}
    BY <1>2, SumEmpty
  <1>4. First(T) \in T
    BY <1>3 DEF First
  <1>5. SumOf(f, T \ {First(T)}) \in Nat
    BY <1>1, <1>2, <1>4
  <1>6. f[First(T)] \in Nat
    BY <1>2, <1>4
  <1>7. SumOf(f, T) = f[First(T)] + SumOf(f, T \ {First(T)})
    BY <1>2, <1>3, SumFirst
  <1> QED
    BY <1>2, <1>5, <1>6, <1>7

\* Any element can be taken out of the sum, not only the one the fold takes.
LEMMA SumWithout ==
    ASSUME NEW f, NEW S, IsFiniteSet(S), \A x \in S : f[x] \in Nat, NEW y \in S
    PROVE  SumOf(f, S) = f[y] + SumOf(f, S \ {y})
  <1> DEFINE Bad == {T \in SUBSET S : \E x \in T : SumOf(f, T) # f[x] + SumOf(f, T \ {x})}
  <1>1. ASSUME Bad # {} PROVE FALSE
    <2>1. PICK T \in Bad : \A x \in T : T \ {x} \notin Bad
      BY <1>1, MinimalSubset
    <2>2. T \in SUBSET S /\ IsFiniteSet(T)
      BY FS_Subset
    <2>3. PICK x \in T : SumOf(f, T) # f[x] + SumOf(f, T \ {x})
      BY <2>1
    <2> DEFINE c == First(T)
    <2>4. c \in T /\ SumOf(f, T) = f[c] + SumOf(f, T \ {c})
      BY <2>2, <2>3, SumFirst DEF First
    <2> HIDE DEF c
    <2>5. x # c
      BY <2>3, <2>4
    <2>6. T \ {c} \in SUBSET S /\ x \in T \ {c} /\ T \ {x} \in SUBSET S /\ c \in T \ {x}
      BY <2>2, <2>4, <2>5
    <2>7. SumOf(f, T \ {c}) = f[x] + SumOf(f, (T \ {c}) \ {x})
      BY <2>1, <2>4, <2>6
    <2>8. SumOf(f, T \ {x}) = f[c] + SumOf(f, (T \ {x}) \ {c})
      BY <2>1, <2>6
    <2>9. (T \ {x}) \ {c} = (T \ {c}) \ {x} /\ (T \ {c}) \ {x} \in SUBSET S
      BY <2>2
    <2> DEFINE rest == (T \ {c}) \ {x}
    <2>10. IsFiniteSet(rest) /\ \A z \in rest : f[z] \in Nat
      BY <2>9, FS_Subset
    <2>11. SumOf(f, rest) \in Nat
      <3> HIDE DEF rest
      <3> QED
        BY <2>10, SumType
    <2>12. f[x] \in Nat /\ f[c] \in Nat
      BY <2>2, <2>4
    <2>13. /\ SumOf(f, T) = f[c] + (f[x] + SumOf(f, rest))
          /\ SumOf(f, T \ {x}) = f[c] + SumOf(f, rest)
      BY <2>4, <2>7, <2>8, <2>9
    <2> HIDE DEF rest
    <2>14. SumOf(f, T) = f[x] + SumOf(f, T \ {x})
      BY <2>11, <2>12, <2>13
    <2> QED
      BY <2>3, <2>14
  <1> QED
    BY <1>1

\* An element more adds what it is mapped to.
LEMMA SumWith ==
    ASSUME NEW f, NEW S, IsFiniteSet(S), NEW y, y \notin S, \A x \in S \union {y} : f[x] \in Nat
    PROVE  SumOf(f, S \union {y}) = SumOf(f, S) + f[y]
  <1>1. IsFiniteSet(S \union {y})
    BY FS_AddElement
  <1>2. (S \union {y}) \ {y} = S
    OBVIOUS
  <1>3. SumOf(f, S \union {y}) = f[y] + SumOf(f, (S \union {y}) \ {y})
    BY <1>1, SumWithout
  <1>4. SumOf(f, S) \in Nat /\ f[y] \in Nat
    BY SumType
  <1> QED
    BY <1>2, <1>3, <1>4

\* Two functions that differ at one element of the set.
LEMMA SumChange ==
    ASSUME NEW f, NEW h, NEW S, IsFiniteSet(S), NEW y \in S,
           \A x \in S : f[x] \in Nat /\ h[x] \in Nat,
           \A x \in S \ {y} : f[x] = h[x]
    PROVE  SumOf(f, S) + h[y] = SumOf(h, S) + f[y]
  <1> DEFINE rest == S \ {y}
  <1>1. IsFiniteSet(rest) /\ \A x \in rest : f[x] \in Nat
    BY FS_RemoveElement
  <1>2. SumOf(f, S) = f[y] + SumOf(f, rest)
    BY SumWithout
  <1>3. SumOf(h, S) = h[y] + SumOf(h, rest)
    BY SumWithout
  <1>4. \A x \in rest : f[x] = h[x]
    OBVIOUS
  <1> HIDE DEF rest
  <1>5. SumOf(f, rest) = SumOf(h, rest) /\ SumOf(f, rest) \in Nat
    BY <1>1, <1>4, SumAgree, SumType
  <1>6. f[y] \in Nat /\ h[y] \in Nat
    OBVIOUS
  <1> QED
    BY <1>2, <1>3, <1>5, <1>6

\* No addend is more than the sum.
LEMMA SumCovers ==
    ASSUME NEW f, NEW S, IsFiniteSet(S), \A x \in S : f[x] \in Nat, NEW y \in S
    PROVE  f[y] <= SumOf(f, S)
  <1>1. SumOf(f, S) = f[y] + SumOf(f, S \ {y})
    BY SumWithout
  <1>2. IsFiniteSet(S \ {y})
    BY FS_RemoveElement
  <1>3. SumOf(f, S \ {y}) \in Nat
    BY <1>2, SumType
  <1> QED
    BY <1>1, <1>3

\* A part of the set has no larger sum.
LEMMA SumPart ==
    ASSUME NEW f, NEW S, IsFiniteSet(S), \A x \in S : f[x] \in Nat, NEW R \in SUBSET S
    PROVE  SumOf(f, R) <= SumOf(f, S)
  <1> DEFINE Bad == {T \in SUBSET S : ~(SumOf(f, R \intersect T) <= SumOf(f, T))}
  <1>1. ASSUME Bad # {} PROVE FALSE
    <2>1. PICK T \in Bad : \A x \in T : T \ {x} \notin Bad
      BY <1>1, MinimalSubset
    <2>2. IsFiniteSet(T) /\ T \in SUBSET S
      BY FS_Subset
    <2>3. T # {}
      BY SumEmpty
    <2>4. PICK x \in T : TRUE
      BY <2>3
    <2>5. SumOf(f, R \intersect (T \ {x})) <= SumOf(f, T \ {x})
      BY <2>1, <2>2
    <2>6. SumOf(f, T) = f[x] + SumOf(f, T \ {x}) /\ f[x] \in Nat
      BY <2>2, SumWithout
    <2>7. /\ SumOf(f, T \ {x}) \in Nat /\ SumOf(f, R \intersect (T \ {x})) \in Nat
          /\ SumOf(f, R \intersect T) \in Nat
      <3>1. /\ IsFiniteSet(T \ {x}) /\ IsFiniteSet(R \intersect (T \ {x}))
            /\ IsFiniteSet(R \intersect T)
        BY <2>2, FS_Subset
      <3> QED
        BY <2>2, <3>1, SumType
    <2>8. CASE x \in R
      <3>1. R \intersect (T \ {x}) = (R \intersect T) \ {x}
        OBVIOUS
      <3>2. IsFiniteSet(R \intersect T) /\ x \in R \intersect T
        BY <2>2, <2>8, FS_Subset
      <3>3. SumOf(f, R \intersect T) = f[x] + SumOf(f, R \intersect (T \ {x}))
        BY <2>2, <3>1, <3>2, SumWithout
      <3> QED
        BY <2>5, <2>6, <2>7, <3>3
    <2>9. CASE x \notin R
      <3>1. R \intersect (T \ {x}) = R \intersect T
        BY <2>9
      <3>2. SumOf(f, R \intersect T) <= SumOf(f, T \ {x})
        BY <2>5, <3>1
      <3>3. ~(SumOf(f, R \intersect T) <= SumOf(f, T))
        OBVIOUS
      <3> HIDE DEF Bad
      <3> QED
        BY <2>6, <2>7, <3>2, <3>3
    <2> QED
      BY <2>8, <2>9
  <1>2. S \notin Bad
    BY <1>1
  <1>3. R \intersect S = R
    OBVIOUS
  <1> QED
    BY <1>2, <1>3

\* Addends that are covered by different elements of S add up to no more than S does.
LEMMA SumInto ==
    ASSUME NEW f, NEW P, IsFiniteSet(P), \A x \in P : f[x] \in Nat,
           NEW h, NEW S, IsFiniteSet(S), \A y \in S : h[y] \in Nat,
           NEW m, \A x \in P : m[x] \in S /\ f[x] <= h[m[x]],
           \A x, y \in P : m[x] = m[y] => x = y
    PROVE  SumOf(f, P) <= SumOf(h, S)
  <1> DEFINE Image(T) == {m[x] : x \in T}
             Bad == {T \in SUBSET P : ~(SumOf(f, T) <= SumOf(h, Image(T)))}
  <1>1. ASSUME Bad # {} PROVE FALSE
    <2>1. PICK T \in Bad : \A x \in T : T \ {x} \notin Bad
      BY <1>1, MinimalSubset
    <2>2. IsFiniteSet(T) /\ T \in SUBSET P
      BY FS_Subset
    <2>3. T # {}
      <3>1. Image({}) = {}
        OBVIOUS
      <3> QED
        BY <3>1, SumEmpty
    <2>4. PICK x \in T : TRUE
      BY <2>3
    <2>5. SumOf(f, T \ {x}) <= SumOf(h, Image(T \ {x}))
      BY <2>1, <2>2
    <2>6. SumOf(f, T) = f[x] + SumOf(f, T \ {x}) /\ f[x] \in Nat
      BY <2>2, SumWithout
    <2>7. /\ Image(T) \subseteq S /\ m[x] \in Image(T) /\ m[x] \in S
          /\ Image(T \ {x}) = Image(T) \ {m[x]}
      BY <2>2
    <2>8. IsFiniteSet(Image(T)) /\ IsFiniteSet(Image(T \ {x})) /\ IsFiniteSet(T \ {x})
      BY <2>2, <2>7, FS_Subset
    <2>9. SumOf(h, Image(T)) = h[m[x]] + SumOf(h, Image(T \ {x})) /\ h[m[x]] \in Nat
      BY <2>7, <2>8, SumWithout
    <2>10. SumOf(h, Image(T \ {x})) \in Nat
      BY <2>7, <2>8, SumType
    <2>11. SumOf(f, T \ {x}) \in Nat
      BY <2>2, <2>8, SumType
    <2>12. f[x] <= h[m[x]]
      BY <2>2
    <2>13. ~(SumOf(f, T) <= SumOf(h, Image(T)))
      OBVIOUS
    <2> HIDE DEF Image, Bad
    <2> QED
      BY <2>5, <2>6, <2>9, <2>10, <2>11, <2>12, <2>13
  <1>2. ~(P \in Bad) /\ P \in SUBSET P
    BY <1>1
  <1>3. SumOf(f, P) <= SumOf(h, Image(P))
    BY <1>2
  <1>4. Image(P) \in SUBSET S
    OBVIOUS
  <1>5. SumOf(h, Image(P)) <= SumOf(h, S) /\ SumOf(h, S) \in Nat
    BY <1>4, SumPart, SumType
  <1>6. SumOf(h, Image(P)) \in Nat /\ SumOf(f, P) \in Nat
    <2>1. IsFiniteSet(Image(P))
      BY <1>4, FS_Subset
    <2> QED
      BY <1>4, <2>1, SumType
  <1> QED
    BY <1>3, <1>5, <1>6

-----------------------------------------------------------------------------
\* User.adjust_storage never leaves less than zero.
LEMMA Positive ==
    ASSUME NEW x \in Int
    PROVE  /\ Max({0, x}) \in Nat
           /\ x >= 0 => Max({0, x}) = x
           /\ x < 0 => Max({0, x}) = 0
  BY DEF Max
=============================================================================
