----------------------------- MODULE DataLemmas -----------------------------
(***************************************************************************)
(* Facts about sets and sequences that the proofs of several modules cite. *)
(*                                                                         *)
(* A finite, non-empty set of integers has a greatest and a least element, *)
(* and so does the image of a finite set under an integer function.  The   *)
(* server's SQL relies on both: MAX(joined_order) and ORDER BY ... LIMIT 1.*)
(***************************************************************************)
EXTENDS Integers, Sequences, Functions, FiniteSetTheorems, TLAPS

-----------------------------------------------------------------------------
(***************************************************************************)
(* Induction.  A set of counterexamples, if it is not empty, has a least   *)
(* one.                                                                    *)
(***************************************************************************)
\* Among subsets of a finite set, by strict inclusion.
LEMMA LeastSubset ==
  ASSUME NEW D, IsFiniteSet(D), NEW B \in SUBSET SUBSET D, B # {}
  PROVE  \E T \in B : \A U \in SUBSET T : U # T => U \notin B
<1> DEFINE R == StrictSubsetOrdering(D)
<1>1. IsWellFoundedOn(R, SUBSET D)
  BY FS_StrictSubsetOrderingWellFounded, FS_FiniteSubsetsOfFinite
<1> HIDE DEF R
<1>2. PICK T \in B : \A U \in B : <<U, T>> \notin R
  BY <1>1, WFMin
<1>3. \A U \in SUBSET T : U # T => <<U, T>> \in R
  BY <1>2 DEF R, StrictSubsetOrdering
<1>4. \A U \in SUBSET T : U # T => U \notin B
  BY <1>2, <1>3
<1> QED
  BY <1>4

\* Among natural numbers.
LEMMA LeastNumber ==
  ASSUME NEW B \in SUBSET Nat, B # {}
  PROVE  \E n \in B : \A m \in 0..n-1 : m \notin B
<1> DEFINE R == OpToRel(<, Nat)
<1>1. IsWellFoundedOn(R, Nat)
  BY NatLessThanWellFounded
<1>2. \A m, n \in Nat : m < n => <<m, n>> \in R
  BY DEF OpToRel
<1> HIDE DEF R
<1>3. PICK n \in B : \A m \in B : <<m, n>> \notin R
  BY <1>1, WFMin
<1>4. n \in Nat /\ \A m \in 0..n-1 : m \in Nat /\ m < n
  OBVIOUS
<1>5. \A m \in 0..n-1 : m \notin B
  BY <1>2, <1>3, <1>4
<1> QED
  BY <1>5

-----------------------------------------------------------------------------
(***************************************************************************)
(* Greatest and least elements.                                            *)
(***************************************************************************)
HasMax(S) == \E x \in S : \A y \in S : x >= y

\* A smallest finite set of integers without a maximum would have one more
\* element than a set with a maximum.
LEMMA FiniteMax ==
  ASSUME NEW S \in SUBSET Int, IsFiniteSet(S), S # {}
  PROVE  \E x \in S : \A y \in S : x >= y
<1> DEFINE Bad == {T \in SUBSET S : T # {} /\ ~ HasMax(T)}
<1>1. Bad = {}
  <2> SUFFICES ASSUME Bad # {} PROVE FALSE
    OBVIOUS
  <2>1. Bad \in SUBSET SUBSET S
    OBVIOUS
  <2> HIDE DEF Bad
  <2>2. PICK T \in Bad : \A U \in SUBSET T : U # T => U \notin Bad
    BY <2>1, LeastSubset
  <2>3. T \in SUBSET S /\ T # {} /\ ~ HasMax(T)
    BY DEF Bad
  <2>4. PICK x \in T : TRUE
    BY <2>3
  <2>5. CASE T \ {x} = {}
    BY <2>3, <2>4, <2>5 DEF HasMax
  <2>6. CASE T \ {x} # {}
    <3>1. HasMax(T \ {x})
      BY <2>2, <2>3, <2>4, <2>6 DEF Bad
    <3>2. PICK m \in T \ {x} : \A y \in T \ {x} : m >= y
      BY <3>1 DEF HasMax
    <3>3. x \in Int /\ m \in Int /\ T \subseteq Int
      BY <2>3, <2>4
    <3> QED
      BY <2>3, <3>2, <3>3, <2>4 DEF HasMax
  <2> QED
    BY <2>5, <2>6
<1>2. HasMax(S)
  BY <1>1
<1> QED
  BY <1>2 DEF HasMax

\* The image of a finite set under a function is finite.
LEMMA FiniteImage ==
  ASSUME NEW D, IsFiniteSet(D), NEW f \in [D -> Int]
  PROVE  IsFiniteSet({f[x] : x \in D})
<1> DEFINE I == {f[x] : x \in D}
<1>1. f \in Surjection(D, I)
  BY DEF Surjection
<1> QED
  BY <1>1, FS_Surjection

\* Some element of a finite, non-empty set has the least image.
LEMMA FiniteArgMin ==
  ASSUME NEW D, IsFiniteSet(D), D # {}, NEW f \in [D -> Int]
  PROVE  \E x \in D : \A y \in D : f[x] <= f[y]
<1> DEFINE g == [x \in D |-> -f[x]]
           I == {g[x] : x \in D}
<1>1. g \in [D -> Int] /\ I \in SUBSET Int /\ I # {}
  OBVIOUS
<1>2. IsFiniteSet(I)
  BY <1>1, FiniteImage
<1>3. PICK m \in I : \A y \in I : m >= y
  BY <1>1, <1>2, FiniteMax
<1>4. PICK x \in D : m = g[x]
  BY <1>3
<1>5. \A y \in D : -f[x] >= -f[y]
  BY <1>3, <1>4
<1> QED
  BY <1>5
-----------------------------------------------------------------------------
(***************************************************************************)
(* Sums.  SumFunctionOnSet adds up a function over a finite set by taking  *)
(* one element after another; the facts below say that the recursion has a *)
(* solution and that its order does not matter.                            *)
(***************************************************************************)
Pick(s) == CHOOSE x \in s : TRUE

\* g is the table of the sums of f over the subsets of T
AddsUp(g, f, T) ==
  g = [s \in SUBSET T |-> IF s = {} THEN 0 ELSE f[Pick(s)] + g[s \ {Pick(s)}]]

LEMMA SumIsTable ==
  ASSUME NEW f, NEW T
  PROVE  SumFunctionOnSet(f, T) = (CHOOSE g : AddsUp(g, f, T))[T]
BY DEF SumFunctionOnSet, FoldFunctionOnSet, MapThenFoldSet, AddsUp, Pick

LEMMA AddsUpIs ==
  ASSUME NEW f, NEW T, NEW g, AddsUp(g, f, T)
  PROVE  \A s \in SUBSET T :
           g[s] = IF s = {} THEN 0 ELSE f[Pick(s)] + g[s \ {Pick(s)}]
<1> DEFINE w == [s \in SUBSET T |-> IF s = {} THEN 0 ELSE f[Pick(s)] + g[s \ {Pick(s)}]]
<1>1. g = w
  BY DEF AddsUp
<1>2. \A s \in SUBSET T : w[s] = IF s = {} THEN 0 ELSE f[Pick(s)] + g[s \ {Pick(s)}]
  OBVIOUS
<1> HIDE DEF w
<1> QED
  BY <1>1, <1>2

LEMMA PickIn ==
  ASSUME NEW s, s # {}
  PROVE  Pick(s) \in s
BY DEF Pick

\* Two tables agree where both are defined.
LEMMA AddsUpOnce ==
  ASSUME NEW D, IsFiniteSet(D), NEW f, NEW S \in SUBSET D, NEW T \in SUBSET D,
         NEW g, NEW h, AddsUp(g, f, S), AddsUp(h, f, T)
  PROVE  \A s \in SUBSET (S \intersect T) : g[s] = h[s]
<1> DEFINE Bad == {s \in SUBSET (S \intersect T) : g[s] # h[s]}
<1>1. Bad = {}
  <2> SUFFICES ASSUME Bad # {} PROVE FALSE
    OBVIOUS
  <2>1. Bad \in SUBSET SUBSET D
    OBVIOUS
  <2> HIDE DEF Bad
  <2>2. PICK s \in Bad : \A u \in SUBSET s : u # s => u \notin Bad
    BY <2>1, LeastSubset
  <2>3. /\ g[s] = IF s = {} THEN 0 ELSE f[Pick(s)] + g[s \ {Pick(s)}]
        /\ h[s] = IF s = {} THEN 0 ELSE f[Pick(s)] + h[s \ {Pick(s)}]
    BY AddsUpIs DEF Bad
  <2>4. s # {} => Pick(s) \in s
    BY PickIn
  <2>5. s # {} => g[s \ {Pick(s)}] = h[s \ {Pick(s)}]
    BY <2>2, <2>4 DEF Bad
  <2> QED
    BY <2>2, <2>3, <2>5 DEF Bad
<1> QED
  BY <1>1

\* There is a table of sums.
LEMMA AddsUpExists ==
  ASSUME NEW D, IsFiniteSet(D), NEW f
  PROVE  \A T \in SUBSET D : \E g : AddsUp(g, f, T)
<1> DEFINE Bad == {T \in SUBSET D : ~ \E g : AddsUp(g, f, T)}
<1>1. Bad = {}
  <2> SUFFICES ASSUME Bad # {} PROVE FALSE
    OBVIOUS
  <2>1. Bad \in SUBSET SUBSET D
    OBVIOUS
  <2> HIDE DEF Bad
  <2>2. PICK T \in Bad : \A U \in SUBSET T : U # T => U \notin Bad
    BY <2>1, LeastSubset
  <2> DEFINE H(U) == CHOOSE g : AddsUp(g, f, U)
             v(U) == H(U)[U]
             w == [s \in SUBSET T |-> IF s = {} THEN 0 ELSE f[Pick(s)] + v(s \ {Pick(s)})]
  <2>3. \A U \in SUBSET T : U # T => AddsUp(H(U), f, U)
    <3> SUFFICES ASSUME NEW U \in SUBSET T, U # T PROVE AddsUp(H(U), f, U)
      OBVIOUS
    <3>1. \E g : AddsUp(g, f, U)
      BY <2>2 DEF Bad
    <3> QED
      BY <3>1
  <2> HIDE DEF H
  <2>4. \A r \in SUBSET T : r # T => w[r] = v(r)
    <3> SUFFICES ASSUME NEW r \in SUBSET T, r # T PROVE w[r] = v(r)
      OBVIOUS
    <3>1. v(r) = IF r = {} THEN 0 ELSE f[Pick(r)] + H(r)[r \ {Pick(r)}]
      BY <2>3, AddsUpIs
    <3>2. ASSUME r # {} PROVE H(r)[r \ {Pick(r)}] = v(r \ {Pick(r)})
      <4> DEFINE q == r \ {Pick(r)}
      <4>1. q \in SUBSET r /\ q \in SUBSET T /\ q # T /\ r \in SUBSET D /\ q \in SUBSET D
        BY <3>2, PickIn DEF Bad
      <4>2. AddsUp(H(r), f, r) /\ AddsUp(H(q), f, q)
        BY <2>3, <4>1
      <4> HIDE DEF q
      <4>3. H(r)[q] = H(q)[q]
        BY <4>1, <4>2, AddsUpOnce
      <4> QED
        BY <4>3 DEF q
    <3> QED
      BY <3>1, <3>2
  <2>5. \A s \in SUBSET T : s # {} => w[s \ {Pick(s)}] = v(s \ {Pick(s)})
    BY <2>4, PickIn
  <2>6. w = [s \in SUBSET T |-> IF s = {} THEN 0 ELSE f[Pick(s)] + w[s \ {Pick(s)}]]
    BY <2>5
  <2> HIDE DEF w
  <2>7. AddsUp(w, f, T)
    BY <2>6 DEF AddsUp
  <2> QED
    BY <2>2, <2>7 DEF Bad
<1> QED
  BY <1>1

LEMMA SumIs ==
  ASSUME NEW D, IsFiniteSet(D), NEW f, NEW T \in SUBSET D
  PROVE  SumFunctionOnSet(f, T) =
           IF T = {} THEN 0 ELSE f[Pick(T)] + SumFunctionOnSet(f, T \ {Pick(T)})
<1> DEFINE H(U) == CHOOSE g : AddsUp(g, f, U)
<1>1. \A U \in SUBSET D : AddsUp(H(U), f, U) /\ SumFunctionOnSet(f, U) = H(U)[U]
  <2> SUFFICES ASSUME NEW U \in SUBSET D
               PROVE  AddsUp(H(U), f, U) /\ SumFunctionOnSet(f, U) = H(U)[U]
    OBVIOUS
  <2>1. \E g : AddsUp(g, f, U)
    BY AddsUpExists
  <2> QED
    BY <2>1, SumIsTable
<1> HIDE DEF H
<1>2. SumFunctionOnSet(f, T) = IF T = {} THEN 0 ELSE f[Pick(T)] + H(T)[T \ {Pick(T)}]
  <2>1. AddsUp(H(T), f, T) /\ SumFunctionOnSet(f, T) = H(T)[T] /\ T \in SUBSET T
    BY <1>1
  <2>2. H(T)[T] = IF T = {} THEN 0 ELSE f[Pick(T)] + H(T)[T \ {Pick(T)}]
    BY <2>1, AddsUpIs
  <2> QED
    BY <2>1, <2>2
<1>3. ASSUME T # {} PROVE H(T)[T \ {Pick(T)}] = SumFunctionOnSet(f, T \ {Pick(T)})
  <2> DEFINE q == T \ {Pick(T)}
  <2>1. q \in SUBSET T /\ q \in SUBSET D
    OBVIOUS
  <2>2. AddsUp(H(T), f, T) /\ AddsUp(H(q), f, q) /\ SumFunctionOnSet(f, q) = H(q)[q]
    BY <1>1, <2>1
  <2> HIDE DEF q
  <2>3. H(T)[q] = H(q)[q]
    BY <2>1, <2>2, AddsUpOnce
  <2> QED
    BY <2>2, <2>3 DEF q
<1> QED
  BY <1>2, <1>3

LEMMA SumType ==
  ASSUME NEW D, IsFiniteSet(D), NEW f, \A x \in D : f[x] \in Int
  PROVE  \A T \in SUBSET D : SumFunctionOnSet(f, T) \in Int
<1> DEFINE S(T) == SumFunctionOnSet(f, T)
           Bad == {T \in SUBSET D : S(T) \notin Int}
<1>1. \A T \in SUBSET D : S(T) = IF T = {} THEN 0 ELSE f[Pick(T)] + S(T \ {Pick(T)})
  BY SumIs
<1> HIDE DEF S
<1>2. Bad = {}
  <2> SUFFICES ASSUME Bad # {} PROVE FALSE
    OBVIOUS
  <2>1. Bad \in SUBSET SUBSET D
    OBVIOUS
  <2> HIDE DEF Bad
  <2>2. PICK T \in Bad : \A U \in SUBSET T : U # T => U \notin Bad
    BY <2>1, LeastSubset
  <2>3. T \in SUBSET D /\ S(T) \notin Int
    BY DEF Bad
  <2>4. T # {} => Pick(T) \in T
    BY PickIn
  <2>5. T # {} => S(T \ {Pick(T)}) \in Int
    BY <2>2, <2>3, <2>4 DEF Bad
  <2> QED
    BY <1>1, <2>3, <2>4, <2>5
<1>3. \A T \in SUBSET D : S(T) \in Int
  BY <1>2
<1> QED
  BY <1>3 DEF S

\* Any element may be taken first.
LEMMA SumWithout ==
  ASSUME NEW D, IsFiniteSet(D), NEW f, \A x \in D : f[x] \in Int
  PROVE  \A T \in SUBSET D : \A x \in T :
           SumFunctionOnSet(f, T) = f[x] + SumFunctionOnSet(f, T \ {x})
<1> DEFINE S(T) == SumFunctionOnSet(f, T)
           Bad == {T \in SUBSET D : \E x \in T : S(T) # f[x] + S(T \ {x})}
<1>1. \A T \in SUBSET D : S(T) \in Int
  BY SumType
<1>2. \A T \in SUBSET D : T # {} => S(T) = f[Pick(T)] + S(T \ {Pick(T)})
  BY SumIs
<1>3. Bad = {}
  <2> SUFFICES ASSUME Bad # {} PROVE FALSE
    OBVIOUS
  <2>1. Bad \in SUBSET SUBSET D
    OBVIOUS
  <2> HIDE DEF Bad
  <2>2. PICK T \in Bad : \A U \in SUBSET T : U # T => U \notin Bad
    BY <2>1, LeastSubset
  <2>3. PICK x \in T : S(T) # f[x] + S(T \ {x})
    BY DEF Bad
  <2>4. T \in SUBSET D
    BY DEF Bad
  <2> DEFINE p == Pick(T)
  <2>5. p \in T /\ S(T) = f[p] + S(T \ {p})
    BY <1>2, <2>4, PickIn
  <2> HIDE DEF S, p
  <2>6. x # p
    BY <2>3, <2>5
  <2>7. S(T \ {p}) = f[x] + S((T \ {p}) \ {x})
    BY <2>2, <2>4, <2>5, <2>6 DEF Bad
  <2>8. S(T \ {x}) = f[p] + S((T \ {x}) \ {p})
    BY <2>2, <2>4, <2>5, <2>6 DEF Bad
  <2>9. (T \ {p}) \ {x} = (T \ {x}) \ {p}
    OBVIOUS
  <2> DEFINE sum == S(T)
             a == S(T \ {p})
             b == S(T \ {x})
             c == S((T \ {x}) \ {p})
  <2>10. f[p] \in Int /\ f[x] \in Int /\ a \in Int /\ b \in Int /\ c \in Int
    BY <1>1, <2>4, <2>5
  <2>11. sum = f[p] + a /\ a = f[x] + c /\ b = f[p] + c /\ sum # f[x] + b
    BY <2>3, <2>5, <2>7, <2>8, <2>9
  <2> HIDE DEF sum, a, b, c
  <2> QED
    BY <2>10, <2>11
<1> QED
  BY <1>3

\* The sum depends on the values only.
LEMMA SumSame ==
  ASSUME NEW D, IsFiniteSet(D), NEW f, NEW g, \A x \in D : f[x] = g[x]
  PROVE  \A T \in SUBSET D : SumFunctionOnSet(f, T) = SumFunctionOnSet(g, T)
<1> DEFINE Bad == {T \in SUBSET D : SumFunctionOnSet(f, T) # SumFunctionOnSet(g, T)}
<1>1. Bad = {}
  <2> SUFFICES ASSUME Bad # {} PROVE FALSE
    OBVIOUS
  <2>1. Bad \in SUBSET SUBSET D
    OBVIOUS
  <2> HIDE DEF Bad
  <2>2. PICK T \in Bad : \A U \in SUBSET T : U # T => U \notin Bad
    BY <2>1, LeastSubset
  <2>3. T \in SUBSET D /\ SumFunctionOnSet(f, T) # SumFunctionOnSet(g, T)
    BY DEF Bad
  <2>4. /\ SumFunctionOnSet(f, T) =
             IF T = {} THEN 0 ELSE f[Pick(T)] + SumFunctionOnSet(f, T \ {Pick(T)})
        /\ SumFunctionOnSet(g, T) =
             IF T = {} THEN 0 ELSE g[Pick(T)] + SumFunctionOnSet(g, T \ {Pick(T)})
        /\ T # {} => Pick(T) \in T
    BY <2>3, SumIs, PickIn
  <2>5. T # {} => SumFunctionOnSet(f, T \ {Pick(T)}) = SumFunctionOnSet(g, T \ {Pick(T)})
    BY <2>2, <2>3, <2>4 DEF Bad
  <2> QED
    BY <2>3, <2>4, <2>5
<1> QED
  BY <1>1

\* The sum of two functions is the sum of their sums.
LEMMA SumOfTwo ==
  ASSUME NEW D, IsFiniteSet(D), NEW f, NEW g, NEW h,
         \A x \in D : f[x] \in Int /\ g[x] \in Int /\ h[x] = f[x] + g[x]
  PROVE  \A T \in SUBSET D :
           SumFunctionOnSet(h, T) = SumFunctionOnSet(f, T) + SumFunctionOnSet(g, T)
<1> DEFINE S(e, T) == SumFunctionOnSet(e, T)
           Bad == {T \in SUBSET D : S(h, T) # S(f, T) + S(g, T)}
<1>1. \A T \in SUBSET D : S(f, T) \in Int /\ S(g, T) \in Int
  BY SumType
<1>2. \A T \in SUBSET D : 
        /\ S(f, T) = IF T = {} THEN 0 ELSE f[Pick(T)] + S(f, T \ {Pick(T)})
        /\ S(g, T) = IF T = {} THEN 0 ELSE g[Pick(T)] + S(g, T \ {Pick(T)})
        /\ S(h, T) = IF T = {} THEN 0 ELSE h[Pick(T)] + S(h, T \ {Pick(T)})
  BY SumIs
<1> HIDE DEF S
<1>3. Bad = {}
  <2> SUFFICES ASSUME Bad # {} PROVE FALSE
    OBVIOUS
  <2>1. Bad \in SUBSET SUBSET D
    OBVIOUS
  <2> HIDE DEF Bad
  <2>2. PICK T \in Bad : \A U \in SUBSET T : U # T => U \notin Bad
    BY <2>1, LeastSubset
  <2>3. T \in SUBSET D /\ S(h, T) # S(f, T) + S(g, T)
    BY DEF Bad
  <2>4. CASE T = {}
    <3>1. S(h, T) = 0 /\ S(f, T) = 0 /\ S(g, T) = 0
      BY <1>2, <2>3, <2>4
    <3> QED
      BY <2>3, <3>1
  <2>5. CASE T # {}
    <3> DEFINE p == Pick(T)
               q == T \ {p}
    <3>1. p \in T /\ p \in D /\ q \in SUBSET D /\ q # T /\ q \in SUBSET T
      BY <2>3, <2>5, PickIn
    <3>2. S(h, T) = h[p] + S(h, q) /\ S(f, T) = f[p] + S(f, q) /\ S(g, T) = g[p] + S(g, q)
      BY <1>2, <2>3, <2>5
    <3> HIDE DEF p, q
    <3>3. S(h, q) = S(f, q) + S(g, q)
      BY <2>2, <3>1 DEF Bad
    <3>4. f[p] \in Int /\ g[p] \in Int /\ h[p] = f[p] + g[p] /\ S(f, q) \in Int /\ S(g, q) \in Int
      BY <1>1, <3>1
    <3> QED
      BY <2>3, <3>2, <3>3, <3>4
  <2> QED
    BY <2>4, <2>5
<1>4. \A T \in SUBSET D : S(h, T) = S(f, T) + S(g, T)
  BY <1>3
<1> QED
  BY <1>4 DEF S

\* A function that is a on a set and 0 elsewhere.
LEMMA SumOfShares ==
  ASSUME NEW D, IsFiniteSet(D), NEW R \in SUBSET D, NEW a \in Int, NEW f,
         \A x \in D : f[x] = IF x \in R THEN a ELSE 0
  PROVE  SumFunctionOnSet(f, D) = a * Cardinality(R)
<1> DEFINE S(T) == SumFunctionOnSet(f, T)
           N(T) == Cardinality(T \intersect R)
           Bad == {T \in SUBSET D : S(T) # a * N(T)}
<1>1. \A T \in SUBSET D : S(T) = IF T = {} THEN 0 ELSE f[Pick(T)] + S(T \ {Pick(T)})
  BY SumIs
<1>2. \A T \in SUBSET D : N(T) \in Nat
  <2> SUFFICES ASSUME NEW T \in SUBSET D PROVE N(T) \in Nat
    OBVIOUS
  <2>1. IsFiniteSet(T \intersect R)
    BY FS_Subset, T \intersect R \subseteq D
  <2> QED
    BY <2>1, FS_CardinalityType
<1>3. N({}) = 0
  BY FS_EmptySet, {} \intersect R = {}
<1>4. \A T \in SUBSET D : \A x \in T : N(T \ {x}) = IF x \in R THEN N(T) - 1 ELSE N(T)
  <2> SUFFICES ASSUME NEW T \in SUBSET D, NEW x \in T
               PROVE  N(T \ {x}) = IF x \in R THEN N(T) - 1 ELSE N(T)
    OBVIOUS
  <2> DEFINE I == T \intersect R
  <2>1. IsFiniteSet(I) /\ (T \ {x}) \intersect R = I \ {x}
    BY FS_Subset, I \subseteq D
  <2>2. Cardinality(I \ {x}) = IF x \in I THEN Cardinality(I) - 1 ELSE Cardinality(I)
    BY <2>1, FS_RemoveElement
  <2> QED
    BY <2>1, <2>2
<1> HIDE DEF S, N
<1>5. Bad = {}
  <2> SUFFICES ASSUME Bad # {} PROVE FALSE
    OBVIOUS
  <2>1. Bad \in SUBSET SUBSET D
    OBVIOUS
  <2> HIDE DEF Bad
  <2>2. PICK T \in Bad : \A U \in SUBSET T : U # T => U \notin Bad
    BY <2>1, LeastSubset
  <2>3. T \in SUBSET D /\ S(T) # a * N(T)
    BY DEF Bad
  <2>4. CASE T = {}
    <3>1. S(T) = 0 /\ N(T) = 0
      BY <1>1, <1>3, <2>3, <2>4
    <3> QED
      BY <2>3, <3>1
  <2>5. CASE T # {}
    <3> DEFINE p == Pick(T)
               q == T \ {p}
    <3>1. p \in T /\ p \in D /\ q \in SUBSET D /\ q # T /\ q \in SUBSET T
      BY <2>3, <2>5, PickIn
    <3>2. S(T) = f[p] + S(q) /\ N(q) = IF p \in R THEN N(T) - 1 ELSE N(T)
      BY <1>1, <1>4, <2>3, <2>5, <3>1
    <3> HIDE DEF p, q
    <3>3. S(q) = a * N(q)
      BY <2>2, <3>1 DEF Bad
    <3>4. f[p] = (IF p \in R THEN a ELSE 0) /\ N(T) \in Nat /\ N(q) \in Nat
      BY <1>2, <2>3, <3>1
    <3>5. \A m \in Nat : a + a * (m - 1) = a * m
      OBVIOUS
    <3>6. \A m \in Nat : a * m \in Int
      OBVIOUS
    <3> QED
      BY <2>3, <3>2, <3>3, <3>4, <3>5, <3>6
  <2> QED
    BY <2>4, <2>5
<1>6. S(D) = a * N(D)
  BY <1>5
<1>7. N(D) = Cardinality(R)
  BY D \intersect R = R DEF N
<1> QED
  BY <1>6, <1>7 DEF S

\* One more term at the end.
LEMMA OneMoreTerm ==
  ASSUME NEW s \in Nat, NEW n \in Nat, s <= n,
         NEW f, DOMAIN f = s+1..n, NEW g, DOMAIN g = s+1..n+1,
         \A i \in s+1..n : f[i] \in Int /\ g[i] = f[i], g[n+1] \in Int
  PROVE  SumFunction(f) \in Int /\ SumFunction(g) = SumFunction(f) + g[n+1]
<1> DEFINE D == s+1..n
           E == s+1..n+1
<1>1. IsFiniteSet(D) /\ IsFiniteSet(E) /\ n + 1 \in E /\ D = E \ {n+1}
      /\ D \in SUBSET D /\ D \in SUBSET E /\ E \in SUBSET E
  <2>1. s + 1 \in Int /\ n \in Int /\ n + 1 \in Int
    OBVIOUS
  <2>2. IsFiniteSet(D) /\ IsFiniteSet(E)
    BY <2>1, FS_Interval
  <2> QED
    BY <2>2
<1>2. \A i \in E : g[i] \in Int
  BY <1>1
<1> HIDE DEF D, E
<1>3. SumFunctionOnSet(g, E) = g[n+1] + SumFunctionOnSet(g, D)
  BY <1>1, <1>2, SumWithout
<1>4. SumFunctionOnSet(f, D) = SumFunctionOnSet(g, D)
  BY <1>1, SumSame DEF D
<1>5. SumFunctionOnSet(f, D) \in Int
  BY <1>1, SumType DEF D
<1>6. SumFunction(f) = SumFunctionOnSet(f, D) /\ SumFunction(g) = SumFunctionOnSet(g, E)
  BY DEF SumFunction, D, E
<1> QED
  BY <1>3, <1>4, <1>5, <1>6

\* No term.
LEMMA NoTerm ==
  ASSUME NEW f, DOMAIN f = {}
  PROVE  SumFunction(f) = 0
<1>1. IsFiniteSet({}) /\ {} \in SUBSET {}
  BY FS_EmptySet
<1>2. SumFunctionOnSet(f, {}) = 0
  BY <1>1, SumIs
<1> QED
  BY <1>2 DEF SumFunction
-----------------------------------------------------------------------------
\* An UPDATE of one row leaves the other rows, and their number, as they are.
LEMMA OneReplaced ==
  ASSUME NEW S, NEW s \in Seq(S), NEW i, NEW d \in S
  PROVE  /\ [s EXCEPT ![i] = d] \in Seq(S)
         /\ Len([s EXCEPT ![i] = d]) = Len(s)
         /\ DOMAIN [s EXCEPT ![i] = d] = DOMAIN s
         /\ i \in DOMAIN s => [s EXCEPT ![i] = d][i] = d
         /\ \A j \in DOMAIN s \ {i} : [s EXCEPT ![i] = d][j] = s[j]
<1> DEFINE r == [s EXCEPT ![i] = d]
<1>1. Len(s) \in Nat /\ s \in [1..Len(s) -> S]
  OBVIOUS
<1>2. /\ r \in [1..Len(s) -> S]
      /\ i \in DOMAIN s => r[i] = d
      /\ \A j \in DOMAIN s \ {i} : r[j] = s[j]
  BY <1>1
<1> HIDE DEF r
<1>3. r \in Seq(S) /\ Len(r) = Len(s) /\ DOMAIN r = DOMAIN s
  BY <1>1, <1>2
<1> QED
  BY <1>2, <1>3 DEF r

\* An UPDATE of one row followed by an INSERT.
LEMMA ReplacedThenAppended ==
  ASSUME NEW S, NEW s \in Seq(S), NEW i \in DOMAIN s, NEW d \in S, NEW e, NEW r, NEW t,
         r = [s EXCEPT ![i] = d], t = Append(r, e)
  PROVE  /\ r \in Seq(S) /\ Len(r) = Len(s) /\ r[i] = d
         /\ \A j \in DOMAIN s \ {i} : r[j] = s[j]
         /\ DOMAIN t = 1..Len(s)+1 /\ t[Len(s)+1] = e
         /\ \A j \in DOMAIN s : t[j] = r[j]
<1>1. /\ r \in Seq(S) /\ Len(r) = Len(s) /\ DOMAIN r = DOMAIN s /\ r[i] = d
      /\ \A j \in DOMAIN s \ {i} : r[j] = s[j]
  BY OneReplaced
<1>2. DOMAIN t = 1..Len(r)+1 /\ t[Len(r)+1] = e /\ \A j \in DOMAIN r : t[j] = r[j]
  <2>1. Len(r) \in Nat /\ DOMAIN r = 1..Len(r)
    BY <1>1
  <2> QED
    BY <1>1, <2>1
<1> QED
  BY <1>1, <1>2
=============================================================================
