-------------------------------- MODULE Sums --------------------------------
(***************************************************************************)
(* Induction over the naturals and over finite sets, stated with a set in  *)
(* the place of a predicate, and what follows from it for the sums that    *)
(* the models form over backends and over requests.                        *)
(***************************************************************************)
EXTENDS Functions, FiniteSetTheorems, TLAPS

\* Induction: a set that holds 0 and is closed under successor holds Nat.
LEMMA NatInductive ==
  ASSUME NEW S, 0 \in S, \A n \in Nat : n \in S => n + 1 \in S
  PROVE  \A n \in Nat : n \in S
<1> SUFFICES ASSUME Nat \ S # {} PROVE FALSE OBVIOUS
<1> DEFINE T == Nat \ S
<1>1. T # {} /\ T \subseteq Nat OBVIOUS
<1>2. PICK x \in T : \A y \in T : ~ (<<y, x>> \in OpToRel(<, Nat))
  <2> HIDE DEF T
  <2> QED BY <1>1, WFMin, NatLessThanWellFounded
<1>3. \A y \in T : ~ (y < x) BY <1>1, <1>2 DEF OpToRel
<1>4. x # 0 /\ x \in Nat /\ x \notin S OBVIOUS
<1>5. x - 1 \in Nat BY <1>4
<1>6. x - 1 \notin T BY <1>3, <1>5, <1>4
<1>7. x - 1 \in S BY <1>6, <1>5
<1> QED BY <1>7, <1>5, <1>4

\* Taking an element from a finite set.
LEMMA SmallerSets ==
  ASSUME NEW S, IsFiniteSet(S), NEW s \in SUBSET S
  PROVE  /\ IsFiniteSet(s) /\ Cardinality(s) \in Nat
         /\ Cardinality(s) = 0 => s = {}
         /\ \A x \in s : /\ s \ {x} \in SUBSET S
                         /\ Cardinality(s \ {x}) = Cardinality(s) - 1
<1>1. IsFiniteSet(s) BY FS_Subset
<1>2. Cardinality(s) \in Nat BY <1>1, FS_CardinalityType
<1>3. Cardinality(s) = 0 => s = {} BY <1>1, FS_EmptySet
<1>4. ASSUME NEW x \in s PROVE Cardinality(s \ {x}) = Cardinality(s) - 1
  BY <1>1, FS_RemoveElement
<1> QED BY <1>1, <1>2, <1>3, <1>4

\* Induction over finite sets: a family that holds the empty set, and a set
\* whenever it holds what is left without any one element, holds all subsets.
LEMMA FiniteInductive ==
  ASSUME NEW S, IsFiniteSet(S), NEW F, {} \in F,
         \A s \in SUBSET S : (s # {} /\ \A x \in s : s \ {x} \in F) => s \in F
  PROVE  \A s \in SUBSET S : s \in F
<1> DEFINE N == {n \in Nat : \A s \in SUBSET S : Cardinality(s) <= n => s \in F}
<1>1. 0 \in N
  <2>1. ASSUME NEW s \in SUBSET S, Cardinality(s) <= 0 PROVE s \in F
    <3>1. Cardinality(s) \in Nat /\ (Cardinality(s) = 0 => s = {}) BY SmallerSets
    <3>2. s = {} BY <2>1, <3>1
    <3> QED BY <3>2, Zenon
  <2> QED BY <2>1
<1>2. ASSUME NEW n \in Nat, n \in N PROVE n + 1 \in N
  <2>1. ASSUME NEW s \in SUBSET S, Cardinality(s) <= n + 1, s # {} PROVE s \in F
    <3>1. ASSUME NEW x \in s PROVE s \ {x} \in F
      <4>1. /\ Cardinality(s) \in Nat /\ s \ {x} \in SUBSET S
            /\ Cardinality(s \ {x}) = Cardinality(s) - 1
        BY SmallerSets
      <4> QED BY <1>2, <2>1, <4>1
    <3> QED BY <2>1, <3>1
  <2>2. \A s \in SUBSET S : Cardinality(s) <= n + 1 => s \in F BY <2>1
  <2> QED BY <2>2
<1> HIDE DEF N
<1>3. \A n \in Nat : n \in N BY <1>1, <1>2, NatInductive
<1>4. ASSUME NEW s \in SUBSET S PROVE s \in F
  <2>1. Cardinality(s) \in Nat BY SmallerSets
  <2>2. Cardinality(s) \in N BY <1>3, <2>1
  <2> QED BY <2>1, <2>2 DEF N
<1> QED BY <1>4

-----------------------------------------------------------------------------
(* The sum over a set (module Functions) obeys its recursive definition    *)

Pick(s) == CHOOSE x \in s : TRUE

LEMMA PickIn == ASSUME NEW s, s # {} PROVE Pick(s) \in s
BY DEF Pick

Term(g, f, s) == IF s = {} THEN 0 ELSE f[Pick(s)] + g[s \ {Pick(s)}]

Iterates(g, f, S) == g = [s \in SUBSET S |-> Term(g, f, s)]

LEMMA SumIsIterate ==
  ASSUME NEW f, NEW S
  PROVE  SumFunctionOnSet(f, S) = (CHOOSE g : Iterates(g, f, S))[S]
BY DEF SumFunctionOnSet, FoldFunctionOnSet, MapThenFoldSet, Iterates, Term, Pick

\* A function that obeys the definition on all sets of up to n elements.
Upto(S, n) == {s \in SUBSET S : Cardinality(s) <= n}

Partial(g, f, S, n) == g = [s \in Upto(S, n) |-> Term(g, f, s)]

LEMMA PartialExists ==
  ASSUME NEW f, NEW S, IsFiniteSet(S)
  PROVE  \A n \in Nat : \E g : Partial(g, f, S, n)
<1> DEFINE G == {n \in Nat : \E g : Partial(g, f, S, n)}
<1>1. 0 \in G
  <2> DEFINE z == [s \in Upto(S, 0) |-> 0]
  <2>1. ASSUME NEW s \in Upto(S, 0) PROVE s = {}
    <3>1. s \in SUBSET S /\ Cardinality(s) <= 0 BY DEF Upto
    <3>2. Cardinality(s) \in Nat /\ (Cardinality(s) = 0 => s = {}) BY <3>1, SmallerSets
    <3> QED BY <3>1, <3>2
  <2>2. Partial(z, f, S, 0) BY <2>1 DEF Partial, Term
  <2> QED BY <2>2
<1>2. ASSUME NEW n \in Nat, n \in G PROVE n + 1 \in G
  <2>1. PICK g : Partial(g, f, S, n) BY <1>2
  <2> DEFINE h == [s \in Upto(S, n + 1) |-> Term(g, f, s)]
  <2>2. ASSUME NEW s \in Upto(S, n) PROVE h[s] = g[s] /\ s \in Upto(S, n + 1)
    <3>1. Cardinality(s) \in Nat BY SmallerSets DEF Upto
    <3>2. s \in Upto(S, n + 1) BY <3>1 DEF Upto
    <3> QED BY <3>2, <2>1 DEF Partial
  <2>3. ASSUME NEW s \in Upto(S, n + 1), s # {} PROVE s \ {Pick(s)} \in Upto(S, n)
    <3>1. s \in SUBSET S /\ Cardinality(s) <= n + 1 /\ Pick(s) \in s
      BY <2>3, PickIn DEF Upto
    <3>2. /\ Cardinality(s) \in Nat
          /\ s \ {Pick(s)} \in SUBSET S
          /\ Cardinality(s \ {Pick(s)}) = Cardinality(s) - 1
      BY <3>1, SmallerSets
    <3> QED BY <3>1, <3>2 DEF Upto
  <2>4. Partial(h, f, S, n + 1)
    <3>1. \A s \in Upto(S, n + 1) : s # {} => h[s \ {Pick(s)}] = g[s \ {Pick(s)}]
      BY <2>2, <2>3
    <3> QED BY <3>1 DEF Partial, Term
  <2> HIDE DEF h
  <2> QED BY <2>4
<1> HIDE DEF G
<1>3. \A n \in Nat : n \in G BY <1>1, <1>2, NatInductive
<1> QED BY <1>3 DEF G

LEMMA IterateExists ==
  ASSUME NEW f, NEW S, IsFiniteSet(S)
  PROVE  \E g : Iterates(g, f, S) /\ SumFunctionOnSet(f, S) = g[S]
<1>1. Cardinality(S) \in Nat BY FS_CardinalityType
<1>2. PICK g : Partial(g, f, S, Cardinality(S)) BY <1>1, PartialExists
<1>3. Upto(S, Cardinality(S)) = SUBSET S BY FS_Subset DEF Upto
<1>4. Iterates(g, f, S) BY <1>2, <1>3 DEF Partial, Iterates
<1>5. Iterates(CHOOSE h : Iterates(h, f, S), f, S) BY <1>4
<1> QED BY <1>5, SumIsIterate

\* Two of these functions agree where both are defined.
LEMMA IteratesAgree ==
  ASSUME NEW f, NEW S, IsFiniteSet(S), NEW U \in SUBSET S,
         NEW g, Iterates(g, f, S), NEW h, Iterates(h, f, U)
  PROVE  g[U] = h[U]
<1> DEFINE F == {s \in SUBSET U : g[s] = h[s]}
<1>1. \A s \in SUBSET U : g[s] = Term(g, f, s) /\ h[s] = Term(h, f, s)
  BY DEF Iterates
<1>2. {} \in F BY <1>1 DEF Term
<1>3. ASSUME NEW s \in SUBSET U, s # {}, \A x \in s : s \ {x} \in F PROVE s \in F
  <2>1. g[s \ {Pick(s)}] = h[s \ {Pick(s)}] BY <1>3, PickIn
  <2> QED BY <1>1, <1>3, <2>1 DEF Term
<1> HIDE DEF F
<1>4. IsFiniteSet(U) BY FS_Subset
<1>5. U \in F BY <1>2, <1>3, <1>4, FiniteInductive
<1> QED BY <1>5 DEF F

LEMMA SumEmpty == ASSUME NEW f PROVE SumFunctionOnSet(f, {}) = 0
<1>1. PICK g : Iterates(g, f, {}) /\ SumFunctionOnSet(f, {}) = g[{}]
  BY FS_EmptySet, IterateExists
<1> QED BY <1>1 DEF Iterates, Term

LEMMA SumRecursive ==
  ASSUME NEW f, NEW S, IsFiniteSet(S), S # {}
  PROVE  SumFunctionOnSet(f, S) = f[Pick(S)] + SumFunctionOnSet(f, S \ {Pick(S)})
<1> DEFINE U == S \ {Pick(S)}
<1>1. U \in SUBSET S /\ IsFiniteSet(U) BY FS_Subset
<1>2. PICK g : Iterates(g, f, S) /\ SumFunctionOnSet(f, S) = g[S] BY IterateExists
<1>3. PICK h : Iterates(h, f, U) /\ SumFunctionOnSet(f, U) = h[U]
  <2> HIDE DEF U
  <2> QED BY <1>1, IterateExists
<1>4. g[U] = h[U]
  <2> HIDE DEF U
  <2> QED BY <1>1, <1>2, <1>3, IteratesAgree
<1>5. g[S] = f[Pick(S)] + g[U] BY <1>2 DEF Iterates, Term
<1> QED BY <1>2, <1>3, <1>4, <1>5

-----------------------------------------------------------------------------
(* Sums of integers                                                        *)

LEMMA SumType ==
  ASSUME NEW D, NEW f \in [D -> Int], NEW S \in SUBSET D, IsFiniteSet(S)
  PROVE  SumFunctionOnSet(f, S) \in Int
<1> DEFINE F == {s \in SUBSET S : SumFunctionOnSet(f, s) \in Int}
<1>1. {} \in F BY SumEmpty
<1>2. ASSUME NEW s \in SUBSET S, s # {}, \A x \in s : s \ {x} \in F PROVE s \in F
  <2>1. Pick(s) \in s /\ f[Pick(s)] \in Int BY <1>2, PickIn
  <2>2. SumFunctionOnSet(f, s \ {Pick(s)}) \in Int BY <1>2, <2>1
  <2>3. IsFiniteSet(s) BY FS_Subset
  <2>4. SumFunctionOnSet(f, s) = f[Pick(s)] + SumFunctionOnSet(f, s \ {Pick(s)})
    BY <1>2, <2>3, SumRecursive
  <2> QED BY <2>1, <2>2, <2>4
<1> HIDE DEF F
<1>3. S \in F BY <1>1, <1>2, FiniteInductive
<1> QED BY <1>3 DEF F

\* Any element may be taken first.
LEMMA SumWithout ==
  ASSUME NEW D, NEW f \in [D -> Int], NEW S \in SUBSET D, IsFiniteSet(S)
  PROVE  \A x \in S : SumFunctionOnSet(f, S) = f[x] + SumFunctionOnSet(f, S \ {x})
<1> DEFINE Sum(s) == SumFunctionOnSet(f, s)
           F == {s \in SUBSET S : \A x \in s : Sum(s) = f[x] + Sum(s \ {x})}
<1>1. {} \in F OBVIOUS
<1>2. ASSUME NEW s \in SUBSET S, s # {}, \A x \in s : s \ {x} \in F,
             NEW x \in s
      PROVE  Sum(s) = f[x] + Sum(s \ {x})
  <2> DEFINE c == Pick(s)
             t == (s \ {c}) \ {x}
  <2>1. c \in s BY <1>2, PickIn
  <2>2. \A u \in SUBSET s : IsFiniteSet(u) /\ Sum(u) \in Int BY SumType, FS_Subset
  <2>3. Sum(s) = f[c] + Sum(s \ {c}) BY <1>2, <2>2, SumRecursive
  <2>4. CASE c = x BY <2>3, <2>4
  <2>5. CASE c # x
    <3>1. Sum(s \ {c}) = f[x] + Sum(t) BY <1>2, <2>1, <2>5
    <3>2. (s \ {x}) \ {c} = t OBVIOUS
    <3>3. Sum(s \ {x}) = f[c] + Sum(t)
      <4>1. Sum(s \ {x}) = f[c] + Sum((s \ {x}) \ {c}) BY <1>2, <2>1, <2>5
      <4> QED BY <3>2, <4>1
    <3>4. f[x] \in Int /\ f[c] \in Int /\ Sum(t) \in Int BY <2>1, <2>2
    <3> HIDE DEF t, c, Sum
    <3> QED BY <2>3, <3>1, <3>3, <3>4
  <2> QED BY <2>4, <2>5
<1>3. S \in F
  <2>1. \A s \in SUBSET S : (s # {} /\ \A x \in s : s \ {x} \in F) => s \in F BY <1>2
  <2> HIDE DEF F
  <2> QED BY <1>1, <2>1, FiniteInductive
<1> QED BY <1>3

\* The same for a part of a finite set.
LEMMA PartWithout ==
  ASSUME NEW D, NEW f \in [D -> Int], NEW S \in SUBSET D, IsFiniteSet(S),
         NEW s \in SUBSET S, NEW x \in s
  PROVE  /\ SumFunctionOnSet(f, s) = f[x] + SumFunctionOnSet(f, s \ {x})
         /\ SumFunctionOnSet(f, s \ {x}) \in Int /\ f[x] \in Int
<1>1. /\ IsFiniteSet(s) /\ IsFiniteSet(s \ {x})
      /\ s \in SUBSET D /\ s \ {x} \in SUBSET D
  BY FS_Subset
<1>2. SumFunctionOnSet(f, s \ {x}) \in Int BY <1>1, SumType
<1>3. SumFunctionOnSet(f, s) = f[x] + SumFunctionOnSet(f, s \ {x})
  BY <1>1, SumWithout
<1> QED BY <1>1, <1>2, <1>3

LEMMA SumWith ==
  ASSUME NEW D, NEW f \in [D -> Int], NEW S \in SUBSET D, IsFiniteSet(S),
         NEW x \in D \ S
  PROVE  SumFunctionOnSet(f, S \union {x}) = SumFunctionOnSet(f, S) + f[x]
<1> DEFINE T == S \union {x}
<1>1. T \in SUBSET D /\ IsFiniteSet(T) /\ x \in T /\ T \ {x} = S
  BY FS_AddElement
<1>2. SumFunctionOnSet(f, S) \in Int BY SumType
<1>3. f[x] \in Int OBVIOUS
<1> HIDE DEF T
<1>4. SumFunctionOnSet(f, T) = f[x] + SumFunctionOnSet(f, S) BY <1>1, SumWithout
<1>5. SumFunctionOnSet(f, T) = SumFunctionOnSet(f, S) + f[x] BY <1>2, <1>3, <1>4
<1> QED BY <1>5 DEF T

LEMMA SumOfOne ==
  ASSUME NEW D, NEW f \in [D -> Int], NEW x \in D
  PROVE  SumFunctionOnSet(f, {x}) = f[x]
<1>1. {} \in SUBSET D /\ IsFiniteSet({}) /\ x \in D \ {} BY FS_EmptySet
<1>2. SumFunctionOnSet(f, {} \union {x}) = SumFunctionOnSet(f, {}) + f[x] BY <1>1, SumWith
<1>3. {} \union {x} = {x} /\ f[x] \in Int OBVIOUS
<1> QED BY <1>2, <1>3, SumEmpty

\* A sum is what two sums add up to if every term is.
LEMMA SumOfSums ==
  ASSUME NEW D, NEW f \in [D -> Int], NEW g \in [D -> Int], NEW h \in [D -> Int],
         NEW S \in SUBSET D, IsFiniteSet(S), \A x \in S : f[x] = g[x] + h[x]
  PROVE  SumFunctionOnSet(f, S) = SumFunctionOnSet(g, S) + SumFunctionOnSet(h, S)
<1> DEFINE F == {s \in SUBSET S : SumFunctionOnSet(f, s)
                   = SumFunctionOnSet(g, s) + SumFunctionOnSet(h, s)}
<1>1. {} \in F BY SumEmpty
<1>2. ASSUME NEW s \in SUBSET S, s # {}, \A x \in s : s \ {x} \in F PROVE s \in F
  <2>1. PICK x : x \in s BY <1>2
  <2>2. /\ SumFunctionOnSet(f, s) = f[x] + SumFunctionOnSet(f, s \ {x})
        /\ f[x] = g[x] + h[x]
    BY <2>1, PartWithout
  <2>3. /\ SumFunctionOnSet(g, s) = g[x] + SumFunctionOnSet(g, s \ {x})
        /\ SumFunctionOnSet(g, s \ {x}) \in Int /\ g[x] \in Int
    BY <2>1, PartWithout
  <2>4. /\ SumFunctionOnSet(h, s) = h[x] + SumFunctionOnSet(h, s \ {x})
        /\ SumFunctionOnSet(h, s \ {x}) \in Int /\ h[x] \in Int
    BY <2>1, PartWithout
  <2>5. SumFunctionOnSet(f, s \ {x})
          = SumFunctionOnSet(g, s \ {x}) + SumFunctionOnSet(h, s \ {x})
    BY <1>2, <2>1
  <2>6. SumFunctionOnSet(f, s) = SumFunctionOnSet(g, s) + SumFunctionOnSet(h, s)
    BY <2>2, <2>3, <2>4, <2>5
  <2> QED BY <2>6
<1> HIDE DEF F
<1>3. S \in F BY <1>1, <1>2, FiniteInductive
<1> QED BY <1>3 DEF F

LEMMA DoubleIsZero == ASSUME NEW n \in Int, n = n + n PROVE n = 0 OBVIOUS

\* Nothing adds up to nothing.
LEMMA SumOfZeros ==
  ASSUME NEW D, NEW f \in [D -> Int], NEW S \in SUBSET D, IsFiniteSet(S),
         \A x \in S : f[x] = 0
  PROVE  SumFunctionOnSet(f, S) = 0
<1> DEFINE n == SumFunctionOnSet(f, S)
<1>1. n \in Int BY SumType
<1>2. \A x \in S : f[x] = f[x] + f[x] OBVIOUS
<1>3. n = n + n BY <1>2, SumOfSums
<1> HIDE DEF n
<1>4. n = 0 BY <1>1, <1>3, DoubleIsZero
<1> QED BY <1>4 DEF n

LEMMA SumMonotone ==
  ASSUME NEW D, NEW f \in [D -> Int], NEW g \in [D -> Int],
         NEW S \in SUBSET D, IsFiniteSet(S), \A x \in S : f[x] <= g[x]
  PROVE  SumFunctionOnSet(f, S) <= SumFunctionOnSet(g, S)
<1> DEFINE F == {s \in SUBSET S : SumFunctionOnSet(f, s) <= SumFunctionOnSet(g, s)}
<1>1. {} \in F BY SumEmpty
<1>2. ASSUME NEW s \in SUBSET S, s # {}, \A x \in s : s \ {x} \in F PROVE s \in F
  <2>1. PICK x : x \in s BY <1>2
  <2>3. /\ SumFunctionOnSet(f, s) = f[x] + SumFunctionOnSet(f, s \ {x})
        /\ SumFunctionOnSet(f, s \ {x}) \in Int /\ f[x] \in Int /\ f[x] <= g[x]
    BY <2>1, PartWithout
  <2>4. /\ SumFunctionOnSet(g, s) = g[x] + SumFunctionOnSet(g, s \ {x})
        /\ SumFunctionOnSet(g, s \ {x}) \in Int /\ g[x] \in Int
    BY <2>1, PartWithout
  <2>5. SumFunctionOnSet(f, s \ {x}) <= SumFunctionOnSet(g, s \ {x}) BY <1>2, <2>1
  <2>6. SumFunctionOnSet(f, s) <= SumFunctionOnSet(g, s) BY <2>3, <2>4, <2>5
  <2> QED BY <2>6
<1> HIDE DEF F
<1>3. S \in F BY <1>1, <1>2, FiniteInductive
<1> QED BY <1>3 DEF F

LEMMA SumEqual ==
  ASSUME NEW D, NEW f \in [D -> Int], NEW g \in [D -> Int],
         NEW S \in SUBSET D, IsFiniteSet(S), \A x \in S : f[x] = g[x]
  PROVE  SumFunctionOnSet(f, S) = SumFunctionOnSet(g, S)
<1>1. /\ SumFunctionOnSet(f, S) \in Int /\ SumFunctionOnSet(g, S) \in Int
      /\ SumFunctionOnSet(f, S) <= SumFunctionOnSet(g, S)
  BY SumType, SumMonotone
<1>2. SumFunctionOnSet(g, S) <= SumFunctionOnSet(f, S)
  <2>1. \A x \in S : g[x] <= f[x] OBVIOUS
  <2> QED BY <2>1, SumMonotone
<1> QED BY <1>1, <1>2

\* A sum of n terms of at most k is at most n times k.
LEMMA SumAtMost ==
  ASSUME NEW D, NEW f \in [D -> Int], NEW k \in Int,
         NEW S \in SUBSET D, IsFiniteSet(S), \A x \in S : f[x] <= k
  PROVE  SumFunctionOnSet(f, S) <= Cardinality(S) * k
<1> DEFINE F == {s \in SUBSET S : SumFunctionOnSet(f, s) <= Cardinality(s) * k}
<1>1. {} \in F BY SumEmpty, FS_EmptySet
<1>2. ASSUME NEW s \in SUBSET S, s # {}, \A x \in s : s \ {x} \in F PROVE s \in F
  <2>1. PICK x : x \in s BY <1>2
  <2> DEFINE n == Cardinality(s \ {x})
             m == SumFunctionOnSet(f, s \ {x})
  <2>2. IsFiniteSet(s) /\ IsFiniteSet(s \ {x}) BY FS_Subset
  <2>3. SumFunctionOnSet(f, s) = f[x] + m BY <2>1, PartWithout
  <2>4. n \in Nat /\ Cardinality(s) = n + 1
    <3>1. /\ Cardinality(s) \in Nat /\ Cardinality(s \ {x}) \in Nat
          /\ Cardinality(s \ {x}) = Cardinality(s) - 1
      BY <2>1, <2>2, FS_CardinalityType, FS_RemoveElement
    <3> QED BY <3>1
  <2>5. m \in Int /\ f[x] \in Int /\ f[x] <= k BY <2>1, PartWithout
  <2>6. m <= n * k BY <1>2, <2>1
  <2> HIDE DEF n, m
  <2>7. (n + 1) * k = n * k + k /\ n * k \in Int BY <2>4
  <2>8. SumFunctionOnSet(f, s) <= Cardinality(s) * k
    BY <2>3, <2>4, <2>5, <2>6, <2>7
  <2> QED BY <2>8
<1> HIDE DEF F
<1>3. S \in F BY <1>1, <1>2, FiniteInductive
<1> QED BY <1>3 DEF F

\* Terms that are not negative: a part is not more than the whole, and one
\* term is not more than the sum.
LEMMA SumOfNaturals ==
  ASSUME NEW D, NEW f \in [D -> Int], NEW S \in SUBSET D, IsFiniteSet(S),
         \A x \in S : f[x] >= 0
  PROVE  SumFunctionOnSet(f, S) \in Nat
<1> DEFINE z == [x \in D |-> 0]
<1>1. z \in [D -> Int] /\ \A x \in S : z[x] <= 0 /\ z[x] <= f[x] /\ z[x] = z[x] + z[x]
  OBVIOUS
<1> HIDE DEF z
<1>2. SumFunctionOnSet(f, S) \in Int /\ SumFunctionOnSet(z, S) \in Int BY <1>1, SumType
<1>3. SumFunctionOnSet(z, S) = SumFunctionOnSet(z, S) + SumFunctionOnSet(z, S)
  BY <1>1, SumOfSums
<1>4. SumFunctionOnSet(z, S) <= SumFunctionOnSet(f, S) BY <1>1, SumMonotone
<1> QED BY <1>2, <1>3, <1>4

LEMMA SumOfPart ==
  ASSUME NEW D, NEW f \in [D -> Int], NEW S \in SUBSET D, IsFiniteSet(S),
         \A x \in S : f[x] >= 0, NEW T \in SUBSET S
  PROVE  SumFunctionOnSet(f, T) <= SumFunctionOnSet(f, S)
<1> DEFINE g == [x \in D |-> IF x \in T THEN f[x] ELSE 0]
           F == {s \in SUBSET S : SumFunctionOnSet(g, s) = SumFunctionOnSet(f, s \cap T)}
<1>1. g \in [D -> Int] /\ (\A x \in S : g[x] <= f[x] /\ (x \notin T => g[x] = 0))
      /\ (\A x \in T : g[x] = f[x])
  OBVIOUS
<1> HIDE DEF g
<1>2. {} \in F
  <2>1. {} \cap T = {} OBVIOUS
  <2> QED BY <2>1, SumEmpty
<1>3. ASSUME NEW s \in SUBSET S, s # {}, \A x \in s : s \ {x} \in F PROVE s \in F
  <2>1. PICK x : x \in s BY <1>3
  <2>2. IsFiniteSet(s) /\ IsFiniteSet(s \ {x}) /\ IsFiniteSet(s \cap T) BY FS_Subset
  <2>3. SumFunctionOnSet(g, s) = g[x] + SumFunctionOnSet(g, s \ {x})
    BY <1>1, <2>1, PartWithout
  <2>4. SumFunctionOnSet(g, s \ {x}) = SumFunctionOnSet(f, (s \ {x}) \cap T) BY <1>3, <2>1
  <2>5. CASE x \in T
    <3>1. (s \ {x}) \cap T = (s \cap T) \ {x} OBVIOUS
    <3>2. SumFunctionOnSet(f, s \cap T) = f[x] + SumFunctionOnSet(f, (s \cap T) \ {x})
      BY <2>1, <2>2, <2>5, SumWithout
    <3> QED BY <1>1, <2>3, <2>4, <2>5, <3>1, <3>2
  <2>6. CASE x \notin T
    <3>1. (s \ {x}) \cap T = s \cap T BY <2>6
    <3>2. SumFunctionOnSet(f, s \cap T) \in Int BY <2>2, SumType
    <3>3. g[x] = 0 BY <1>1, <2>1, <2>6
    <3>4. SumFunctionOnSet(g, s) = SumFunctionOnSet(f, s \cap T)
      BY <2>3, <2>4, <3>1, <3>2, <3>3
    <3> QED BY <3>4
  <2> QED BY <2>5, <2>6
<1> HIDE DEF F
<1>4. S \in F BY <1>2, <1>3, FiniteInductive
<1>5. S \cap T = T OBVIOUS
<1>6. SumFunctionOnSet(g, S) = SumFunctionOnSet(f, T) BY <1>4, <1>5 DEF F
<1>7. SumFunctionOnSet(g, S) <= SumFunctionOnSet(f, S) BY <1>1, SumMonotone
<1> QED BY <1>6, <1>7

\* What a sum gains when one term changes.
LEMMA SumChanges ==
  ASSUME NEW D, NEW f \in [D -> Int], NEW g \in [D -> Int],
         NEW S \in SUBSET D, IsFiniteSet(S), NEW x \in S,
         \A y \in S \ {x} : g[y] = f[y]
  PROVE  SumFunctionOnSet(g, S) = SumFunctionOnSet(f, S) + (g[x] - f[x])
<1>1. IsFiniteSet(S \ {x}) /\ S \ {x} \in SUBSET D BY FS_Subset
<1>2. SumFunctionOnSet(f, S \ {x}) = SumFunctionOnSet(g, S \ {x}) BY <1>1, SumEqual
<1>3. /\ SumFunctionOnSet(f, S) = f[x] + SumFunctionOnSet(f, S \ {x})
      /\ SumFunctionOnSet(g, S) = g[x] + SumFunctionOnSet(g, S \ {x})
  BY SumWithout
<1>4. SumFunctionOnSet(f, S \ {x}) \in Int /\ f[x] \in Int /\ g[x] \in Int
  BY <1>1, SumType
<1> QED BY <1>2, <1>3, <1>4
=============================================================================
