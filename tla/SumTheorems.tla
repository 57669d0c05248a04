---------------------------- MODULE SumTheorems ----------------------------
(***************************************************************************)
(* Induction for the proofs of this directory, and what it gives about     *)
(* SumFunctionOnSet of the community module Functions.                     *)
(*                                                                         *)
(* The provers cannot instantiate an induction theorem that takes a        *)
(* predicate.  Here the predicate is a set: a set of naturals has a least  *)
(* element (WFMin), and so a set that contains 0 and is closed under       *)
(* successor contains every natural.                                       *)
(***************************************************************************)
EXTENDS Integers, FiniteSets, Functions, WellFoundedInduction,
        FiniteSetTheorems, TLAPS

(* A set of naturals has a least element.                                  *)
LEMMA LeastNat ==
    ASSUME NEW T, T \subseteq Nat, T # {}
    PROVE  \E n \in T : \A m \in T : n <= m
<1>1. PICK n \in T : \A m \in T : ~ (<<m, n>> \in OpToRel(<, Nat))
    BY NatLessThanWellFounded, WFMin, Zenon
<1>2. \A m \in T : ~ (m < n)
    BY <1>1, Zenon DEF OpToRel
<1> QED  BY <1>2

(* A non-empty set of naturals with an upper bound has a greatest one.     *)
LEMMA GreatestNat ==
    ASSUME NEW T, T # {}, NEW b \in Nat, T \subseteq 0..b
    PROVE  \E n \in T : \A m \in T : m <= n
<1> DEFINE U == {u \in Nat : \A m \in T : m <= u}
<1>1. U \subseteq Nat /\ b \in U
    OBVIOUS
<1>2. PICK u \in U : \A v \in U : u <= v
    <2> HIDE DEF U
    <2> QED  BY <1>1, LeastNat, Zenon
<1>3. u \in T
    <2> SUFFICES ASSUME u \notin T PROVE FALSE
        OBVIOUS
    <2>1. PICK x \in T : TRUE
        BY Zenon
    <2>2. x \in Nat /\ u \in Nat /\ x <= u /\ x # u
        BY <1>2, <2>1
    <2>3. u - 1 \in Nat
        BY <2>2
    <2>4. \A m \in T : m \in Nat /\ m <= u /\ m # u
        BY <1>2
    <2>5. \A m \in T : m <= u - 1
        BY <2>2, <2>4
    <2>6. u <= u - 1
        BY <1>2, <2>3, <2>5
    <2> QED  BY <2>2, <2>6
<1> QED  BY <1>2, <1>3

(* Induction over the naturals.                                            *)
LEMMA SetInduction ==
    ASSUME NEW T, 0 \in T, \A n \in Nat : n \in T => n + 1 \in T
    PROVE  Nat \subseteq T
<1> SUFFICES ASSUME Nat \ T # {} PROVE FALSE
    OBVIOUS
<1>1. PICK n \in Nat \ T : \A m \in Nat \ T : n <= m
    BY LeastNat, Zenon
<1>2. n # 0 /\ n - 1 \in Nat /\ ~(n <= n - 1) /\ n - 1 + 1 = n
    OBVIOUS
<1>3. n - 1 \in T
    BY <1>1, <1>2
<1> QED  BY <1>2, <1>3

(* A finite set is reached by removing one element after the other.        *)
LEMMA SubsetInduction ==
    ASSUME NEW S, IsFiniteSet(S), NEW T,
           \A s \in SUBSET S : (\A x \in s : s \ {x} \in T) => s \in T
    PROVE  SUBSET S \subseteq T
<1> DEFINE G == {n \in Nat : \A s \in SUBSET S : Cardinality(s) = n => s \in T}
<1>0. \A s \in SUBSET S : IsFiniteSet(s) /\ Cardinality(s) \in Nat
    BY FS_Subset, FS_CardinalityType
<1>1. 0 \in G
    <2>1. \A s \in SUBSET S : Cardinality(s) = 0 => s = {}
        BY <1>0, FS_EmptySet
    <2>2. {} \in T
        OBVIOUS
    <2> QED  BY <2>1, <2>2
<1>2. ASSUME NEW n \in Nat, n \in G PROVE n + 1 \in G
    <2> SUFFICES ASSUME NEW s \in SUBSET S, Cardinality(s) = n + 1
                 PROVE  s \in T
        OBVIOUS
    <2>1. ASSUME NEW x \in s PROVE s \ {x} \in T
        <3>1. Cardinality(s \ {x}) = Cardinality(s) - 1
            BY <1>0, FS_RemoveElement, Zenon
        <3>2. Cardinality(s \ {x}) = n
            BY <3>1
        <3> QED  BY <1>2, <3>2
    <2> QED  BY <2>1
<1>3. Nat \subseteq G
    <2> HIDE DEF G
    <2> QED  BY <1>1, <1>2, SetInduction
<1> QED  BY <1>0, <1>3

-----------------------------------------------------------------------------
(* SumFunctionOnSet as a recursive function on the subsets of S.           *)

Pick(s) == CHOOSE x \in s : TRUE

IsIter(f, S, iter) ==
    iter = [s \in SUBSET S |->
               IF s = {} THEN 0 ELSE f[Pick(s)] + iter[s \ {Pick(s)}]]

Iter(f, S) == CHOOSE iter : IsIter(f, S, iter)

(* The fold of the library is this function.                               *)
LEMMA SumIter == \A f, S : SumFunctionOnSet(f, S) = Iter(f, S)[S]
BY DEF SumFunctionOnSet, FoldFunctionOnSet, MapThenFoldSet, Iter, IsIter, Pick

LEMMA PickIn == \A s : s # {} => Pick(s) \in s
BY DEF Pick

(* The recursion has a solution: by induction on the size of the subsets   *)
(* on which it is defined.                                                 *)
LEMMA IterExists ==
    ASSUME NEW S, IsFiniteSet(S), NEW f
    PROVE  IsIter(f, S, Iter(f, S))
<1> DEFINE Upto(n) == {s \in SUBSET S : Cardinality(s) <= n}
           Body(g, s) == IF s = {} THEN 0 ELSE f[Pick(s)] + g[s \ {Pick(s)}]
           Solved(n) == \E g : g = [s \in Upto(n) |-> Body(g, s)]
           G == {n \in Nat : Solved(n)}
<1>0. \A s \in SUBSET S : IsFiniteSet(s) /\ Cardinality(s) \in Nat
    BY FS_Subset, FS_CardinalityType
<1>1. ASSUME NEW n \in Nat, NEW s \in Upto(n + 1), s # {}
      PROVE  s \ {Pick(s)} \in Upto(n)
    <2>1. Pick(s) \in s
        BY <1>1, PickIn
    <2>2. Cardinality(s \ {Pick(s)}) = Cardinality(s) - 1
        BY <1>0, <2>1, FS_RemoveElement
    <2>3. s \in SUBSET S /\ Cardinality(s) <= n + 1 /\ Cardinality(s) \in Nat
        BY <1>0
    <2>4. Cardinality(s) - 1 <= n
        BY <2>3
    <2> QED  BY <2>2, <2>3, <2>4
<1>2. Solved(0)
    <2>1. \A s \in Upto(0) : s = {}
        BY <1>0, FS_EmptySet
    <2>2. [s \in Upto(0) |-> 0]
          = [s \in Upto(0) |-> Body([t \in Upto(0) |-> 0], s)]
        BY <2>1
    <2> QED  BY <2>2, Zenon
<1>3. ASSUME NEW n \in Nat, Solved(n) PROVE Solved(n + 1)
    <2>1. PICK g : g = [s \in Upto(n) |-> Body(g, s)]
        BY <1>3, Zenon
    <2> DEFINE h == [s \in Upto(n + 1) |-> Body(g, s)]
    <2>2. Upto(n) \subseteq Upto(n + 1)
        BY <1>0
    <2>3. \A s \in Upto(n) : h[s] = g[s]
        BY <2>1, <2>2, Zenon
    <2>4. \A s \in Upto(n + 1) : Body(g, s) = Body(h, s)
        <3> HIDE DEF h, Upto
        <3> QED  BY <1>1, <2>3
    <2>5. h = [s \in Upto(n + 1) |-> Body(h, s)]
        <3> HIDE DEF Body
        <3> QED  BY <2>4
    <2> HIDE DEF h, Upto, Body
    <2> QED  BY <2>5, Zenon
<1>4. Solved(Cardinality(S))
    <2>1. 0 \in G
        BY <1>2, Zenon
    <2>2. ASSUME NEW n \in Nat, n \in G PROVE n + 1 \in G
        <3> HIDE DEF Solved
        <3> QED  BY <1>3, <2>2
    <2>3. Nat \subseteq G
        <3> HIDE DEF G
        <3> QED  BY <2>1, <2>2, SetInduction
    <2> HIDE DEF Solved
    <2> QED  BY <1>0, <2>3
<1>5. Upto(Cardinality(S)) = SUBSET S
    BY <1>0, FS_Subset
<1>6. \E g : IsIter(f, S, g)
    BY <1>4, <1>5, Zenon DEF IsIter
<1> QED  BY <1>6 DEF Iter

(* What the recursion says of each subset.                                 *)
LEMMA IterAt ==
    ASSUME NEW S, IsFiniteSet(S), NEW f
    PROVE  /\ Iter(f, S)[{}] = 0
           /\ \A s \in SUBSET S : s # {} =>
                 Iter(f, S)[s] = f[Pick(s)] + Iter(f, S)[s \ {Pick(s)}]
<1>1. IsIter(f, S, Iter(f, S))
    BY IterExists
<1> QED  BY <1>1, Zenon DEF IsIter

(* A subset has the same sum in every set around it.                       *)
LEMMA IterOfSubset ==
    ASSUME NEW S, IsFiniteSet(S), NEW f, NEW R \in SUBSET S
    PROVE  Iter(f, S)[R] = Iter(f, R)[R]
<1> DEFINE T == {s \in SUBSET R : Iter(f, S)[s] = Iter(f, R)[s]}
<1>1. IsFiniteSet(R) /\ SUBSET R \subseteq SUBSET S
    BY FS_Subset
<1>2. ASSUME NEW s \in SUBSET R, \A x \in s : s \ {x} \in T
      PROVE  s \in T
    <2>1. CASE s = {}
        BY <1>1, <2>1, IterAt
    <2>2. CASE s # {}
        <3>1. s \ {Pick(s)} \in T
            BY <1>2, <2>2, PickIn
        <3>2. Iter(f, S)[s] = f[Pick(s)] + Iter(f, S)[s \ {Pick(s)}]
            BY <1>1, <2>2, IterAt
        <3>3. Iter(f, R)[s] = f[Pick(s)] + Iter(f, R)[s \ {Pick(s)}]
            BY <1>1, <2>2, IterAt, Zenon
        <3> QED  BY <3>1, <3>2, <3>3
    <2> QED  BY <2>1, <2>2
<1>3. SUBSET R \subseteq T
    <2> HIDE DEF T
    <2> QED  BY <1>1, <1>2, SubsetInduction, Zenon
<1> QED  BY <1>3

-----------------------------------------------------------------------------

(* The sum over no element is zero.                                        *)
LEMMA SumEmpty == \A f : SumFunctionOnSet(f, {}) = 0
BY SumIter, IterAt, FS_EmptySet

(* One step of the fold.                                                   *)
LEMMA SumPick ==
    ASSUME NEW S, IsFiniteSet(S), S # {}, NEW f
    PROVE  /\ Pick(S) \in S
           /\ SumFunctionOnSet(f, S)
                = f[Pick(S)] + SumFunctionOnSet(f, S \ {Pick(S)})
<1>1. Pick(S) \in S
    BY PickIn
<1>2. Iter(f, S)[S] = f[Pick(S)] + Iter(f, S)[S \ {Pick(S)}]
    BY IterAt
<1>3. Iter(f, S)[S \ {Pick(S)}] = Iter(f, S \ {Pick(S)})[S \ {Pick(S)}]
    BY IterOfSubset
<1> QED  BY <1>1, <1>2, <1>3, SumIter

(* A sum of naturals is one.                                               *)
LEMMA SumType ==
    ASSUME NEW S, IsFiniteSet(S), NEW f, \A x \in S : f[x] \in Nat
    PROVE  SumFunctionOnSet(f, S) \in Nat
<1> DEFINE T == {s \in SUBSET S : SumFunctionOnSet(f, s) \in Nat}
<1>1. ASSUME NEW s \in SUBSET S, \A x \in s : s \ {x} \in T
      PROVE  s \in T
    <2>1. CASE s = {}
        BY <2>1, SumEmpty
    <2>2. CASE s # {}
        <3>1. IsFiniteSet(s)
            BY FS_Subset
        <3>2. /\ Pick(s) \in s
              /\ SumFunctionOnSet(f, s)
                   = f[Pick(s)] + SumFunctionOnSet(f, s \ {Pick(s)})
            BY <2>2, <3>1, SumPick, Zenon
        <3>3. SumFunctionOnSet(f, s \ {Pick(s)}) \in Nat /\ f[Pick(s)] \in Nat
            BY <1>1, <3>2
        <3> QED  BY <3>2, <3>3
    <2> QED  BY <2>1, <2>2
<1>2. SUBSET S \subseteq T
    <2> HIDE DEF T
    <2> QED  BY <1>1, SubsetInduction, Zenon
<1> QED  BY <1>2

(* The order in which the elements are taken does not matter.              *)
LEMMA SumRemove ==
    ASSUME NEW S, IsFiniteSet(S), NEW f, \A x \in S : f[x] \in Nat, NEW y \in S
    PROVE  SumFunctionOnSet(f, S) = f[y] + SumFunctionOnSet(f, S \ {y})
<1> DEFINE Sum(s) == SumFunctionOnSet(f, s)
           T == {s \in SUBSET S : \A x \in s : Sum(s) = f[x] + Sum(s \ {x})}
<1>0. \A s \in SUBSET S : IsFiniteSet(s) /\ Sum(s) \in Nat
    BY FS_Subset, SumType, Zenon
<1>1. ASSUME NEW s \in SUBSET S, \A x \in s : s \ {x} \in T
      PROVE  s \in T
    <2> SUFFICES ASSUME NEW x \in s PROVE Sum(s) = f[x] + Sum(s \ {x})
        OBVIOUS
    <2> DEFINE p == Pick(s)
    <2>1. p \in s /\ Sum(s) = f[p] + Sum(s \ {p})
        BY <1>0, SumPick, Zenon
    <2> HIDE DEF p, Sum
    <2>2. CASE x = p
        BY <2>1, <2>2
    <2>3. CASE x # p
        <3>1. Sum(s \ {p}) = f[x] + Sum((s \ {p}) \ {x})
            BY <1>1, <2>1, <2>3
        <3>2. Sum(s \ {x}) = f[p] + Sum((s \ {x}) \ {p})
            BY <1>1, <2>1, <2>3
        <3>3. (s \ {x}) \ {p} = (s \ {p}) \ {x}
            OBVIOUS
        <3>4. f[x] \in Nat /\ f[p] \in Nat /\ Sum((s \ {p}) \ {x}) \in Nat
            BY <1>0, <2>1
        <3>5. \A a, b, c \in Nat : a + (b + c) = b + (a + c)
            OBVIOUS
        <3> QED  BY <2>1, <3>1, <3>2, <3>3, <3>4, <3>5
    <2> QED  BY <2>2, <2>3
<1>2. SUBSET S \subseteq T
    <2> HIDE DEF T
    <2> QED  BY <1>1, SubsetInduction, Zenon
<1> QED  BY <1>2

(* One more element adds its value.                                        *)
LEMMA SumAdd ==
    ASSUME NEW S, IsFiniteSet(S), NEW y, y \notin S,
           NEW f, \A x \in S \union {y} : f[x] \in Nat
    PROVE  SumFunctionOnSet(f, S \union {y}) = SumFunctionOnSet(f, S) + f[y]
<1>1. IsFiniteSet(S \union {y})
    BY FS_AddElement
<1>2. (S \union {y}) \ {y} = S
    OBVIOUS
<1>3. SumFunctionOnSet(f, S \union {y}) = f[y] + SumFunctionOnSet(f, S)
    BY <1>1, <1>2, SumRemove
<1>4. SumFunctionOnSet(f, S) \in Nat /\ f[y] \in Nat
    BY SumType
<1> QED  BY <1>3, <1>4

(* Only the values on the set count.                                       *)
LEMMA SumSame ==
    ASSUME NEW S, IsFiniteSet(S), NEW f, NEW g, \A x \in S : f[x] = g[x]
    PROVE  SumFunctionOnSet(f, S) = SumFunctionOnSet(g, S)
<1> DEFINE T == {s \in SUBSET S : SumFunctionOnSet(f, s) = SumFunctionOnSet(g, s)}
<1>1. ASSUME NEW s \in SUBSET S, \A x \in s : s \ {x} \in T
      PROVE  s \in T
    <2>1. CASE s = {}
        BY <2>1, SumEmpty
    <2>2. CASE s # {}
        <3>1. IsFiniteSet(s)
            BY FS_Subset
        <3>2. /\ Pick(s) \in s
              /\ SumFunctionOnSet(f, s)
                   = f[Pick(s)] + SumFunctionOnSet(f, s \ {Pick(s)})
              /\ SumFunctionOnSet(g, s)
                   = g[Pick(s)] + SumFunctionOnSet(g, s \ {Pick(s)})
            BY <2>2, <3>1, SumPick, Zenon
        <3>3. /\ SumFunctionOnSet(f, s \ {Pick(s)})
                   = SumFunctionOnSet(g, s \ {Pick(s)})
              /\ f[Pick(s)] = g[Pick(s)]
            BY <1>1, <3>2
        <3> QED  BY <3>2, <3>3
    <2> QED  BY <2>1, <2>2
<1>2. SUBSET S \subseteq T
    <2> HIDE DEF T
    <2> QED  BY <1>1, SubsetInduction, Zenon
<1> QED  BY <1>2

(* The sum over a part and the sum over the rest.                          *)
LEMMA SumSplit ==
    ASSUME NEW S, IsFiniteSet(S), NEW f, \A x \in S : f[x] \in Nat,
           NEW R \in SUBSET S
    PROVE  SumFunctionOnSet(f, S)
             = SumFunctionOnSet(f, R) + SumFunctionOnSet(f, S \ R)
<1> DEFINE Sum(s) == SumFunctionOnSet(f, s)
           Q == S \ R
           T == {s \in SUBSET Q : Sum(R \union s) = Sum(R) + Sum(s)}
<1>0. \A s \in SUBSET S : IsFiniteSet(s) /\ Sum(s) \in Nat
    BY FS_Subset, SumType
<1>1. ASSUME NEW s \in SUBSET Q, \A x \in s : s \ {x} \in T
      PROVE  s \in T
    <2>1. CASE s = {}
        BY <1>0, <2>1, SumEmpty
    <2>2. CASE s # {}
        <3>1. PICK x : x \in s
            BY <2>2
        <3>2. /\ Sum(s) = f[x] + Sum(s \ {x})
              /\ Sum(R \union s) = f[x] + Sum((R \union s) \ {x})
            BY <1>0, <3>1, SumRemove
        <3> HIDE DEF Sum
        <3>3. (R \union s) \ {x} = R \union (s \ {x})
            BY <3>1
        <3>4. Sum(R \union (s \ {x})) = Sum(R) + Sum(s \ {x})
            BY <1>1, <3>1
        <3>5. Sum(R) \in Nat /\ Sum(s \ {x}) \in Nat /\ f[x] \in Nat
            BY <1>0, <3>1
        <3> QED  BY <3>2, <3>3, <3>4, <3>5
    <2> QED  BY <2>1, <2>2
<1>2. SUBSET Q \subseteq T
    <2>1. IsFiniteSet(Q)
        BY <1>0
    <2> HIDE DEF Q, T
    <2> QED  BY <1>1, <2>1, SubsetInduction, Zenon
<1>3. R \union (S \ R) = S
    OBVIOUS
<1> QED  BY <1>2, <1>3

(* The running totals of f up to N exist as a recursively defined function *)
(* does: each is the one before plus one more value.                       *)
LEMMA RunningTotal ==
    ASSUME NEW N \in Nat, NEW f
    PROVE  \E g : g = [n \in 0..N |-> IF n = 0 THEN 0 ELSE g[n - 1] + f[n]]
<1> DEFINE Sums(g, m) == g = [n \in 0..m |-> IF n = 0 THEN 0 ELSE g[n - 1] + f[n]]
           T == {m \in Nat : \E g : Sums(g, m)}
<1>1. 0 \in T
    <2> DEFINE g == [n \in 0..0 |-> 0]
    <2>1. Sums(g, 0)
        OBVIOUS
    <2> QED  BY <2>1, Zenon
<1>2. ASSUME NEW m \in Nat, m \in T PROVE m + 1 \in T
    <2>1. PICK g : Sums(g, m)
        BY <1>2
    <2> DEFINE h == [n \in 0..(m + 1) |-> IF n = m + 1 THEN g[m] + f[m + 1]
                                          ELSE g[n]]
    <2>2. \A n \in 0..(m + 1) : h[n] = IF n = 0 THEN 0 ELSE h[n - 1] + f[n]
        <3> SUFFICES ASSUME NEW n \in 0..(m + 1)
                     PROVE  h[n] = IF n = 0 THEN 0 ELSE h[n - 1] + f[n]
            OBVIOUS
        <3>1. CASE n = m + 1
            BY <3>1
        <3>2. CASE n \in 0..m
            <4>1. h[n] = g[n] /\ (n # 0 => h[n - 1] = g[n - 1])
                BY <3>2
            <4>2. g[n] = IF n = 0 THEN 0 ELSE g[n - 1] + f[n]
                BY <2>1, <3>2
            <4> QED  BY <4>1, <4>2
        <3> QED  BY <3>1, <3>2
    <2>3. h = [n \in 0..(m + 1) |-> h[n]]
        OBVIOUS
    <2>4. Sums(h, m + 1)
        BY <2>2, <2>3
    <2>5. m + 1 \in Nat
        OBVIOUS
    <2> HIDE DEF h, Sums
    <2> QED  BY <2>4, <2>5, Zenon
<1>3. Nat \subseteq T
    <2> HIDE DEF T
    <2> QED  BY <1>1, <1>2, SetInduction
<1> QED  BY <1>3, Zenon
=============================================================================
