----------------------------- MODULE SumProofs ------------------------------
(***************************************************************************)
(* Sums over finite sets, as MapThenSumSet of the community modules adds   *)
(* them up: one element after the other, in the order CHOOSE gives.        *)
(*                                                                         *)
(* IsSum states the recursive function in MapThenSumSet for a function g.  *)
(* That one exists, and that the order does not matter, takes an induction:*)
(* each is a minimal counterexample, which LeastNat gives.                 *)
(***************************************************************************)
EXTENDS FiniteSetTheorems, NaturalsInduction, WellFoundedInduction, TLAPS

\* A set of natural numbers has a least one.
LEMMA LeastNat ==
    ASSUME NEW T \in SUBSET Nat, T # {}
    PROVE  \E n \in T : \A i \in T : n <= i
<1>1. PICK n \in T : \A i \in T : ~(<<i, n>> \in OpToRel(<, Nat))
  BY NatLessThanWellFounded, WFMin
<1>2. \A i \in T : ~(i < n)
  BY <1>1 DEF OpToRel
<1> QED BY <1>2

-----------------------------------------------------------------------------
(* Sums *)

\* The element that MapThenSumSet takes next.
AnyOf(s) == CHOOSE x \in s : TRUE

\* f gives the sum of g over each subset of S, as MapThenSumSet adds it up.
IsSum(g, S, f) ==
    f = [s \in SUBSET S |-> IF s = {} THEN 0 ELSE g[AnyOf(s)] + f[s \ {AnyOf(s)}]]

\* A set without one of its elements.
LEMMA SmallerSet ==
    ASSUME NEW W, IsFiniteSet(W), NEW s \in SUBSET W, NEW x \in s
    PROVE  /\ Cardinality(s) \in Nat /\ Cardinality(s \ {x}) \in Nat
           /\ Cardinality(s \ {x}) = Cardinality(s) - 1
           /\ s \ {x} \in SUBSET W
<1>1. IsFiniteSet(s)
  BY FS_Subset
<1> QED BY <1>1, FS_RemoveElement, FS_CardinalityType

\* The sum over a set depends only on the values of its elements.
LEMMA SumsAgree ==
    ASSUME NEW S, NEW V, NEW W, IsFiniteSet(S), S \subseteq V, S \subseteq W,
           NEW g, NEW h, \A x \in S : g[x] = h[x],
           NEW e, NEW f, IsSum(g, V, e), IsSum(h, W, f)
    PROVE  \A s \in SUBSET S : e[s] = f[s]
<1> DEFINE Bad == {n \in Nat : \E s \in SUBSET S : Cardinality(s) = n /\ e[s] # f[s]}
<1> SUFFICES ASSUME NEW s0 \in SUBSET S, e[s0] # f[s0]
             PROVE  FALSE
  OBVIOUS
<1>1. Cardinality(s0) \in Bad
  BY FS_Subset, FS_CardinalityType
<1>2. PICK n \in Bad : \A i \in Bad : n <= i
  BY <1>1, LeastNat
<1>3. PICK s \in SUBSET S : Cardinality(s) = n /\ e[s] # f[s]
  BY <1>2
<1>4. /\ e[s] = IF s = {} THEN 0 ELSE g[AnyOf(s)] + e[s \ {AnyOf(s)}]
      /\ f[s] = IF s = {} THEN 0 ELSE h[AnyOf(s)] + f[s \ {AnyOf(s)}]
  BY DEF IsSum
<1>5. s # {}
  BY <1>3, <1>4
<1>6. AnyOf(s) \in s
  BY <1>5 DEF AnyOf
<1>7. e[s \ {AnyOf(s)}] = f[s \ {AnyOf(s)}]
  <2>1. /\ Cardinality(s \ {AnyOf(s)}) \in Nat /\ Cardinality(s \ {AnyOf(s)}) = n - 1
        /\ s \ {AnyOf(s)} \in SUBSET S /\ n \in Nat
    BY <1>3, <1>6, SmallerSet
  <2> QED BY <1>2, <2>1
<1> QED BY <1>3, <1>4, <1>5, <1>6, <1>7

\* There is such a function.
LEMMA SumExists ==
    ASSUME NEW W, IsFiniteSet(W), NEW g \in [W -> Nat]
    PROVE  \E f \in [SUBSET W -> Nat] : IsSum(g, W, f)
<1> DEFINE Sub(n) == {s \in SUBSET W : Cardinality(s) <= n}
           Good(n, f) ==
               \A s \in Sub(n) :
                   f[s] = IF s = {} THEN 0 ELSE g[AnyOf(s)] + f[s \ {AnyOf(s)}]
           Bad == {n \in Nat : ~\E f \in [Sub(n) -> Nat] : Good(n, f)}
<1>c. \A s \in SUBSET W : Cardinality(s) \in Nat /\ (Cardinality(s) = 0 <=> s = {})
  BY FS_Subset, FS_CardinalityType, FS_EmptySet
<1>p. \A s \in SUBSET W : s # {} => AnyOf(s) \in s /\ g[AnyOf(s)] \in Nat
  BY DEF AnyOf
<1>1. 0 \notin Bad
  <2> DEFINE f == [s \in Sub(0) |-> 0]
  <2>1. \A s \in Sub(0) : s = {}
    BY <1>c
  <2>2. f \in [Sub(0) -> Nat] /\ Good(0, f)
    BY <2>1
  <2> QED BY <2>2
<1>2. ASSUME NEW n \in Nat, n \notin Bad
      PROVE  n + 1 \notin Bad
  <2>1. PICK f \in [Sub(n) -> Nat] : Good(n, f)
    BY <1>2
  <2> DEFINE h == [s \in Sub(n + 1) |->
                      IF s = {} THEN 0 ELSE g[AnyOf(s)] + f[s \ {AnyOf(s)}]]
  <2>2. \A s \in Sub(n + 1) : s # {} => s \ {AnyOf(s)} \in Sub(n)
    BY <1>c, <1>p, SmallerSet
  <2>3. h \in [Sub(n + 1) -> Nat]
    BY <1>p, <2>2
  <2>4. \A s \in Sub(n) : s \in Sub(n + 1) /\ h[s] = f[s]
    BY <1>c, <2>1
  <2>5. Good(n + 1, h)
    BY <2>2, <2>4
  <2> QED BY <2>3, <2>5
<1>3. Bad = {}
  <2> SUFFICES ASSUME Bad # {} PROVE FALSE
    OBVIOUS
  <2>0. Bad \in SUBSET Nat
    OBVIOUS
  <2> HIDE DEF Bad
  <2>1. PICK n \in Bad : \A i \in Bad : n <= i
    BY <2>0, LeastNat
  <2>2. n # 0 /\ n \in Nat
    BY <1>1, <2>0
  <2>3. n - 1 \in Nat /\ n - 1 \notin Bad /\ (n - 1) + 1 = n
    BY <2>1, <2>2
  <2> QED BY <1>2, <2>3
<1>4. Cardinality(W) \in Nat /\ Sub(Cardinality(W)) = SUBSET W
  BY FS_CardinalityType, FS_Subset
<1>5. PICK f \in [SUBSET W -> Nat] : Good(Cardinality(W), f)
  BY <1>3, <1>4
<1>6. IsSum(g, W, f)
  BY <1>4, <1>5 DEF IsSum
<1> QED BY <1>6

\* In whatever order it is added up.
LEMMA SumWithout ==
    ASSUME NEW W, IsFiniteSet(W), NEW g \in [W -> Nat],
           NEW f \in [SUBSET W -> Nat], IsSum(g, W, f)
    PROVE  \A s \in SUBSET W : \A x \in s : f[s] = g[x] + f[s \ {x}]
<1> DEFINE Bad == {n \in Nat : \E s \in SUBSET W : Cardinality(s) = n
                                  /\ \E x \in s : f[s] # g[x] + f[s \ {x}]}
<1> SUFFICES ASSUME NEW s0 \in SUBSET W, NEW x0 \in s0, f[s0] # g[x0] + f[s0 \ {x0}]
             PROVE  FALSE
  OBVIOUS
<1>1. Cardinality(s0) \in Bad
  BY FS_Subset, FS_CardinalityType
<1>2. PICK n \in Bad : \A i \in Bad : n <= i
  BY <1>1, LeastNat
<1>a. PICK s \in SUBSET W : Cardinality(s) = n /\ \E x \in s : f[s] # g[x] + f[s \ {x}]
  BY <1>2
<1>3. PICK x \in s : Cardinality(s) = n /\ f[s] # g[x] + f[s \ {x}]
  BY <1>a
<1> DEFINE y == AnyOf(s)
<1>4. y \in s
  BY <1>3 DEF AnyOf
<1>5. f[s] = g[y] + f[s \ {y}]
  BY <1>3, <1>4 DEF IsSum
<1>6. y # x
  BY <1>3, <1>5
<1>b. \A u \in SUBSET W : \A z \in u :
        /\ Cardinality(u \ {z}) \in Nat /\ Cardinality(u \ {z}) = Cardinality(u) - 1
        /\ u \ {z} \in SUBSET W
  BY SmallerSet
<1>7. \A u \in SUBSET W : Cardinality(u) = n - 1 => \A z \in u : f[u] = g[z] + f[u \ {z}]
  <2> SUFFICES ASSUME NEW u \in SUBSET W, Cardinality(u) = n - 1, NEW z \in u,
                      f[u] # g[z] + f[u \ {z}]
               PROVE  FALSE
    OBVIOUS
  <2>1. n - 1 \in Nat /\ n \in Nat
    BY <1>3, <1>b
  <2>2. n - 1 \in Bad
    BY <2>1
  <2> QED BY <1>2, <2>1, <2>2
<1> HIDE DEF y, Bad
<1>8. f[s \ {y}] = g[x] + f[(s \ {y}) \ {x}]
  <2>1. Cardinality(s \ {y}) = n - 1 /\ s \ {y} \in SUBSET W /\ x \in s \ {y}
    BY <1>3, <1>4, <1>6, <1>b
  <2> QED BY <1>7, <2>1
<1>9. f[s \ {x}] = g[y] + f[(s \ {x}) \ {y}]
  <2>1. Cardinality(s \ {x}) = n - 1 /\ s \ {x} \in SUBSET W /\ y \in s \ {x}
    BY <1>3, <1>4, <1>6, <1>b
  <2> QED BY <1>7, <2>1
<1>10. (s \ {y}) \ {x} = (s \ {x}) \ {y}
  OBVIOUS
<1>11. g[x] \in Nat /\ g[y] \in Nat /\ f[(s \ {x}) \ {y}] \in Nat
  BY <1>3, <1>4
<1>12. \A a, b, c \in Nat : b + (a + c) = a + (b + c)
  OBVIOUS
<1>13. f[s] = g[y] + (g[x] + f[(s \ {x}) \ {y}])
  BY <1>5, <1>8, <1>10
<1>14. g[x] + f[s \ {x}] = g[x] + (g[y] + f[(s \ {x}) \ {y}])
  BY <1>9
<1> QED BY <1>3, <1>11, <1>12, <1>13, <1>14

\* The sum of g over S.
Total(g, S) == (CHOOSE f : IsSum(g, S, f))[S]

\* Each part of a set has a sum.
LEMMA SumRestricts ==
    ASSUME NEW W, IsFiniteSet(W), NEW g \in [W -> Nat], NEW S \in SUBSET W
    PROVE  \E f : IsSum(g, S, f)
<1> DEFINE h == [x \in S |-> g[x]]
<1>1. h \in [S -> Nat] /\ IsFiniteSet(S)
  BY FS_Subset
<1>2. PICK f \in [SUBSET S -> Nat] : IsSum(h, S, f)
  BY <1>1, SumExists
<1>3. \A s \in SUBSET S : s # {} => h[AnyOf(s)] = g[AnyOf(s)]
  BY DEF AnyOf
<1> HIDE DEF h
<1>4. IsSum(g, S, f)
  BY <1>2, <1>3 DEF IsSum
<1> QED BY <1>4

\* What the sums of the modules are: MapThenSumSet(LAMBDA x : g[x], S).
LEMMA TotalIsSum ==
    ASSUME NEW W, IsFiniteSet(W), NEW g \in [W -> Nat], NEW S \in SUBSET W
    PROVE  \E f \in [SUBSET W -> Nat] : IsSum(g, W, f) /\ Total(g, S) = f[S]
<1>1. PICK f \in [SUBSET W -> Nat] : IsSum(g, W, f)
  BY SumExists
<1>2. IsFiniteSet(S)
  BY FS_Subset
<1>3. \E e : IsSum(g, S, e)
  BY SumRestricts
<1> DEFINE e == CHOOSE e : IsSum(g, S, e)
<1>4. IsSum(g, S, e)
  BY <1>3
<1> HIDE DEF e
<1>5. e[S] = f[S]
  BY <1>1, <1>2, <1>4, SumsAgree
<1> QED BY <1>1, <1>5 DEF Total, e

\* The sum over no element.
LEMMA TotalOfNone ==
    ASSUME NEW W, IsFiniteSet(W), NEW g \in [W -> Nat]
    PROVE  Total(g, {}) = 0
<1>1. {} \in SUBSET W
  OBVIOUS
<1>2. PICK f \in [SUBSET W -> Nat] : IsSum(g, W, f) /\ Total(g, {}) = f[{}]
  BY <1>1, TotalIsSum
<1> QED BY <1>1, <1>2 DEF IsSum

\* The sum over one element more.
LEMMA TotalOfMore ==
    ASSUME NEW W, IsFiniteSet(W), NEW g \in [W -> Nat],
           NEW S \in SUBSET W, NEW x \in W \ S
    PROVE  /\ Total(g, S) \in Nat
           /\ Total(g, S \cup {x}) = Total(g, S) + g[x]
<1>1. PICK f \in [SUBSET W -> Nat] : IsSum(g, W, f) /\ Total(g, S) = f[S]
  BY TotalIsSum
<1>2. S \cup {x} \in SUBSET W
  OBVIOUS
<1> DEFINE T == S \cup {x}
<1> HIDE DEF T
<1>a. T \in SUBSET W
  BY DEF T
<1>b. PICK h \in [SUBSET W -> Nat] : IsSum(g, W, h) /\ Total(g, T) = h[T]
  BY <1>a, TotalIsSum
<1>3. IsSum(g, W, h) /\ Total(g, S \cup {x}) = h[S \cup {x}]
  BY <1>b DEF T
<1>4. h[S] = f[S]
  BY <1>1, <1>3, SumsAgree
<1>5. h[S \cup {x}] = g[x] + h[(S \cup {x}) \ {x}]
  BY <1>2, <1>3, SumWithout
<1>6. (S \cup {x}) \ {x} = S
  OBVIOUS
<1>7. f[S] \in Nat /\ g[x] \in Nat
  OBVIOUS
<1>8. Total(g, S \cup {x}) = g[x] + f[S]
  BY <1>3, <1>4, <1>5, <1>6
<1>9. \A m, n \in Nat : m + n = n + m
  OBVIOUS
<1> QED BY <1>1, <1>7, <1>8, <1>9

\* A part of a set adds up to no more than all of it.
LEMMA TotalOfPart ==
    ASSUME NEW W, IsFiniteSet(W), NEW g \in [W -> Nat], NEW S \in SUBSET W, NEW T \in SUBSET S
    PROVE  Total(g, T) \in Nat /\ Total(g, S) \in Nat /\ Total(g, T) <= Total(g, S)
<1> DEFINE More == {s \in SUBSET S : T \subseteq s /\ ~(Total(g, T) <= Total(g, s))}
           Bad == {n \in Nat : \E s \in More : Cardinality(s) = n}
<1>1. ASSUME NEW s \in SUBSET W PROVE Total(g, s) \in Nat
  <2>1. PICK f \in [SUBSET W -> Nat] : IsSum(g, W, f) /\ Total(g, s) = f[s]
    BY TotalIsSum
  <2> QED BY <2>1
<1>2. \A s \in SUBSET S : s \in SUBSET W /\ Cardinality(s) \in Nat
  BY FS_Subset, FS_CardinalityType
<1>3. Bad = {}
  <2> SUFFICES ASSUME Bad # {} PROVE FALSE
    OBVIOUS
  <2>0. Bad \in SUBSET Nat
    OBVIOUS
  <2>1. PICK n \in Bad : \A i \in Bad : n <= i
    <3> HIDE DEF Bad
    <3> QED BY <2>0, LeastNat
  <2>2. PICK s \in More : Cardinality(s) = n
    BY <2>1
  <2>3. s # T
    BY <1>1, <1>2, <2>2
  <2>4. PICK x \in s : x \notin T
    BY <2>2, <2>3
  <2> DEFINE r == s \ {x}
  <2>5. /\ r \in SUBSET S /\ T \subseteq r /\ r \cup {x} = s /\ x \in W \ r /\ r \in SUBSET W
        /\ g[x] \in Nat
    BY <2>2, <2>4
  <2>6. Cardinality(r) = n - 1 /\ Cardinality(r) \in Nat /\ n \in Nat
    BY <1>2, <2>2, <2>4, SmallerSet
  <2> HIDE DEF r
  <2>7. Total(g, T) <= Total(g, r)
    BY <2>1, <2>5, <2>6
  <2>8. Total(g, r \cup {x}) = Total(g, r) + g[x]
    BY <2>5, TotalOfMore
  <2>9. Total(g, s) = Total(g, r) + g[x]
    BY <2>5, <2>8
  <2>10. Total(g, T) \in Nat /\ Total(g, r) \in Nat
    BY <1>1, <2>5
  <2>11. Total(g, T) <= Total(g, s)
    BY <2>5, <2>7, <2>9, <2>10
  <2> QED BY <2>2, <2>11
<1>4. S \notin More
  BY <1>2, <1>3
<1> QED BY <1>1, <1>2, <1>4
=============================================================================
