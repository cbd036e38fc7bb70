---------------------------- MODULE FiniteOrder ----------------------------
(***************************************************************************)
(* What the proofs need of finite sets that are ordered: a last element,   *)
(* a largest number, and a list of the numbers in ascending order.  Each   *)
(* is proved from a smallest set without it.                               *)
(***************************************************************************)
EXTENDS Naturals, FiniteSetTheorems, TLAPS

\* Among sets of subsets of a finite set, one that is not empty has a member
\* that is least by inclusion.
LEMMA LeastSubset ==
  ASSUME NEW S, IsFiniteSet(S), NEW B \in SUBSET SUBSET S, B # {}
  PROVE  \E T \in B : IsFiniteSet(T) /\ \A U \in SUBSET T : U # T => U \notin B
<1>1. IsWellFoundedOn(StrictSubsetOrdering(S), SUBSET S)
  BY FS_StrictSubsetOrderingWellFounded, FS_FiniteSubsetsOfFinite
<1>2. PICK T \in B : \A U \in B : <<U, T>> \notin StrictSubsetOrdering(S)
  BY <1>1, WFMin
<1>3. IsFiniteSet(T)
  BY FS_Subset
<1>4. ASSUME NEW U \in SUBSET T, U # T, U \in B PROVE FALSE
  BY <1>2, <1>4 DEF StrictSubsetOrdering
<1>5. QED
  BY <1>3, <1>4

\* A finite set that a transitive relation orders has a last element.
LEMMA HasLast ==
  ASSUME NEW S, IsFiniteSet(S), S # {}, NEW R,
         \A a, b \in S : a = b \/ <<a, b>> \in R \/ <<b, a>> \in R,
         \A a, b, c \in S : <<a, b>> \in R /\ <<b, c>> \in R => <<a, c>> \in R
  PROVE  \E last \in S : \A a \in S : a = last \/ <<a, last>> \in R
<1> DEFINE Last(T, m) == \A a \in T : a = m \/ <<a, m>> \in R
           Bad == {T \in SUBSET S : T # {} /\ \A m \in T : ~Last(T, m)}
<1>1. SUFFICES ASSUME Bad # {} PROVE FALSE
  <2>1. S \notin Bad
    BY <1>1
  <2>2. QED
    BY <2>1
<1>2. PICK T \in Bad : \A U \in SUBSET T : U # T => U \notin Bad
  <2> HIDE DEF Bad
  <2>1. Bad \in SUBSET SUBSET S
    BY DEF Bad
  <2>2. QED
    BY <1>1, <2>1, LeastSubset
<1>3. T \subseteq S /\ T # {} /\ \A m \in T : ~Last(T, m)
  OBVIOUS
<1>4. PICK e \in T : T \ {e} \notin Bad
  <2>1. PICK e : e \in T
    BY <1>3
  <2>2. T \ {e} \in SUBSET T /\ T \ {e} # T
    BY <2>1
  <2> HIDE DEF Bad
  <2>3. QED
    BY <1>2, <2>1, <2>2
<1>5. CASE T \ {e} = {}
  <2>1. T = {e}
    BY <1>5
  <2>2. Last(T, e)
    BY <2>1
  <2>3. QED
    BY <1>3, <2>2
<1>6. CASE T \ {e} # {}
  <2>1. PICK m \in T \ {e} : Last(T \ {e}, m)
    BY <1>3, <1>4, <1>6
  <2>2. CASE <<e, m>> \in R
    <3>1. Last(T, m)
      BY <2>1, <2>2
    <3>2. QED
      BY <1>3, <3>1
  <2>3. CASE <<m, e>> \in R
    <3>1. ASSUME NEW a \in T \ {e} PROVE <<a, e>> \in R
      BY <1>3, <2>1, <2>3
    <3>2. Last(T, e)
      BY <3>1
    <3>3. QED
      BY <1>3, <3>2
  <2>4. QED
    BY <1>3, <2>2, <2>3
<1>7. QED
  BY <1>5, <1>6

\* A finite set of numbers has a largest.
LEMMA HasMax ==
  ASSUME NEW S \in SUBSET Nat, IsFiniteSet(S), S # {}
  PROVE  \E m \in S : \A a \in S : a <= m
<1> DEFINE R == {p \in Nat \X Nat : p[1] <= p[2]}
<1>1. \A a, b \in Nat : <<a, b>> \in R <=> a <= b
  OBVIOUS
<1> HIDE DEF R
<1>2. ASSUME NEW a \in S, NEW b \in S PROVE a = b \/ <<a, b>> \in R \/ <<b, a>> \in R
  <2>1. a \in Nat /\ b \in Nat
    OBVIOUS
  <2>2. a <= b \/ b <= a
    BY <2>1
  <2>3. QED
    BY <1>1, <2>1, <2>2
<1>3. \A a, b, c \in S : <<a, b>> \in R /\ <<b, c>> \in R => <<a, c>> \in R
  BY <1>1
<1>4. PICK m \in S : \A a \in S : a = m \/ <<a, m>> \in R
  BY <1>2, <1>3, HasLast
<1>5. ASSUME NEW a \in S PROVE a <= m
  <2>1. a \in Nat /\ m \in Nat
    OBVIOUS
  <2>2. a = m \/ a <= m
    BY <1>1, <1>4, <2>1
  <2>3. QED
    BY <2>1, <2>2
<1>6. QED
  BY <1>5

\* The numbers of a finite set can be listed in ascending order.
LEMMA HasSorted ==
  ASSUME NEW S \in SUBSET Nat, IsFiniteSet(S)
  PROVE  \E f \in [1..Cardinality(S) -> S] :
           /\ \A x \in S : \E i \in 1..Cardinality(S) : f[i] = x
           /\ \A i, j \in 1..Cardinality(S) : i < j => f[i] < f[j]
<1> DEFINE Lists(T, f) == /\ \A x \in T : \E i \in 1..Cardinality(T) : f[i] = x
                          /\ \A i, j \in 1..Cardinality(T) : i < j => f[i] < f[j]
           Bad == {T \in SUBSET S : \A f \in [1..Cardinality(T) -> T] : ~Lists(T, f)}
<1>1. SUFFICES ASSUME Bad # {} PROVE FALSE
  <2>1. S \notin Bad
    BY <1>1
  <2>2. QED
    BY <2>1
<1>2. PICK T \in Bad : IsFiniteSet(T) /\ \A U \in SUBSET T : U # T => U \notin Bad
  <2> HIDE DEF Bad
  <2>1. Bad \in SUBSET SUBSET S
    BY DEF Bad
  <2>2. QED
    BY <1>1, <2>1, LeastSubset
<1>3. CASE T = {}
  <2>1. Cardinality(T) = 0
    BY <1>3, FS_EmptySet
  <2>2. PICK f : f = [i \in 1..Cardinality(T) |-> 0]
    OBVIOUS
  <2>3. f \in [1..Cardinality(T) -> T] /\ Lists(T, f)
    BY <1>3, <2>1, <2>2
  <2>4. QED
    BY <2>3
<1>4. CASE T # {}
  <2>1. PICK m \in T : \A a \in T : a <= m
    BY <1>2, <1>4, HasMax
  <2> DEFINE U == T \ {m}
             n == Cardinality(U)
  <2>2. IsFiniteSet(U) /\ n \in Nat /\ Cardinality(T) = n + 1
    <3>1. IsFiniteSet(U) /\ n = Cardinality(T) - 1
      BY <1>2, FS_RemoveElement
    <3>2. n \in Nat /\ Cardinality(T) \in Nat
      BY <1>2, <3>1, FS_CardinalityType
    <3>3. QED
      BY <3>1, <3>2
  <2>3. PICK f \in [1..n -> U] : Lists(U, f)
    BY <1>2
  <2>4. PICK g : g = [i \in 1..(n + 1) |-> IF i = n + 1 THEN m ELSE f[i]]
    OBVIOUS
  <2> HIDE DEF n
  <2>5. (\A i \in 1..n : g[i] = f[i] /\ f[i] \in U) /\ g[n + 1] = m
    BY <2>2, <2>3, <2>4
  <2>6. \A i \in 1..(n + 1) : i = n + 1 \/ i \in 1..n
    BY <2>2
  <2>7. g \in [1..(n + 1) -> T]
    <3>1. \A i \in 1..(n + 1) : g[i] \in T
      BY <2>5, <2>6
    <3>2. QED
      BY <2>4, <3>1
  <2>8. \A x \in T : \E i \in 1..(n + 1) : g[i] = x
    <3>1. \A x \in U : \E i \in 1..n : f[i] = x
      BY <2>3 DEF n
    <3>2. n + 1 \in 1..(n + 1) /\ 1..n \subseteq 1..(n + 1)
      BY <2>2
    <3>3. QED
      BY <2>5, <3>1, <3>2
  <2>9. ASSUME NEW i \in 1..(n + 1), NEW j \in 1..(n + 1), i < j PROVE g[i] < g[j]
    <3>1. i \in 1..n
      BY <2>2, <2>9
    <3>2. CASE j = n + 1
      <4>1. g[i] \in U /\ g[j] = m
        BY <2>5, <3>1, <3>2
      <4>2. g[i] \in Nat /\ m \in Nat /\ g[i] <= m /\ g[i] # m
        BY <2>1, <4>1
      <4>3. QED
        BY <4>1, <4>2
    <3>3. CASE j \in 1..n
      <4>1. f[i] < f[j]
        BY <2>3, <2>9, <3>1, <3>3 DEF n
      <4>2. QED
        BY <2>5, <3>1, <3>3, <4>1
    <3>4. QED
      BY <2>6, <3>2, <3>3
  <2>10. g \in [1..Cardinality(T) -> T] /\ Lists(T, g)
    BY <2>2, <2>7, <2>8, <2>9
  <2>11. QED
    BY <2>10
<1>5. QED
  BY <1>3, <1>4
=============================================================================
