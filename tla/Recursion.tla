------------------------------ MODULE Recursion ------------------------------
(***************************************************************************)
(* Induction and recursion over the natural numbers and over finite sets,  *)
(* stated of sets and functions, so that the lemmas can be applied to what *)
(* the other modules define by a recursive function or a sum.              *)
(***************************************************************************)
EXTENDS Integers, FiniteSetTheorems, TLAPS

\* A set with 0 and with the successor of each of its numbers has every number.  It follows
\* from the well-foundedness of the subset ordering: the initial segment that ends with
\* the least number left out would be minimal.
LEMMA NumbersInduction ==
    ASSUME NEW S, 0 \in S, \A n \in Nat : n \in S => n + 1 \in S
    PROVE  \A n \in Nat : n \in S
<1> SUFFICES ASSUME NEW m \in Nat, m \notin S PROVE FALSE
  OBVIOUS
<1> DEFINE missing == {n \in Nat : n \notin S}
           segments == {1 .. n : n \in missing}
           order == StrictSubsetOrdering(Nat)
<1>1. segments \subseteq FiniteSubsetsOf(Nat)
  <2> SUFFICES ASSUME NEW n \in missing PROVE 1 .. n \in FiniteSubsetsOf(Nat)
    OBVIOUS
  <2>1. IsFiniteSet(1 .. n)
    BY FS_Interval
  <2> QED
    BY <2>1 DEF FiniteSubsetsOf
<1>2. segments # {}
  OBVIOUS
<1>3. IsWellFoundedOn(order, FiniteSubsetsOf(Nat))
  BY FS_StrictSubsetOrderingWellFounded
<1>4. PICK least \in segments : \A other \in segments : <<other, least>> \notin order
  <2> HIDE DEF segments, order
  <2> QED
    BY <1>1, <1>2, <1>3, WFMin
<1>5. PICK n \in missing : least = 1 .. n
  OBVIOUS
<1>6. n # 0 /\ n - 1 \in missing
  OBVIOUS
<1>7. 1 .. (n - 1) \in segments
  BY <1>6
<1>8. <<1 .. (n - 1), least>> \in order
  <2>1. /\ 1 .. (n - 1) \subseteq least /\ least \subseteq Nat
        /\ n \in least /\ n \notin 1 .. (n - 1)
    BY <1>5, <1>6
  <2> QED
    BY <2>1 DEF StrictSubsetOrdering
<1> QED
  BY <1>4, <1>7, <1>8

-----------------------------------------------------------------------------
\* A function on 1 .. n that starts with "first" and goes on with "step", which is given
\* the index and the value before.
Iterates(g, n, first, step) ==
    \A i \in 1 .. n : g[i] = IF i = 1 THEN first ELSE step[<<i, g[i - 1]>>]

\* There is such a function, whatever the length.
LEMMA IterationExists ==
    ASSUME NEW V, NEW first \in V, NEW step \in [Nat \X V -> V]
    PROVE  \A n \in Nat : \E g \in [1 .. n -> V] : Iterates(g, n, first, step)
<1> DEFINE S == {n \in Nat : \E g \in [1 .. n -> V] : Iterates(g, n, first, step)}
<1>1. 0 \in S
  <2>1. [i \in 1 .. 0 |-> first] \in [1 .. 0 -> V]
    OBVIOUS
  <2>2. Iterates([i \in 1 .. 0 |-> first], 0, first, step)
    BY DEF Iterates
  <2> QED
    BY <2>1, <2>2
<1>2. ASSUME NEW n \in Nat, n \in S PROVE n + 1 \in S
  <2>1. PICK g \in [1 .. n -> V] : Iterates(g, n, first, step)
    BY <1>2
  <2> DEFINE last == IF n = 0 THEN first ELSE step[<<n + 1, g[n]>>]
             h == [i \in 1 .. (n + 1) |-> IF i = n + 1 THEN last ELSE g[i]]
  <2>2. last \in V
    <3>1. CASE n = 0
      BY <3>1
    <3>2. CASE n # 0
      <4>1. g[n] \in V /\ <<n + 1, g[n]>> \in Nat \X V
        BY <3>2
      <4> QED
        BY <3>2, <4>1
    <3> QED
      BY <3>1, <3>2
  <2>3. h \in [1 .. (n + 1) -> V]
    BY <2>2
  <2>4. Iterates(h, n + 1, first, step)
    <3> SUFFICES ASSUME NEW i \in 1 .. (n + 1)
                 PROVE  h[i] = IF i = 1 THEN first ELSE step[<<i, h[i - 1]>>]
      BY DEF Iterates
    <3>1. CASE i = n + 1 /\ n = 0
      BY <3>1
    <3>2. CASE i = n + 1 /\ n # 0
      <4>1. h[i - 1] = g[n] /\ h[i] = step[<<n + 1, g[n]>>] /\ i # 1
        BY <3>2
      <4> QED
        BY <4>1, <3>2
    <3>3. CASE i \in 1 .. n
      <4>1. h[i] = g[i] /\ (i # 1 => h[i - 1] = g[i - 1])
        BY <3>3
      <4>2. g[i] = IF i = 1 THEN first ELSE step[<<i, g[i - 1]>>]
        BY <2>1, <3>3 DEF Iterates
      <4> QED
        BY <4>1, <4>2
    <3> QED
      BY <3>1, <3>2, <3>3
  <2> QED
    BY <2>3, <2>4
<1> QED
  <2> HIDE DEF S
  <2>1. \A n \in Nat : n \in S
    BY <1>1, <1>2, NumbersInduction
  <2> QED
    BY <2>1 DEF S

\* Two of them agree as far as both go.
LEMMA IterationUnique ==
    ASSUME NEW first, NEW step, NEW n \in Nat, NEW m \in Nat, NEW g, NEW h,
           Iterates(g, n, first, step), Iterates(h, m, first, step)
    PROVE  \A i \in 1 .. n : i <= m => g[i] = h[i]
<1> DEFINE S == {i \in Nat : i \in 1 .. n /\ i <= m => g[i] = h[i]}
<1>1. 0 \in S
  OBVIOUS
<1>2. ASSUME NEW i \in Nat, i \in S PROVE i + 1 \in S
  <2>1. CASE i = 0
    <3>1. CASE 1 <= n /\ 1 <= m
      <4>1. 1 \in 1 .. n /\ 1 \in 1 .. m
        BY <3>1
      <4>2. g[1] = first
        BY <4>1, Iterates(g, n, first, step) DEF Iterates
      <4>3. h[1] = first
        BY <4>1, Iterates(h, m, first, step) DEF Iterates
      <4> QED
        BY <2>1, <4>2, <4>3
    <3> QED
      BY <2>1, <3>1
  <2>2. CASE i + 1 \in 1 .. n /\ i + 1 <= m /\ i # 0
    <3>1. g[i] = h[i]
      BY <1>2, <2>2
    <3>2. g[i + 1] = step[<<i + 1, g[i]>>] /\ h[i + 1] = step[<<i + 1, h[i]>>]
      BY <2>2 DEF Iterates
    <3> QED
      BY <3>1, <3>2
  <2> QED
    BY <2>1, <2>2
<1> QED
  <2> HIDE DEF S
  <2>1. \A i \in Nat : i \in S
    BY <1>1, <1>2, NumbersInduction
  <2> QED
    BY <2>1 DEF S

\* Whatever goes on like this while it is in the step's domain never leaves it.
LEMMA IterationTyped ==
    ASSUME NEW V, NEW first \in V, NEW step \in [Nat \X V -> V], NEW n \in Nat, NEW g,
           n > 0 => g[1] = first,
           \A i \in 2 .. n : g[i - 1] \in V => g[i] = step[<<i, g[i - 1]>>]
    PROVE  /\ \A i \in 1 .. n : g[i] \in V
           /\ Iterates(g, n, first, step)
<1> DEFINE S == {k \in Nat : k + 1 \in 1 .. n => g[k + 1] \in V}
<1>1. 0 \in S
  OBVIOUS
<1>2. ASSUME NEW k \in Nat, k \in S PROVE k + 1 \in S
  <2> SUFFICES ASSUME (k + 1) + 1 \in 1 .. n PROVE g[(k + 1) + 1] \in V
    OBVIOUS
  <2> DEFINE i == (k + 1) + 1
  <2>1. i \in 2 .. n /\ i - 1 = k + 1 /\ i \in Nat /\ g[i - 1] \in V
    BY <1>2
  <2>2. g[i] = step[<<i, g[i - 1]>>]
    BY <2>1
  <2> HIDE DEF i
  <2>3. g[i] \in V
    BY <2>1, <2>2
  <2> QED
    BY <2>3 DEF i
<1>3. \A k \in Nat : k \in S
  <2> HIDE DEF S
  <2> QED
    BY <1>1, <1>2, NumbersInduction
<1>4. \A i \in 1 .. n : g[i] \in V
  <2> SUFFICES ASSUME NEW i \in 1 .. n PROVE g[i] \in V
    OBVIOUS
  <2>1. i - 1 \in Nat /\ (i - 1) + 1 = i
    OBVIOUS
  <2> QED
    BY <1>3, <2>1
<1> QED
  <2> SUFFICES ASSUME NEW i \in 1 .. n
               PROVE  g[i] = IF i = 1 THEN first ELSE step[<<i, g[i - 1]>>]
    BY <1>4 DEF Iterates
  <2>1. i # 1 => i - 1 \in 1 .. n /\ i \in 2 .. n
    OBVIOUS
  <2> QED
    BY <1>4, <2>1

-----------------------------------------------------------------------------
\* The subsets of a finite set, and what they are with one element less.
LEMMA SubsetsAreFinite ==
    ASSUME NEW S, IsFiniteSet(S)
    PROVE  \A s \in SUBSET S :
             /\ IsFiniteSet(s) /\ Cardinality(s) \in Nat
             /\ Cardinality(s) = 0 <=> s = {}
             /\ Cardinality(s) <= Cardinality(S)
             /\ \A y \in s : s \ {y} \in SUBSET S /\ Cardinality(s \ {y}) + 1 = Cardinality(s)
<1> SUFFICES ASSUME NEW s \in SUBSET S
             PROVE  /\ IsFiniteSet(s) /\ Cardinality(s) \in Nat
                    /\ Cardinality(s) = 0 <=> s = {}
                    /\ Cardinality(s) <= Cardinality(S)
                    /\ \A y \in s :
                         s \ {y} \in SUBSET S /\ Cardinality(s \ {y}) + 1 = Cardinality(s)
  OBVIOUS
<1>1. IsFiniteSet(s) /\ Cardinality(s) \in Nat /\ Cardinality(s) <= Cardinality(S)
  BY FS_Subset, FS_CardinalityType
<1>2. Cardinality(s) = 0 <=> s = {}
  BY <1>1, FS_EmptySet
<1>3. ASSUME NEW y \in s
      PROVE  s \ {y} \in SUBSET S /\ Cardinality(s \ {y}) + 1 = Cardinality(s)
  <2>1. Cardinality(s \ {y}) = Cardinality(s) - 1
    BY <1>1, FS_RemoveElement
  <2> QED
    BY <1>1, <2>1
<1> QED
  BY <1>1, <1>2, <1>3

\* A set of sets that has the empty set and, with every set, those with one element more
\* has every finite set.
LEMMA SetsInduction ==
    ASSUME NEW S, IsFiniteSet(S), NEW Z, {} \in Z,
           \A s \in SUBSET S : \A y \in S \ s : s \in Z => s \cup {y} \in Z
    PROVE  \A s \in SUBSET S : s \in Z
<1> DEFINE N == {n \in Nat : \A s \in SUBSET S : Cardinality(s) = n => s \in Z}
<1>1. \A s \in SUBSET S :
        /\ Cardinality(s) \in Nat /\ (Cardinality(s) = 0 <=> s = {})
        /\ \A y \in s : s \ {y} \in SUBSET S /\ Cardinality(s \ {y}) + 1 = Cardinality(s)
  BY SubsetsAreFinite
<1>2. 0 \in N
  <2> SUFFICES ASSUME NEW s \in SUBSET S, Cardinality(s) = 0 PROVE s \in Z
    OBVIOUS
  <2>1. s = {}
    BY <1>1
  <2> QED
    BY <2>1
<1>3. ASSUME NEW n \in Nat, n \in N PROVE n + 1 \in N
  <2> SUFFICES ASSUME NEW s \in SUBSET S, Cardinality(s) = n + 1 PROVE s \in Z
    OBVIOUS
  <2>1. PICK y : y \in s
    <3>1. s # {}
      BY <1>1
    <3> QED
      BY <3>1
  <2>2. s \ {y} \in SUBSET S /\ Cardinality(s \ {y}) = n
    BY <1>1, <2>1
  <2>3. s \ {y} \in Z /\ y \in S \ (s \ {y}) /\ (s \ {y}) \cup {y} = s
    BY <1>3, <2>1, <2>2
  <2>4. (s \ {y}) \cup {y} \in Z
    BY <2>2, <2>3
  <2> QED
    BY <2>3, <2>4
<1> QED
  <2> HIDE DEF N
  <2>1. \A n \in Nat : n \in N
    BY <1>2, <1>3, NumbersInduction
  <2> QED
    BY <1>1, <2>1 DEF N

-----------------------------------------------------------------------------
\* The element that a sum over a set takes first.
FirstOf(s) == CHOOSE x \in s : TRUE

\* What a sum of the values of g over the subsets of S satisfies, where "sets" are those it
\* is known for.
SumsUp(sum, g, sets) ==
    \A s \in sets : sum[s] = IF s = {} THEN 0 ELSE g[FirstOf(s)] + sum[s \ {FirstOf(s)}]

\* Such a sum exists.
LEMMA SumExists ==
    ASSUME NEW S, IsFiniteSet(S), NEW g \in [S -> Nat]
    PROVE  \E sum \in [SUBSET S -> Nat] : SumsUp(sum, g, SUBSET S)
<1> DEFINE UpTo(n) == {s \in SUBSET S : Cardinality(s) <= n}
           N == {n \in Nat : \E sum \in [UpTo(n) -> Nat] : SumsUp(sum, g, UpTo(n))}
<1>1. \A s \in SUBSET S :
        /\ Cardinality(s) \in Nat /\ (Cardinality(s) = 0 <=> s = {})
        /\ \A y \in s : s \ {y} \in SUBSET S /\ Cardinality(s \ {y}) + 1 = Cardinality(s)
  BY SubsetsAreFinite
<1>2. \A s \in SUBSET S : s # {} => FirstOf(s) \in s
  BY DEF FirstOf
<1>3. \A s \in SUBSET S : s # {} =>
        /\ s \ {FirstOf(s)} \in SUBSET S
        /\ Cardinality(s \ {FirstOf(s)}) + 1 = Cardinality(s)
  BY <1>1, <1>2
<1>4. \A s \in SUBSET S : Cardinality(s) = 0 <=> s = {}
  BY <1>1
<1>5. 0 \in N
  <2> DEFINE sum == [s \in UpTo(0) |-> 0]
  <2>1. \A s \in UpTo(0) : s = {}
    BY <1>1, <1>4
  <2>2. sum \in [UpTo(0) -> Nat]
    OBVIOUS
  <2>3. SumsUp(sum, g, UpTo(0))
    BY <2>1 DEF SumsUp
  <2> QED
    BY <2>2, <2>3
<1>6. ASSUME NEW n \in Nat, n \in N PROVE n + 1 \in N
  <2>1. PICK sum \in [UpTo(n) -> Nat] : SumsUp(sum, g, UpTo(n))
    BY <1>6
  <2> DEFINE more == [s \in UpTo(n + 1) |->
                        IF s = {} THEN 0 ELSE g[FirstOf(s)] + sum[s \ {FirstOf(s)}]]
  <2>2. \A s \in UpTo(n + 1) : s # {} => s \ {FirstOf(s)} \in UpTo(n) /\ g[FirstOf(s)] \in Nat
    BY <1>1, <1>2, <1>3
  <2>3. more \in [UpTo(n + 1) -> Nat]
    <3>1. \A s \in UpTo(n + 1) : s # {} => sum[s \ {FirstOf(s)}] \in Nat
      BY <2>1, <2>2
    <3> QED
      BY <2>2, <3>1
  <2>4. \A s \in UpTo(n) : s \in UpTo(n + 1) /\ more[s] = sum[s]
    <3> SUFFICES ASSUME NEW s \in UpTo(n) PROVE s \in UpTo(n + 1) /\ more[s] = sum[s]
      OBVIOUS
    <3>1. s \in UpTo(n + 1)
      BY <1>1
    <3>2. sum[s] = IF s = {} THEN 0 ELSE g[FirstOf(s)] + sum[s \ {FirstOf(s)}]
      BY <2>1 DEF SumsUp
    <3> QED
      BY <3>1, <3>2
  <2>5. SumsUp(more, g, UpTo(n + 1))
    <3> SUFFICES ASSUME NEW s \in UpTo(n + 1)
                 PROVE  more[s] = IF s = {} THEN 0 ELSE g[FirstOf(s)] + more[s \ {FirstOf(s)}]
      BY DEF SumsUp
    <3>1. s # {} => more[s \ {FirstOf(s)}] = sum[s \ {FirstOf(s)}]
      <4> HIDE DEF UpTo, more
      <4> QED
        BY <2>2, <2>4
    <3> QED
      BY <3>1
  <2> HIDE DEF UpTo, more
  <2> QED
    BY <2>3, <2>5
<1>7. \A n \in Nat : n \in N
  <2> HIDE DEF N
  <2> QED
    BY <1>5, <1>6, NumbersInduction
<1>8. Cardinality(S) \in Nat /\ UpTo(Cardinality(S)) = SUBSET S
  <2>1. \A s \in SUBSET S : Cardinality(s) <= Cardinality(S)
    BY SubsetsAreFinite
  <2> QED
    BY <2>1, FS_CardinalityType
<1> HIDE DEF UpTo
<1> QED
  BY <1>7, <1>8

\* Whatever satisfies the equation is a number for every subset.
LEMMA SumTyped ==
    ASSUME NEW S, IsFiniteSet(S), NEW g \in [S -> Nat], NEW sum, SumsUp(sum, g, SUBSET S)
    PROVE  \A s \in SUBSET S : sum[s] \in Nat
<1> DEFINE N == {n \in Nat : \A s \in SUBSET S : Cardinality(s) = n => sum[s] \in Nat}
<1>1. \A s \in SUBSET S :
        /\ Cardinality(s) \in Nat /\ (Cardinality(s) = 0 <=> s = {})
        /\ \A y \in s : s \ {y} \in SUBSET S /\ Cardinality(s \ {y}) + 1 = Cardinality(s)
  BY SubsetsAreFinite
<1>2. \A s \in SUBSET S : s # {} => FirstOf(s) \in s
  BY DEF FirstOf
<1>3. 0 \in N
  <2> SUFFICES ASSUME NEW s \in SUBSET S, Cardinality(s) = 0 PROVE sum[s] \in Nat
    OBVIOUS
  <2>1. s = {}
    BY <1>1
  <2> QED
    BY <2>1 DEF SumsUp
<1>4. ASSUME NEW n \in Nat, n \in N PROVE n + 1 \in N
  <2> SUFFICES ASSUME NEW s \in SUBSET S, Cardinality(s) = n + 1 PROVE sum[s] \in Nat
    OBVIOUS
  <2>1. s # {}
    BY <1>1
  <2>2. s \ {FirstOf(s)} \in SUBSET S /\ Cardinality(s \ {FirstOf(s)}) = n
    BY <1>1, <1>2, <2>1
  <2>3. sum[s \ {FirstOf(s)}] \in Nat /\ g[FirstOf(s)] \in Nat
    BY <1>2, <1>4, <2>1, <2>2
  <2>4. sum[s] = g[FirstOf(s)] + sum[s \ {FirstOf(s)}]
    BY <2>1 DEF SumsUp
  <2> QED
    BY <2>3, <2>4
<1> QED
  <2> HIDE DEF N
  <2>1. \A n \in Nat : n \in N
    BY <1>3, <1>4, NumbersInduction
  <2> QED
    BY <1>1, <2>1 DEF N

TakesAny(sum, g, sets) ==
    \A s \in sets : \A y \in s : sum[s] = g[y] + sum[s \ {y}]

\* Any element may be taken first.
LEMMA SumTakesAny ==
    ASSUME NEW S, IsFiniteSet(S), NEW g \in [S -> Nat], NEW sum, SumsUp(sum, g, SUBSET S)
    PROVE  TakesAny(sum, g, SUBSET S)
<1> DEFINE N == {n \in Nat : \A s \in SUBSET S : \A y \in s :
                               Cardinality(s) = n => sum[s] = g[y] + sum[s \ {y}]}
<1>1. \A s \in SUBSET S :
        /\ Cardinality(s) \in Nat /\ (Cardinality(s) = 0 <=> s = {})
        /\ \A y \in s : s \ {y} \in SUBSET S /\ Cardinality(s \ {y}) + 1 = Cardinality(s)
  BY SubsetsAreFinite
<1>2. \A s \in SUBSET S : s # {} => FirstOf(s) \in s
  BY DEF FirstOf
<1>3. 0 \in N
  <2> SUFFICES ASSUME NEW s \in SUBSET S, NEW y \in s, Cardinality(s) = 0 PROVE FALSE
    OBVIOUS
  <2> QED
    BY <1>1
<1>4. ASSUME NEW n \in Nat, n \in N PROVE n + 1 \in N
  <2> SUFFICES ASSUME NEW s \in SUBSET S, NEW y \in s, Cardinality(s) = n + 1
               PROVE  sum[s] = g[y] + sum[s \ {y}]
    OBVIOUS
  <2> DEFINE x == FirstOf(s)
  <2>1. x \in s /\ sum[s] = g[x] + sum[s \ {x}]
    BY <1>2 DEF SumsUp
  <2> HIDE DEF x
  <2>2. CASE x = y
    BY <2>1, <2>2
  <2>3. CASE x # y
    <3>1. /\ s \ {x} \in SUBSET S /\ Cardinality(s \ {x}) = n
          /\ s \ {y} \in SUBSET S /\ Cardinality(s \ {y}) = n
      BY <1>1, <2>1
    <3>2. y \in s \ {x} /\ x \in s \ {y} /\ (s \ {x}) \ {y} = (s \ {y}) \ {x}
      BY <2>1, <2>3
    <3>3. sum[s \ {x}] = g[y] + sum[(s \ {x}) \ {y}]
      BY <1>4, <3>1, <3>2
    <3>4. sum[s \ {y}] = g[x] + sum[(s \ {y}) \ {x}]
      BY <1>4, <3>1, <3>2
    <3>5. g[x] \in Nat /\ g[y] \in Nat /\ sum[(s \ {x}) \ {y}] \in Nat
      <4>1. (s \ {x}) \ {y} \in SUBSET S
        OBVIOUS
      <4> QED
        BY <2>1, <4>1, SumTyped
    <3> DEFINE rest == sum[(s \ {x}) \ {y}]
    <3>6. sum[s] = g[x] + (g[y] + rest) /\ sum[s \ {y}] = g[x] + rest
      BY <2>1, <3>2, <3>3, <3>4
    <3> HIDE DEF rest
    <3> QED
      BY <3>5, <3>6 DEF rest
  <2> QED
    BY <2>2, <2>3
<1> QED
  <2> HIDE DEF N
  <2>1. \A n \in Nat : n \in N
    BY <1>3, <1>4, NumbersInduction
  <2> SUFFICES ASSUME NEW s \in SUBSET S, NEW y \in s PROVE sum[s] = g[y] + sum[s \ {y}]
    BY DEF TakesAny
  <2>2. Cardinality(s) \in N
    BY <1>1, <2>1
  <2> QED
    BY <2>2 DEF N
==============================================================================
