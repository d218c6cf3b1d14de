------------------------------ MODULE DataLemmas ------------------------------
(***************************************************************************)
(* Lemmas about data that the proofs of several modules rest on: lists     *)
(* without duplicates; induction on the naturals and recursive functions   *)
(* on an interval of them, stated about sets instead of operators.         *)
(***************************************************************************)
EXTENDS Integers, Sequences, SequencesExt, Lists, SequenceTheorems, FiniteSetTheorems,
        WellFoundedInduction, TLAPS

-----------------------------------------------------------------------------
(* Lists without duplicates.                                               *)

\* An element is put in front.
LEMMA PrependProperties ==
    ASSUME NEW S, NEW s \in Seq(S), IsInjective(s), NEW c \in S \ ToSet(s)
    PROVE  /\ <<c>> \o s \in Seq(S)
           /\ <<c>> \o s # <<>>
           /\ IsInjective(<<c>> \o s)
           /\ ToSet(<<c>> \o s) = ToSet(s) \cup {c}
<1> DEFINE t == <<c>> \o s
<1>1. t \in Seq(S) /\ Len(t) = Len(s) + 1
  BY ConcatProperties
<1>2. DOMAIN s = 1..Len(s) /\ Len(s) \in Nat
  OBVIOUS
<1>3. ASSUME NEW i \in 1..(Len(s) + 1)
      PROVE  t[i] = IF i = 1 THEN c ELSE s[i - 1]
  <2>1. /\ <<c>> \in Seq(S) /\ Len(<<c>>) = 1 /\ <<c>>[1] = c
    OBVIOUS
  <2>2. t[i] = IF i <= 1 THEN <<c>>[i] ELSE s[i - 1]
    BY <1>2, <2>1, ConcatProperties
  <2> QED
    BY <1>2, <2>1, <2>2
<1> HIDE DEF t
<1>4. DOMAIN t = 1..(Len(s) + 1) /\ t # <<>>
  BY <1>1, <1>2
<1>5. IsInjective(t)
  BY <1>2, <1>3, <1>4, SMTT(30) DEF IsInjective, ToSet
<1>6. ToSet(t) = ToSet(s) \cup {c}
  <2>1. \A i \in 1..(Len(s) + 1) : t[i] \in ToSet(s) \cup {c}
    BY <1>2, <1>3 DEF ToSet
  <2>2. t[1] = c
    BY <1>2, <1>3
  <2>3. ASSUME NEW i \in 1..Len(s)
        PROVE  t[i + 1] = s[i]
    BY <1>2, <1>3
  <2>4. \A i \in 1..Len(s) : i + 1 \in 1..(Len(s) + 1)
    BY <1>2
  <2>5. 1 \in DOMAIN t
    BY <1>2, <1>4
  <2>6. \A i \in 1..Len(s) : s[i] \in ToSet(t)
    BY <2>3, <2>4, <1>4 DEF ToSet
  <2>7. c \in ToSet(t)
    BY <2>2, <2>5 DEF ToSet
  <2>8. ToSet(t) \subseteq ToSet(s) \cup {c}
    BY <2>1, <1>4 DEF ToSet
  <2>9. ToSet(s) \subseteq ToSet(t)
    BY <2>6, <1>2 DEF ToSet
  <2> QED
    BY <2>7, <2>8, <2>9
<1> QED
  BY <1>1, <1>4, <1>5, <1>6 DEF t

\* One is taken from the front...
LEMMA TailProperties ==
    ASSUME NEW S, NEW s \in Seq(S), s # <<>>, IsInjective(s)
    PROVE  /\ Head(s) \in S
           /\ Head(s) \in ToSet(s)
           /\ Tail(s) \in Seq(S)
           /\ IsInjective(Tail(s))
           /\ ToSet(Tail(s)) = ToSet(s) \ {Head(s)}
<1>1. /\ Head(s) \in S
      /\ Tail(s) \in Seq(S)
      /\ Len(Tail(s)) = Len(s) - 1
      /\ \A i \in 1..(Len(s) - 1) : Tail(s)[i] = s[i + 1]
  BY HeadTailProperties
<1>2. /\ Len(s) \in Nat \ {0}
      /\ DOMAIN s = 1..Len(s)
      /\ DOMAIN Tail(s) = 1..(Len(s) - 1)
      /\ Head(s) = s[1]
  BY <1>1, EmptySeq
<1> DEFINE t == Tail(s)
           h == Head(s)
<1> HIDE DEF t, h
<1>3. IsInjective(t)
  BY <1>1, <1>2 DEF IsInjective, t
<1>4. h \in ToSet(s)
  BY <1>2 DEF ToSet, h
<1>5. ToSet(t) = ToSet(s) \ {h}
  <2>1. \A i \in 1..(Len(s) - 1) : t[i] \in ToSet(s) \ {h}
    BY <1>1, <1>2 DEF IsInjective, ToSet, t, h
  <2>2. ASSUME NEW i \in 1..Len(s), s[i] # h
        PROVE  s[i] = t[i - 1] /\ i - 1 \in 1..(Len(s) - 1)
    BY <2>2, <1>1, <1>2 DEF t, h
  <2>3. \A i \in 1..Len(s) : s[i] # h => s[i] \in ToSet(t)
    BY <2>2, <1>2 DEF ToSet, t
  <2>4. ToSet(t) \subseteq ToSet(s) \ {h}
    BY <2>1, <1>2 DEF ToSet, t
  <2>5. ToSet(s) \ {h} \subseteq ToSet(t)
    BY <2>3, <1>2 DEF ToSet
  <2> QED
    BY <2>4, <2>5
<1> QED
  BY <1>1, <1>3, <1>4, <1>5 DEF t, h

\* ... and one put at the end.
LEMMA AppendKeepsDistinct ==
    ASSUME NEW S, NEW s \in Seq(S), IsInjective(s), NEW c \in S \ ToSet(s)
    PROVE  /\ Append(s, c) \in Seq(S)
           /\ IsInjective(Append(s, c))
           /\ ToSet(Append(s, c)) = ToSet(s) \cup {c}
           /\ Append(s, c) # <<>>
<1> DEFINE t == Append(s, c)
<1>1. /\ t \in Seq(S) /\ Len(t) = Len(s) + 1 /\ t # <<>>
      /\ \A i \in 1..Len(s) : t[i] = s[i]
      /\ t[Len(s) + 1] = c
  BY AppendProperties
<1>2. DOMAIN s = 1..Len(s) /\ Len(s) \in Nat /\ DOMAIN t = 1..(Len(s) + 1)
  BY <1>1
<1> HIDE DEF t
<1>3. IsInjective(t)
  BY <1>1, <1>2 DEF IsInjective, ToSet
<1>4. ToSet(t) = ToSet(s) \cup {c}
  <2>1. \A i \in 1..Len(s) : i \in 1..(Len(s) + 1)
    BY <1>2
  <2>2. Len(s) + 1 \in 1..(Len(s) + 1)
    BY <1>2
  <2>3. \A i \in 1..(Len(s) + 1) : i \in 1..Len(s) \/ i = Len(s) + 1
    BY <1>2
  <2> QED
    BY <2>1, <2>2, <2>3, <1>1, <1>2 DEF ToSet
<1> QED
  BY <1>1, <1>3, <1>4 DEF t

\* A list is empty when nothing is in it.
LEMMA EmptyList ==
    ASSUME NEW S, NEW s \in Seq(S)
    PROVE  /\ ToSet(s) \subseteq S
           /\ s = <<>> <=> ToSet(s) = {}
           /\ s # <<>> => Head(s) \in ToSet(s)
<1>1. DOMAIN s = 1..Len(s) /\ Len(s) \in Nat /\ \A i \in 1..Len(s) : s[i] \in S
  OBVIOUS
<1>2. ToSet(s) \subseteq S
  BY <1>1 DEF ToSet
<1>3. s = <<>> => ToSet(s) = {}
  BY DEF ToSet
<1>4. s # <<>> => 1 \in DOMAIN s /\ Head(s) = s[1]
  BY <1>1, EmptySeq
<1> QED
  BY <1>2, <1>3, <1>4 DEF ToSet

-----------------------------------------------------------------------------
(* Induction.                                                              *)

\* A set of naturals has a least element.
LEMMA Least ==
    ASSUME NEW T \in SUBSET Nat, T # {}
    PROVE  \E m \in T : \A k \in T : m <= k
<1> DEFINE R == {ss \in Nat \X Nat : ss[1] < ss[2]}
<1>1. IsWellFoundedOn(R, Nat)
  BY NatLessThanWellFounded DEF OpToRel
<1>2. PICK m \in T : \A k \in T : ~ (<<k, m>> \in R)
  <2> HIDE DEF R
  <2> QED BY <1>1, WFMin
<1>3. ASSUME NEW k \in T
      PROVE  m <= k
  <2>1. <<k, m>> \in Nat \X Nat /\ <<k, m>>[1] = k /\ <<k, m>>[2] = m
    OBVIOUS
  <2>2. ~ (k < m)
    BY <2>1, <1>2
  <2> QED BY <2>2
<1> QED BY <1>3

\* A set that has 0 and with each natural the next has them all.
LEMMA Induction ==
    ASSUME NEW T, 0 \in T, \A n \in Nat : n \in T => n + 1 \in T
    PROVE  \A n \in Nat : n \in T
<1> SUFFICES ASSUME NEW n \in Nat, n \notin T PROVE FALSE
  OBVIOUS
<1> DEFINE U == Nat \ T
<1>1. PICK m \in U : \A k \in U : m <= k
  BY Least
<1>2. m # 0 /\ m - 1 \in Nat
  BY <1>1
<1>3. m - 1 \in T
  BY <1>1, <1>2
<1>4. (m - 1) + 1 = m
  BY <1>2
<1> QED BY <1>1, <1>2, <1>3, <1>4

\* The same up to a bound.
LEMMA BoundedInduction ==
    ASSUME NEW n \in Nat, NEW T, 0 \in T, \A k \in 1..n : k - 1 \in T => k \in T
    PROVE  \A k \in 0..n : k \in T
<1> DEFINE U == {k \in Nat : k <= n => k \in T}
<1>1. 0 \in U
  OBVIOUS
<1>2. ASSUME NEW k \in Nat, k \in U
      PROVE  k + 1 \in U
  <2>1. CASE k + 1 <= n
    <3>1. k \in T /\ k + 1 \in 1..n /\ (k + 1) - 1 = k
      BY <2>1, <1>2
    <3> QED BY <3>1
  <2>2. CASE ~ (k + 1 <= n)
    BY <2>2
  <2> QED BY <2>1, <2>2
<1>3. \A k \in Nat : k \in U
  <2> HIDE DEF U
  <2> QED BY <1>1, <1>2, Induction
<1> QED BY <1>3

\* g is the recursive function on 0..n with this first value and this step from
\* each value to the next.
Iterates(g, n, c, step) == g[0] = c /\ \A k \in 1..n : g[k] = step[k][g[k - 1]]

\* There is one, and its values are in the step's range.
LEMMA Recursion ==
    ASSUME NEW n \in Nat, NEW V, NEW c \in V, NEW step \in [1..n -> [V -> V]]
    PROVE  \E g \in [0..n -> V] : Iterates(g, n, c, step)
<1> DEFINE T == {m \in 0..n : \E g \in [0..m -> V] : Iterates(g, m, c, step)}
<1>1. 0 \in T
  <2>1. [k \in 0..0 |-> c] \in [0..0 -> V] /\ Iterates([k \in 0..0 |-> c], 0, c, step)
    BY DEF Iterates
  <2> QED BY <2>1
<1>2. ASSUME NEW m \in 1..n, m - 1 \in T
      PROVE  m \in T
  <2>1. PICK g \in [0..(m - 1) -> V] : Iterates(g, m - 1, c, step)
    BY <1>2
  <2>2. m - 1 \in 0..(m - 1) /\ g[m - 1] \in V /\ 0 # m
    OBVIOUS
  <2> DEFINE h == [k \in 0..m |-> IF k = m THEN step[m][g[m - 1]] ELSE g[k]]
  <2>3. h \in [0..m -> V]
    <3>1. step[m][g[m - 1]] \in V
      BY <2>2
    <3>2. \A k \in 0..m : k # m => k \in 0..(m - 1)
      OBVIOUS
    <3> QED BY <3>1, <3>2
  <2>4. h[0] = c
    BY <2>1, <2>2 DEF Iterates
  <2>5. ASSUME NEW k \in 1..m
        PROVE  h[k] = step[k][h[k - 1]]
    <3>1. k - 1 \in 0..m /\ k - 1 # m /\ k \in 0..m
      OBVIOUS
    <3>2. h[k - 1] = g[k - 1]
      BY <3>1
    <3>3. CASE k = m
      BY <3>2, <3>3, <3>1
    <3>4. CASE k # m
      <4>1. k \in 1..(m - 1)
        BY <3>4
      <4>2. h[k] = g[k]
        BY <3>1, <3>4
      <4> QED BY <2>1, <3>2, <4>1, <4>2 DEF Iterates
    <3> QED BY <3>3, <3>4
  <2>6. Iterates(h, m, c, step)
    BY <2>4, <2>5 DEF Iterates
  <2>7. \E f \in [0..m -> V] : Iterates(f, m, c, step)
    <3> HIDE DEF h
    <3> QED BY <2>3, <2>6
  <2>8. m \in 0..n
    OBVIOUS
  <2> HIDE DEF h
  <2> QED BY <2>7, <2>8
<1>3. \A k \in 0..n : k \in T
  <2> HIDE DEF T
  <2>1. \A k \in 1..n : k - 1 \in T => k \in T
    BY <1>2
  <2> QED BY <1>1, <2>1, BoundedInduction
<1>4. n \in T
  <2> HIDE DEF T
  <2> QED BY <1>3
<1> QED BY <1>4

\* The recursive function goes from each of these sets to the next one when
\* every step does.
LEMMA StageByStage ==
    ASSUME NEW n \in Nat, NEW W, NEW c \in W[0], NEW step,
           \A k \in 1..n : \A v \in W[k - 1] : step[k][v] \in W[k]
    PROVE  \E g : /\ g = [k \in 0..n |-> g[k]] /\ Iterates(g, n, c, step)
                  /\ \A k \in 0..n : g[k] \in W[k]
<1>1. PICK V : V = UNION {W[k] : k \in 0..n}
  OBVIOUS
<1>2. \A k \in 0..n : \A v \in W[k] : v \in V
  BY <1>1
<1>3. c \in V
  BY <1>2
<1>4. PICK next : next = [k \in 1..n |-> [v \in V |->
                             IF step[k][v] \in V THEN step[k][v] ELSE c]]
  OBVIOUS
<1>5. next \in [1..n -> [V -> V]]
  BY <1>3, <1>4
<1>6. PICK g \in [0..n -> V] : Iterates(g, n, c, next)
  BY <1>3, <1>5, Recursion
<1>7. g[0] = c /\ \A k \in 1..n : g[k] = next[k][g[k - 1]]
  BY <1>6 DEF Iterates
<1>8. ASSUME NEW k \in 1..n, g[k - 1] \in W[k - 1]
      PROVE  g[k] = step[k][g[k - 1]] /\ g[k] \in W[k]
  <2>1. PICK v : v = g[k - 1]
    OBVIOUS
  <2>2. v \in W[k - 1] /\ v \in V
    <3>1. k - 1 \in 0..n
      OBVIOUS
    <3> QED BY <1>2, <1>8, <2>1, <3>1
  <2>3. step[k][v] \in W[k] /\ step[k][v] \in V
    <3>1. k \in 0..n
      OBVIOUS
    <3>2. step[k][v] \in W[k]
      BY <2>2
    <3> QED BY <1>2, <3>1, <3>2
  <2>4. next[k][v] = step[k][v]
    BY <1>4, <2>2, <2>3
  <2>5. g[k] = next[k][v]
    BY <1>7, <2>1
  <2> QED BY <2>1, <2>3, <2>4, <2>5
<1>9. PICK T : T = {k \in 0..n : g[k] \in W[k]}
  OBVIOUS
<1>10. 0 \in T
  BY <1>7, <1>9
<1>11. \A k \in 1..n : k - 1 \in T => k \in T
  <2>1. ASSUME NEW k \in 1..n, k - 1 \in T
        PROVE  k \in T
    <3>1. g[k] \in W[k]
      BY <1>8, <1>9, <2>1
    <3>2. k \in 0..n
      OBVIOUS
    <3> QED BY <1>9, <3>1, <3>2
  <2> QED BY <2>1
<1>12. \A k \in 0..n : k \in T
  BY <1>10, <1>11, BoundedInduction
<1>13. \A k \in 0..n : g[k] \in W[k]
  BY <1>9, <1>12
<1>14. \A k \in 1..n : g[k] = step[k][g[k - 1]]
  <2>1. ASSUME NEW k \in 1..n
        PROVE  g[k] = step[k][g[k - 1]]
    <3>1. k - 1 \in 0..n
      OBVIOUS
    <3> QED BY <1>8, <1>13, <3>1
  <2> QED BY <2>1
<1>15. Iterates(g, n, c, step)
  BY <1>7, <1>14 DEF Iterates
<1>16. g = [k \in 0..n |-> g[k]]
  BY <1>6
<1> QED BY <1>13, <1>15, <1>16

-----------------------------------------------------------------------------
(* Counting.                                                               *)

\* A function on 1..n is a sequence, and its own beginning.
LEMMA FunctionIs ==
    ASSUME NEW n \in Nat, NEW f, f = [k \in 1..n |-> f[k]]
    PROVE  /\ f \in Seq({f[k] : k \in 1..n}) /\ Len(f) = n
           /\ SubSeq(f, 1, n) = f
           /\ \A S : (\A k \in 1..n : f[k] \in S) => f \in Seq(S)
<1>1. f \in Seq({f[k] : k \in 1..n}) /\ Len(f) = n
  OBVIOUS
<1>2. SubSeq(f, 1, n) = f
  BY <1>1, SubSeqFull
<1>3. ASSUME NEW S, \A k \in 1..n : f[k] \in S
      PROVE  f \in Seq(S)
  BY <1>3
<1> QED BY <1>1, <1>2, <1>3

\* The elements that pass a test that one of them comes to pass.
LEMMA CountMore ==
    ASSUME NEW n \in Nat, NEW A \in SUBSET (1..n), NEW B \in SUBSET (1..n), A \cap B = {}
    PROVE  /\ Cardinality(A) \in Nat /\ Cardinality(B) \in Nat
           /\ Cardinality(A \cup B) = Cardinality(A) + Cardinality(B)
<1>1. IsFiniteSet(1..n)
  BY FS_Interval
<1>2. IsFiniteSet(A) /\ IsFiniteSet(B)
  BY <1>1, FS_Subset
<1>3. Cardinality(A) \in Nat /\ Cardinality(B) \in Nat
  BY <1>2, FS_CardinalityType
<1>4. Cardinality(A \cup B) = Cardinality(A) + Cardinality(B) - Cardinality({})
  BY <1>2, FS_Union
<1> QED BY <1>3, <1>4, FS_EmptySet

\* In a finite set that is strictly ordered every rank is taken.
LEMMA RanksTaken ==
    ASSUME NEW S, IsFiniteSet(S), NEW Before \in [S -> SUBSET S],
           \A f \in S : f \notin Before[f],
           \A f, g, h \in S : f \in Before[g] /\ g \in Before[h] => f \in Before[h],
           \A f, g \in S : f # g => f \in Before[g] \/ g \in Before[f]
    PROVE  \A k \in 1..Cardinality(S) : \E f \in S : Cardinality(Before[f]) = k - 1
<1> DEFINE n == Cardinality(S)
           rank == [f \in S |-> Cardinality(Before[f])]
<1>1. n \in Nat
  BY FS_CardinalityType
<1>2. ASSUME NEW f \in S
      PROVE  IsFiniteSet(Before[f]) /\ Cardinality(Before[f]) \in 0..(n - 1)
  <2>1. IsFiniteSet(S \ {f}) /\ Cardinality(S \ {f}) = n - 1
    BY FS_RemoveElement
  <2>2. Before[f] \subseteq S \ {f}
    OBVIOUS
  <2>3. IsFiniteSet(Before[f]) /\ Cardinality(Before[f]) <= n - 1
    BY <2>1, <2>2, FS_Subset
  <2>4. Cardinality(Before[f]) \in Nat
    BY <2>3, FS_CardinalityType
  <2> QED BY <1>1, <2>3, <2>4
<1>3. ASSUME NEW f \in S, NEW g \in S, f \in Before[g]
      PROVE  rank[f] # rank[g]
  <2>1. Before[f] \subseteq Before[g]
    BY <1>3
  <2>2. Before[f] # Before[g]
    BY <1>3
  <2> QED BY <1>2, <2>1, <2>2, FS_Subset
<1>4. rank \in [S -> 0..(n - 1)]
  BY <1>2
<1>5. rank \in Injection(S, 0..(n - 1))
  <2> HIDE DEF rank
  <2>1. \A f, g \in S : rank[f] = rank[g] => f = g
    BY <1>3
  <2> QED BY <1>4, <2>1 DEF Injection, IsInjective
<1>6. Cardinality(0..(n - 1)) = n /\ IsFiniteSet(0..(n - 1))
  BY <1>1, FS_Interval, SMTT(30)
<1>7. rank \in Surjection(S, 0..(n - 1))
  <2> HIDE DEF rank
  <2> QED BY <1>5, <1>6, FS_Injection
<1>8. ASSUME NEW k \in 1..n
      PROVE  \E f \in S : Cardinality(Before[f]) = k - 1
  <2>1. k - 1 \in 0..(n - 1)
    BY <1>1
  <2>2. PICK f \in S : rank[f] = k - 1
    <3> HIDE DEF rank
    <3> QED BY <1>7, <2>1 DEF Surjection
  <2> QED BY <2>2
<1> QED BY <1>8

\* Some numbers up to a bound have a greatest one.
LEMMA Greatest ==
    ASSUME NEW n \in Nat, NEW I \in SUBSET (0..n), I # {}
    PROVE  \E m \in I : \A k \in I : m >= k
<1> DEFINE J == {j \in Nat : \E k \in I : j = n - k}
<1>1. I \subseteq Nat
  OBVIOUS
<1>2. J # {}
  <2>1. PICK k \in I : TRUE
    OBVIOUS
  <2>2. n - k \in Nat
    BY <2>1
  <2> QED BY <2>1, <2>2
<1>3. PICK m \in J : \A j \in J : m <= j
  <2> HIDE DEF J
  <2>1. J \in SUBSET Nat
    BY DEF J
  <2> QED BY <1>2, <2>1, Least
<1>4. PICK k \in I : m = n - k
  BY <1>3
<1>5. ASSUME NEW i \in I
      PROVE  k >= i
  <2>1. n - i \in J
    <3>1. n - i \in Nat
      OBVIOUS
    <3> QED BY <3>1
  <2>2. m <= n - i
    BY <1>3, <2>1
  <2> QED BY <1>1, <1>4, <2>2
<1> QED BY <1>4, <1>5

\* Max and Min are in the set.
LEMMA Bounds ==
    ASSUME NEW n \in Nat, NEW I \in SUBSET (0..n), I # {}
    PROVE  Min(I) \in I /\ Max(I) \in I
<1>1. \E m \in I : \A k \in I : m <= k
  <2>1. I \subseteq Nat
    OBVIOUS
  <2> QED BY <2>1, Least
<1>2. \E m \in I : \A k \in I : m >= k
  BY Greatest
<1> QED BY <1>1, <1>2 DEF Min, Max

\* The places of a sequence that pass a test have a first and a last one.
LEMMA Extremes ==
    ASSUME NEW n \in Nat, NEW I \in SUBSET (1..n), I # {}
    PROVE  Min(I) \in I /\ Max(I) \in I
<1>1. I \in SUBSET (0..n)
  OBVIOUS
<1> QED BY <1>1, Bounds

-----------------------------------------------------------------------------
(* Lists out of lists.                                                     *)

\* The places in order, each by how many there are up to it.
LEMMA Ranks ==
    ASSUME NEW m \in Nat, NEW kept \in SUBSET (1..m)
    PROVE  /\ IsFiniteSet(kept)
           /\ \E n \in Nat : \E rank \in [kept -> 1..n] :
                /\ n = Cardinality(kept)
                /\ \A i \in kept : rank[i] = Cardinality(kept \cap 1..i)
                /\ \A i, j \in kept : i < j => rank[i] < rank[j]
                /\ \A k \in 1..n : \E i \in kept : rank[i] = k
<1> DEFINE Upto(i) == kept \cap 1..i
<1>1. IsFiniteSet(kept)
  <2>1. IsFiniteSet(1..m)
    BY FS_Interval
  <2> QED BY <2>1, FS_Subset
<1>2. PICK n \in Nat : n = Cardinality(kept)
  BY <1>1, FS_CardinalityType
<1>3. ASSUME NEW i \in kept
      PROVE  IsFiniteSet(Upto(i)) /\ Cardinality(Upto(i)) \in 1..n
  <2>1. Upto(i) \subseteq kept /\ i \in Upto(i)
    OBVIOUS
  <2> HIDE DEF Upto
  <2>2. IsFiniteSet(Upto(i)) /\ Cardinality(Upto(i)) \in Nat /\ Cardinality(Upto(i)) <= n
    BY <1>1, <1>2, <2>1, FS_Subset, FS_CardinalityType
  <2>3. Cardinality(Upto(i)) # 0
    BY <2>1, <2>2, FS_EmptySet
  <2> QED BY <1>2, <2>2, <2>3
<1>4. PICK rank : rank = [i \in kept |-> Cardinality(Upto(i))]
  OBVIOUS
<1>5. rank \in [kept -> 1..n] /\ \A i \in kept : rank[i] = Cardinality(Upto(i))
  BY <1>3, <1>4
<1>6. ASSUME NEW i \in kept, NEW j \in kept, i < j
      PROVE  rank[i] < rank[j]
  <2>1. Upto(i) \subseteq Upto(j) /\ j \in Upto(j) /\ j \notin Upto(i)
    BY <1>6
  <2> HIDE DEF Upto
  <2>2. PICK a \in Nat : a = Cardinality(Upto(i))
    BY <1>3
  <2>3. PICK b \in Nat : b = Cardinality(Upto(j))
    BY <1>3
  <2>4. a <= b /\ a # b
    <3>1. Upto(i) # Upto(j) /\ IsFiniteSet(Upto(j))
      BY <1>3, <2>1
    <3> QED BY <2>1, <2>2, <2>3, <3>1, FS_Subset
  <2>5. a < b
    BY <2>4
  <2> QED BY <1>5, <2>2, <2>3, <2>5
<1>7. \A i, j \in kept : rank[i] = rank[j] => i = j
  <2>1. ASSUME NEW i \in kept, NEW j \in kept, rank[i] = rank[j]
        PROVE  i = j
    <3>1. i \in Nat /\ j \in Nat /\ rank[i] \in Nat
      BY <1>5
    <3>2. ~ (rank[i] < rank[i])
      BY <3>1
    <3>3. ~ (i < j)
      BY <1>6, <2>1, <3>2
    <3>4. ~ (j < i)
      BY <1>6, <2>1, <3>2
    <3> QED BY <3>1, <3>3, <3>4
  <2> QED BY <2>1
<1>8. \A k \in 1..n : \E i \in kept : rank[i] = k
  <2>1. rank \in Injection(kept, 1..n)
    BY <1>5, <1>7 DEF Injection, IsInjective
  <2>2. PICK T : T = 1..n
    OBVIOUS
  <2>3. Cardinality(T) = n /\ IsFiniteSet(T)
    BY <1>2, <2>2, FS_Interval
  <2>4. rank \in Injection(kept, T)
    BY <2>1, <2>2
  <2>5. rank \in Surjection(kept, T)
    BY <1>1, <1>2, <2>3, <2>4, FS_Injection
  <2> QED BY <2>2, <2>5 DEF Surjection
<1> QED BY <1>1, <1>2, <1>5, <1>6, <1>8

\* The elements in some places keep their order.
LEMMA PickedIs ==
    ASSUME NEW S, NEW s \in Seq(S), NEW kept \in SUBSET (1..Len(s))
    PROVE  LET t == Picked(s, kept)
           IN /\ t \in Seq(S) /\ Len(t) = Cardinality(kept)
              /\ \E f \in [1..Len(t) -> kept] :
                    /\ \A k \in 1..Len(t) : t[k] = s[f[k]]
                    /\ \A i \in kept : \E k \in 1..Len(t) : f[k] = i
                    /\ \A j, k \in 1..Len(t) : j < k => f[j] < f[k]
<1>1. PICK m \in Nat : m = Len(s) /\ kept \in SUBSET (1..m) /\ \A i \in 1..m : s[i] \in S
  OBVIOUS
<1>2. PICK n \in Nat : \E rank \in [kept -> 1..n] :
        /\ n = Cardinality(kept)
        /\ \A i \in kept : rank[i] = Cardinality(kept \cap 1..i)
        /\ \A i, j \in kept : i < j => rank[i] < rank[j]
        /\ \A k \in 1..n : \E i \in kept : rank[i] = k
  BY <1>1, Ranks
<1>16. PICK rank \in [kept -> 1..n] :
        /\ \A i \in kept : rank[i] = Cardinality(kept \cap 1..i)
        /\ \A i, j \in kept : i < j => rank[i] < rank[j]
        /\ \A k \in 1..n : \E i \in kept : rank[i] = k
  BY <1>2
<1> DEFINE Pick(k) == CHOOSE i \in kept : Cardinality(kept \cap 1..i) = k
<1>3. \A k \in 1..n : Pick(k) \in kept /\ rank[Pick(k)] = k
  BY <1>16
<1> HIDE DEF Pick
<1>4. PICK one : one = [k \in 1..n |-> k]
  OBVIOUS
<1>5. PICK list : list = [k \in DOMAIN one |-> s[Pick(one[k])]]
  OBVIOUS
<1>6. Len(one) = n /\ DOMAIN one = 1..n /\ \A k \in 1..n : one[k] = k
  BY <1>4
<1>7. PICK t : t = Picked(s, kept)
  OBVIOUS
<1>8. t = SubSeq(list, 1, n)
  BY <1>2, <1>4, <1>5, <1>6, <1>7 DEF Picked, Each, Pick
<1>9. list = [k \in 1..n |-> list[k]] /\ \A k \in 1..n : list[k] = s[Pick(k)] /\ list[k] \in S
  BY <1>1, <1>3, <1>5, <1>6
<1>10. t = list /\ Len(t) = n /\ t \in Seq(S)
  BY <1>8, <1>9, FunctionIs
<1>11. PICK f : f = [k \in 1..n |-> Pick(k)]
  OBVIOUS
<1>12. f \in [1..n -> kept] /\ \A k \in 1..n : rank[f[k]] = k /\ t[k] = s[f[k]]
  BY <1>3, <1>9, <1>10, <1>11
<1>13. ASSUME NEW i \in kept, NEW j \in kept
       PROVE  /\ rank[i] < rank[j] => i < j
              /\ rank[i] = rank[j] => i = j
  <2>1. i \in Nat /\ j \in Nat /\ rank[i] \in Nat /\ rank[j] \in Nat
    BY <1>1, <1>16
  <2>2. (i < j => rank[i] < rank[j]) /\ (j < i => rank[j] < rank[i])
    BY <1>16
  <2>3. PICK a \in Nat : a = rank[i]
    BY <2>1
  <2>4. PICK b \in Nat : b = rank[j]
    BY <2>1
  <2> QED BY <2>1, <2>2, <2>3, <2>4
<1>14. \A i \in kept : \E k \in 1..n : f[k] = i
  <2>1. ASSUME NEW i \in kept
        PROVE  \E k \in 1..n : f[k] = i
    <3>1. PICK k \in 1..n : k = rank[i]
      BY <1>16
    <3>2. f[k] \in kept /\ rank[f[k]] = rank[i]
      BY <1>12, <3>1
    <3> QED BY <1>13, <3>2
  <2> QED BY <2>1
<1>15. \A j, k \in 1..n : j < k => f[j] < f[k]
  <2>1. ASSUME NEW j \in 1..n, NEW k \in 1..n, j < k
        PROVE  f[j] < f[k]
    <3>1. f[j] \in kept /\ f[k] \in kept /\ rank[f[j]] = j /\ rank[f[k]] = k
      BY <1>12
    <3> QED BY <1>13, <2>1, <3>1
  <2> QED BY <2>1
<1>17. t \in Seq(S) /\ Len(t) = Cardinality(kept)
  BY <1>2, <1>10
<1>18. 1..Len(t) = 1..n
  BY <1>10
<1>19. /\ f \in [1..Len(t) -> kept]
       /\ \A k \in 1..Len(t) : t[k] = s[f[k]]
       /\ \A i \in kept : \E k \in 1..Len(t) : f[k] = i
       /\ \A j, k \in 1..Len(t) : j < k => f[j] < f[k]
  BY <1>12, <1>14, <1>15, <1>18
<1> QED BY <1>7, <1>17, <1>19

\* One list after another.
LEMMA ConcatIs ==
    ASSUME NEW S, NEW s \in Seq(S), NEW t \in Seq(S), NEW m \in Nat, NEW n \in Nat,
           Len(s) = m, Len(t) = n
    PROVE  /\ s \o t \in Seq(S) /\ Len(s \o t) = m + n
           /\ \A k \in 1..m : (s \o t)[k] = s[k]
<1>1. /\ s \o t \in Seq(S) /\ Len(s \o t) = m + n
      /\ \A k \in 1..(m + n) : (s \o t)[k] = IF k <= m THEN s[k] ELSE t[k - m]
  BY ConcatProperties
<1>2. \A k \in 1..m : k \in 1..(m + n) /\ k <= m
  OBVIOUS
<1> QED BY <1>1, <1>2

LEMMA ConcatAfter ==
    ASSUME NEW S, NEW s \in Seq(S), NEW t \in Seq(S), NEW k \in 1..Len(t), NEW j,
           j = Len(s) + k
    PROVE  (s \o t)[j] = t[k]
<1>1. PICK m \in Nat : m = Len(s)
  OBVIOUS
<1>2. PICK n \in Nat : n = Len(t)
  OBVIOUS
<1>3. j \in 1..(m + n) /\ ~ (j <= m) /\ j - m = k
  BY <1>1, <1>2
<1>4. (s \o t)[j] = IF j <= m THEN s[j] ELSE t[j - m]
  BY <1>1, <1>2, <1>3, ConcatProperties
<1> QED BY <1>3, <1>4

\* All of them are picked.
LEMMA PickedAll ==
    ASSUME NEW S, NEW s \in Seq(S)
    PROVE  Picked(s, DOMAIN s) = s
<1>1. PICK m \in Nat : m = Len(s) /\ DOMAIN s = 1..m
  OBVIOUS
<1>2. ASSUME NEW i \in 0..m
      PROVE  Cardinality((1..m) \cap (1..i)) = i
  <2>1. (1..m) \cap (1..i) = 1..i
    OBVIOUS
  <2>2. Cardinality(1..i) = i
    BY FS_Interval
  <2> QED BY <2>1, <2>2
<1>3. Cardinality(DOMAIN s) = m
  <2>1. (1..m) \cap (1..m) = 1..m
    OBVIOUS
  <2> QED BY <1>1, <1>2, <2>1
<1> DEFINE Pick(k) == CHOOSE i \in DOMAIN s : Cardinality((DOMAIN s) \cap 1..i) = k
<1>4. ASSUME NEW k \in 1..m
      PROVE  Pick(k) = k
  <2>1. k \in DOMAIN s /\ Cardinality((DOMAIN s) \cap 1..k) = k
    BY <1>1, <1>2
  <2>2. Pick(k) \in DOMAIN s /\ Cardinality((DOMAIN s) \cap 1..Pick(k)) = k
    BY <2>1
  <2> HIDE DEF Pick
  <2>3. Pick(k) \in 0..m
    BY <1>1, <2>2
  <2> QED BY <1>1, <1>2, <2>2, <2>3
<1> HIDE DEF Pick
<1>5. PICK one : one = [k \in 1..m |-> k]
  OBVIOUS
<1>6. Len(one) = m /\ DOMAIN one = 1..m /\ \A k \in 1..m : one[k] = k
  BY <1>5
<1>7. PICK list : list = [k \in DOMAIN one |-> s[Pick(one[k])]]
  OBVIOUS
<1>8. Picked(s, DOMAIN s) = SubSeq(list, 1, m)
  BY <1>3, <1>5, <1>6, <1>7 DEF Picked, Each, Pick
<1>9. list = [k \in 1..m |-> list[k]] /\ list = [k \in 1..m |-> s[k]]
  BY <1>4, <1>6, <1>7
<1>10. SubSeq(list, 1, m) = list
  BY <1>9, FunctionIs
<1>11. s = [k \in 1..m |-> s[k]]
  BY <1>1
<1> QED BY <1>8, <1>9, <1>10, <1>11

\* An element is put in at the i-th place...
PutIn(S, s, i, x, t) ==
    /\ t \in Seq(S) /\ Len(t) = Len(s) + 1
    /\ \A k \in 1..(Len(s) + 1) : t[k] = IF k < i THEN s[k] ELSE IF k = i THEN x ELSE s[k - 1]

LEMMA InsertAtIs ==
    ASSUME NEW S, NEW s \in Seq(S), NEW x \in S, NEW i \in 1..(Len(s) + 1)
    PROVE  PutIn(S, s, i, x, InsertAt(s, i, x))
<1>1. PICK n \in Nat : n = Len(s) /\ DOMAIN s = 1..n /\ \A k \in 1..n : s[k] \in S
  OBVIOUS
<1>2. PICK a : a = SubSeq(s, 1, i - 1)
  OBVIOUS
<1>3. PICK b : b = SubSeq(s, i, n)
  OBVIOUS
<1>4. a \in Seq(S) /\ Len(a) = i - 1 /\ \A k \in 1..(i - 1) : a[k] = s[k]
  <2>1. i - 1 \in 0..n /\ \A k \in 1..(i - 1) : k \in 1..n
    BY <1>1
  <2>2. 1 \in Int /\ i - 1 \in Int /\ 1 <= (i - 1) + 1
    BY <2>1
  <2> QED BY <1>1, <1>2, <2>1, <2>2, SubSeqProperties
<1>5. b \in Seq(S) /\ Len(b) = n - i + 1 /\ \A k \in 1..(n - i + 1) : b[k] = s[i + k - 1]
  <2>1. \A k \in i..n : k \in 1..n
    BY <1>1
  <2> QED BY <1>1, <1>3, <2>1, SubSeqProperties
<1>6. PICK c : c = a \o <<x>>
  OBVIOUS
<1>7. <<x>> \in Seq(S) /\ Len(<<x>>) = 1 /\ <<x>>[1] = x
  OBVIOUS
<1>8. c \in Seq(S) /\ Len(c) = i /\ \A k \in 1..i : c[k] = IF k < i THEN s[k] ELSE x
  <2>1. c \in Seq(S) /\ Len(c) = i
    BY <1>4, <1>6, <1>7, ConcatProperties
  <2>2. ASSUME NEW k \in 1..i
        PROVE  c[k] = IF k < i THEN s[k] ELSE x
    <3>1. c[k] = IF k <= i - 1 THEN a[k] ELSE <<x>>[k - (i - 1)]
      BY <1>4, <1>6, <1>7, ConcatProperties
    <3>2. CASE k < i
      <4>1. k \in 1..(i - 1) /\ k <= i - 1
        BY <3>2
      <4> QED BY <1>4, <3>1, <3>2, <4>1
    <3>3. CASE ~ (k < i)
      <4>1. k = i /\ ~ (k <= i - 1) /\ k - (i - 1) = 1
        BY <3>3
      <4> QED BY <1>7, <3>1, <3>3, <4>1
    <3> QED BY <3>2, <3>3
  <2> QED BY <2>1, <2>2
<1>9. PICK t : t = c \o b
  OBVIOUS
<1>10. t = InsertAt(s, i, x)
  BY <1>1, <1>2, <1>3, <1>6, <1>9 DEF InsertAt
<1>17. i \in Nat /\ n - i + 1 \in Nat /\ i + (n - i + 1) = n + 1
  BY <1>1
<1>15. PICK p \in Nat : p = n - i + 1 /\ i + p = n + 1 /\ i \in Nat
  BY <1>17
<1>16. /\ t \in Seq(S) /\ Len(t) = i + p
       /\ \A k \in 1..i : t[k] = c[k]
       /\ \A k \in 1..p : t[i + k] = b[k]
  <2>1. Len(b) = p /\ b \in Seq(S) /\ Len(c) = i /\ c \in Seq(S) /\ i \in Nat
    BY <1>5, <1>8, <1>15
  <2>2. p \in Nat
    OBVIOUS
  <2>3. c \o b \in Seq(S) /\ Len(c \o b) = i + p
    BY <2>1, <2>2, ConcatIs
  <2>4. \A k \in 1..i : (c \o b)[k] = c[k]
    BY <2>1, <2>2, ConcatIs
  <2>5. ASSUME NEW k \in 1..p
        PROVE  (c \o b)[i + k] = b[k]
    <3>1. k \in 1..Len(b)
      BY <2>1
    <3>2. PICK j : j = i + k
      OBVIOUS
    <3>3. j = Len(c) + k
      BY <2>1, <3>2
    <3>4. (c \o b)[j] = b[k]
      BY <2>1, <3>1, <3>3, ConcatAfter
    <3> QED BY <3>2, <3>4
  <2> QED BY <1>9, <2>3, <2>4, <2>5
<1>11. t \in Seq(S) /\ Len(t) = n + 1
  BY <1>15, <1>16
<1>12. ASSUME NEW k \in 1..(n + 1)
       PROVE  t[k] = IF k < i THEN s[k] ELSE IF k = i THEN x ELSE s[k - 1]
  <2>2. CASE k <= i
    <3>1. k \in 1..i /\ (~ (k < i) <=> k = i)
      BY <1>1, <2>2
    <3> QED BY <1>8, <1>16, <2>2, <3>1
  <2>3. CASE ~ (k <= i)
    <3>1. PICK j \in 1..p : j = k - i
      BY <1>1, <1>15, <2>3
    <3>2. t[i + j] = b[j] /\ b[j] = s[i + j - 1]
      BY <1>5, <1>15, <1>16, <3>1
    <3>3. i + j = k /\ i + j - 1 = k - 1 /\ ~ (k < i) /\ k # i
      BY <1>1, <2>3, <3>1
    <3> QED BY <3>2, <3>3
  <2> QED BY <2>2, <2>3
<1>13. PutIn(S, s, i, x, t)
  BY <1>1, <1>11, <1>12 DEF PutIn
<1> QED BY <1>10, <1>13

\* ... and the one there is taken out.
LEMMA RemoveAtIs ==
    ASSUME NEW S, NEW s \in Seq(S), NEW i \in 1..Len(s)
    PROVE  LET t == RemoveAt(s, i)
           IN /\ t \in Seq(S) /\ Len(t) = Len(s) - 1
              /\ \A k \in 1..(Len(s) - 1) : t[k] = IF k < i THEN s[k] ELSE s[k + 1]
<1>1. PICK n \in Nat : n = Len(s) /\ DOMAIN s = 1..n /\ \A k \in 1..n : s[k] \in S
  OBVIOUS
<1>2. PICK a : a = SubSeq(s, 1, i - 1)
  OBVIOUS
<1>3. PICK b : b = SubSeq(s, i + 1, n)
  OBVIOUS
<1>4. a \in Seq(S) /\ Len(a) = i - 1 /\ \A k \in 1..(i - 1) : a[k] = s[k]
  <2>1. i - 1 \in 0..n /\ \A k \in 1..(i - 1) : k \in 1..n
    BY <1>1
  <2> QED BY <1>1, <1>2, <2>1, SubSeqProperties
<1>5. b \in Seq(S) /\ Len(b) = n - i /\ \A k \in 1..(n - i) : b[k] = s[i + k]
  <2>1. \A k \in (i + 1)..n : k \in 1..n
    BY <1>1
  <2>2. i + 1 \in 1..(n + 1) /\ n - (i + 1) + 1 = n - i /\ \A k \in 1..(n - i) : (i + 1) + k - 1 = i + k
    BY <1>1
  <2> QED BY <1>1, <1>3, <2>1, <2>2, SubSeqProperties
<1>6. PICK t : t = a \o b /\ t = RemoveAt(s, i)
  BY <1>1, <1>2, <1>3 DEF RemoveAt
<1>11. PICK p \in Nat : p = i - 1
  BY <1>1
<1>12. n - i \in Nat /\ p + (n - i) = n - 1
  BY <1>1, <1>11
<1>9. PICK r \in Nat : r = n - i /\ p + r = n - 1
  BY <1>12
<1>10. /\ t \in Seq(S) /\ Len(t) = p + r
       /\ \A k \in 1..p : t[k] = a[k]
       /\ \A k \in 1..r : t[p + k] = b[k]
  <2>1. Len(a) = p /\ a \in Seq(S) /\ Len(b) = r /\ b \in Seq(S)
    BY <1>4, <1>5, <1>9, <1>11
  <2>2. t = a \o b
    BY <1>6
  <2>3. p \in Nat /\ r \in Nat
    OBVIOUS
  <2>4. a \o b \in Seq(S) /\ Len(a \o b) = p + r
    BY <2>1, <2>3, ConcatIs
  <2>5. \A k \in 1..p : (a \o b)[k] = a[k]
    BY <2>1, <2>3, ConcatIs
  <2>6. ASSUME NEW k \in 1..r
        PROVE  (a \o b)[p + k] = b[k]
    <3>1. k \in 1..Len(b)
      BY <2>1
    <3>2. PICK j : j = p + k
      OBVIOUS
    <3>3. j = Len(a) + k
      BY <2>1, <3>2
    <3>4. (a \o b)[j] = b[k]
      BY <2>1, <3>1, <3>3, ConcatAfter
    <3> QED BY <3>2, <3>4
  <2> QED BY <2>2, <2>4, <2>5, <2>6
<1>7. t \in Seq(S) /\ Len(t) = n - 1
  BY <1>9, <1>10
<1>8. ASSUME NEW k \in 1..(n - 1)
      PROVE  t[k] = IF k < i THEN s[k] ELSE s[k + 1]
  <2>2. CASE k < i
    <3>1. k \in 1..(i - 1) /\ k \in 1..p
      BY <1>1, <1>11, <2>2
    <3> QED BY <1>4, <1>10, <2>2, <3>1
  <2>3. CASE ~ (k < i)
    <3>1. PICK j \in 1..r : j = k - p
      BY <1>1, <1>9, <1>11, <2>3
    <3>4. j \in 1..(n - i)
      BY <1>9
    <3>2. t[p + j] = b[j] /\ b[j] = s[i + j]
      BY <1>5, <1>10, <3>4
    <3>3. p + j = k /\ i + j = k + 1
      BY <1>1, <1>11, <3>1
    <3> QED BY <2>3, <3>2, <3>3
  <2> QED BY <2>2, <2>3
<1> QED BY <1>1, <1>6, <1>7, <1>8

\* Lists without duplicates of the same elements are as long as one another.
LEMMA SameLength ==
    ASSUME NEW S, NEW s \in Seq(S), NEW T, NEW t \in Seq(T),
           IsInjective(s), IsInjective(t), ToSet(s) = ToSet(t)
    PROVE  Len(s) = Len(t)
<1>1. ASSUME NEW Q, NEW q \in Seq(Q), IsInjective(q)
      PROVE  Cardinality(ToSet(q)) = Len(q)
  <2>1. PICK n \in Nat : n = Len(q) /\ DOMAIN q = 1..n
    OBVIOUS
  <2>2. PICK D : D = 1..n
    OBVIOUS
  <2>3. PICK R : R = ToSet(q)
    OBVIOUS
  <2>4. q \in Bijection(D, R)
    <3>1. q \in [D -> R] /\ \A x \in R : \E i \in D : q[i] = x
      BY <2>1, <2>2, <2>3 DEF ToSet
    <3>2. \A i, j \in D : q[i] = q[j] => i = j
      BY <1>1, <2>1, <2>2 DEF IsInjective
    <3> QED BY <3>1, <3>2 DEF Bijection, Injection, Surjection, IsInjective
  <2>7. n \in Nat
    OBVIOUS
  <2>5. IsFiniteSet(D) /\ Cardinality(D) = n
    BY <2>2, <2>7, FS_Interval
  <2>6. ExistsBijection(D, R)
    BY <2>4 DEF ExistsBijection
  <2> QED BY <2>1, <2>3, <2>5, <2>6, FS_Bijection
<1>2. Cardinality(ToSet(s)) = Len(s)
  BY <1>1
<1>3. Cardinality(ToSet(t)) = Len(t)
  BY <1>1
<1> QED BY <1>2, <1>3
=============================================================================
