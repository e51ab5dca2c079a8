------------------------------ MODULE DataLemmas ------------------------------
(***************************************************************************)
(* Facts about numbers, sequences and sums that the proofs of several      *)
(* modules use.                                                            *)
(*                                                                         *)
(* The library defines a sum over a finite set by a function that is       *)
(* recursive over the subsets, of which it chooses one element at a time;  *)
(* here is shown that the function exists and that the choice does not     *)
(* matter.                                                                 *)
(***************************************************************************)
EXTENDS Integers, Sequences, FiniteSetsExt, FiniteSetTheorems,
        WellFoundedInduction, TLAPS

\* The sum of the values v[x], for x in S.
SumOver(v, S) == MapThenSumSet(LAMBDA x : v[x], S)

\* The element that the sum takes first.
One(s) == CHOOSE x \in s : TRUE

\* On S the values are the same; they are numbers.
Agree(v, u, S) == \A x \in S : v[x] = u[x]
Numbers(v, S) == \A x \in S : v[x] \in Int

\* The sum over s from the sums g over the sets with one element less.
Value(v, g, s) == IF s = {} THEN 0 ELSE v[One(s)] + g[s \ {One(s)}]

Solves(v, g, S) == g = [s \in SUBSET S |-> Value(v, g, s)]

\* The sequence s without its k-th element.
Without(s, k) == SubSeq(s, 1, k - 1) \o SubSeq(s, k + 1, Len(s))

(***************************************************************************)
(* Induction, with the property given as a set                             *)
(***************************************************************************)
\* Every non-empty set of natural numbers has a least element.
LEMMA LeastNumber ==
    ASSUME NEW T \in SUBSET Nat, T # {}
    PROVE  \E n \in T : \A m \in T : n <= m
  <1> DEFINE R == {ss \in Nat \X Nat : ss[1] < ss[2]}
  <1>1. IsWellFoundedOn(R, Nat)
    BY NatLessThanWellFounded, Zenon DEF OpToRel
  <1>2. \A m, n \in Nat : <<m, n>> \in R <=> m < n
    OBVIOUS
  <1> HIDE DEF R
  <1>3. PICK n \in T : \A m \in T : ~(<<m, n>> \in R)
    BY <1>1, WFMin
  <1>4. ASSUME NEW m \in T PROVE n <= m
    <2>1. m \in Nat /\ n \in Nat
      OBVIOUS
    <2>2. ~(m < n)
      BY <1>2, <1>3, <2>1
    <2>. QED BY <2>1, <2>2
  <1>. QED BY <1>4

\* A set of numbers that holds 0 and is closed under successor holds them all.
LEMMA Induction ==
    ASSUME NEW P \in SUBSET Nat, 0 \in P, \A n \in P : n + 1 \in P
    PROVE  \A n \in Nat : n \in P
  <1> SUFFICES ASSUME Nat \ P # {} PROVE FALSE
    OBVIOUS
  <1>1. PICK n \in Nat \ P : \A m \in Nat \ P : n <= m
    BY LeastNumber
  <1>. QED BY <1>1

(***************************************************************************)
(* Numbers and sequences                                                   *)
(***************************************************************************)
\* A set of natural numbers that is not empty has a least element, and Min is it.
LEMMA MinBelow ==
    ASSUME NEW N \in Nat, NEW S, S \subseteq 0 .. N, S # {}
    PROVE  Min(S) \in S /\ \A y \in S : Min(S) <= y
  <1>1. S \in SUBSET Nat
    OBVIOUS
  <1>2. PICK x \in S : \A y \in S : x <= y
    BY <1>1, LeastNumber
  <1>. QED BY <1>2, Zenon DEF Min

\* A sum below SIZE_MOD does not wrap.
LEMMA ModSmall ==
    ASSUME NEW a \in Nat, NEW m \in Nat, a < m
    PROVE  a % m = a
OBVIOUS

\* The MAX of mm_malloc.
LEMMA LargerOfTwo ==
    ASSUME NEW a \in Nat, NEW b \in Nat
    PROVE  /\ Max({a, b}) \in {a, b}
           /\ Max({a, b}) >= a /\ Max({a, b}) >= b
<1>1. \E x \in {a, b} : \A y \in {a, b} : x >= y
  OBVIOUS
<1>. QED
  BY <1>1 DEF Max

\* The elements of a part of a sequence.
LEMMA SubSeqIs ==
    ASSUME NEW T, NEW s \in Seq(T), NEW m \in 1 .. Len(s) + 1, NEW n \in 0 .. Len(s),
           n >= m - 1
    PROVE  /\ SubSeq(s, m, n) \in Seq(T) /\ Len(SubSeq(s, m, n)) = n - m + 1
           /\ \A i \in 1 .. n - m + 1 : SubSeq(s, m, n)[i] = s[m + i - 1]
  <1>1. SubSeq(s, m, n) \in Seq(T)
    OBVIOUS
  <1>2. Len(SubSeq(s, m, n)) = n - m + 1
    OBVIOUS
  <1>3. \A i \in 1 .. n - m + 1 : SubSeq(s, m, n)[i] = s[m + i - 1]
    OBVIOUS
  <1>. QED BY <1>1, <1>2, <1>3

\* The elements of two sequences, one after the other.
LEMMA ConcatIs ==
    ASSUME NEW T, NEW u \in Seq(T), NEW v \in Seq(T)
    PROVE  /\ u \o v \in Seq(T) /\ Len(u \o v) = Len(u) + Len(v)
           /\ \A i \in 1 .. Len(u) + Len(v) :
                 (u \o v)[i] = IF i <= Len(u) THEN u[i] ELSE v[i - Len(u)]
  <1>1. u \o v \in Seq(T)
    OBVIOUS
  <1>2. Len(u \o v) = Len(u) + Len(v)
    OBVIOUS
  <1>3. ASSUME NEW i \in 1 .. Len(u) + Len(v), i <= Len(u)
        PROVE  (u \o v)[i] = u[i]
    BY <1>3
  <1>4. ASSUME NEW i \in 1 .. Len(u) + Len(v), ~(i <= Len(u))
        PROVE  (u \o v)[i] = v[i - Len(u)]
    BY <1>4
  <1>. QED BY <1>1, <1>2, <1>3, <1>4

\* A new element at the end of a sequence of distinct elements keeps them distinct.
LEMMA AppendFresh ==
    ASSUME NEW T, NEW s \in Seq(T), NEW e \in T, IsInjective(s), e \notin Range(s)
    PROVE  /\ Append(s, e) \in Seq(T)
           /\ IsInjective(Append(s, e))
           /\ Range(Append(s, e)) = Range(s) \cup {e}
<1> DEFINE t == Append(s, e)
           n == Len(s)
<1>1. /\ t \in Seq(T)
      /\ \A k \in 1 .. n : t[k] = s[k]
      /\ t[n + 1] = e
      /\ DOMAIN t = 1 .. n + 1 /\ DOMAIN s = 1 .. n /\ n \in Nat
  OBVIOUS
<1> HIDE DEF t, n
<1>2. \A k \in 1 .. n : t[k] # e
  BY <1>1 DEF Range
<1>3. \A i, j \in 1 .. n : t[i] = t[j] => i = j
  BY <1>1 DEF IsInjective
<1>4. IsInjective(t)
  <2> SUFFICES ASSUME NEW a \in 1 .. n + 1, NEW b \in 1 .. n + 1, t[a] = t[b]
               PROVE  a = b
    BY <1>1 DEF IsInjective
  <2>1. (a \in 1 .. n \/ a = n + 1) /\ (b \in 1 .. n \/ b = n + 1)
    BY <1>1
  <2>. QED  BY <1>1, <1>2, <1>3, <2>1, Zenon
<1>5. Range(t) = Range(s) \cup {e}
  <2>1. \A k \in 1 .. n + 1 : t[k] \in Range(s) \cup {e}
    <3> SUFFICES ASSUME NEW k \in 1 .. n + 1 PROVE t[k] \in Range(s) \cup {e}
      OBVIOUS
    <3>1. k \in 1 .. n \/ k = n + 1
      BY <1>1
    <3>. QED  BY <1>1, <3>1 DEF Range
  <2>2. ASSUME NEW k \in 1 .. n PROVE s[k] \in Range(t)
    <3>1. k \in DOMAIN t /\ t[k] = s[k]
      BY <1>1
    <3>. QED  BY <3>1, Zenon DEF Range
  <2>3. e \in Range(t)
    <3>1. n + 1 \in DOMAIN t
      BY <1>1
    <3>. QED  BY <1>1, <3>1, Zenon DEF Range
  <2>. QED  BY <1>1, <2>1, <2>2, <2>3, Zenon DEF Range
<1>. QED
  BY <1>1, <1>4, <1>5 DEF t

\* The elements before the k-th stay where they are, the others move up.
LEMMA WithoutIs ==
    ASSUME NEW S, NEW s \in Seq(S), NEW k \in 1 .. Len(s)
    PROVE  /\ Without(s, k) \in Seq(S) /\ Len(Without(s, k)) = Len(s) - 1
           /\ \A i \in 1 .. k - 1 : Without(s, k)[i] = s[i]
           /\ \A i \in k .. Len(s) - 1 : Without(s, k)[i] = s[i + 1]
  <1> DEFINE n == Len(s)
             u == SubSeq(s, 1, k - 1)
             v == SubSeq(s, k + 1, n)
             t == u \o v
  <1>1. n \in Nat /\ k \in 1 .. n
    OBVIOUS
  <1>2. Without(s, k) = t
    BY DEF Without
  <1>3. u \in Seq(S) /\ Len(u) = k - 1 /\ \A i \in 1 .. k - 1 : u[i] = s[i]
    <2>1. k - 1 \in 0 .. Len(s) /\ 1 \in 1 .. Len(s) + 1 /\ k - 1 >= 1 - 1
          /\ (k - 1) - 1 + 1 = k - 1 /\ \A i \in 1 .. k - 1 : 1 + i - 1 = i
      BY <1>1
    <2>. QED BY <2>1, SubSeqIs
  <1>4. v \in Seq(S) /\ Len(v) = n - k /\ \A i \in 1 .. n - k : v[i] = s[k + i]
    <2>1. PICK m \in 1 .. n + 1 : m = k + 1
      BY <1>1
    <2>2. n \in 0 .. Len(s) /\ n >= m - 1
      BY <1>1, <2>1
    <2>3. /\ SubSeq(s, m, n) \in Seq(S) /\ Len(SubSeq(s, m, n)) = n - m + 1
          /\ \A i \in 1 .. n - m + 1 : SubSeq(s, m, n)[i] = s[m + i - 1]
      BY <2>2, SubSeqIs, Zenon
    <2>4. v = SubSeq(s, m, n)
      BY <2>1
    <2> HIDE DEF v, n
    <2>5. n - m + 1 = n - k
      BY <1>1, <2>1
    <2>6. \A i \in 1 .. n - k : m + i - 1 = k + i
      BY <1>1, <2>1
    <2>. QED BY <2>3, <2>4, <2>5, <2>6
  <1> HIDE DEF n, u, v
  <1>5. /\ t \in Seq(S) /\ Len(t) = Len(u) + Len(v)
        /\ \A i \in 1 .. Len(u) + Len(v) :
              t[i] = IF i <= Len(u) THEN u[i] ELSE v[i - Len(u)]
    BY <1>3, <1>4, ConcatIs, Zenon
  <1> HIDE DEF t
  <1>6. Len(t) = n - 1 /\ Len(u) + Len(v) = n - 1
    BY <1>1, <1>3, <1>4, <1>5
  <1>7. ASSUME NEW i \in 1 .. k - 1 PROVE t[i] = s[i]
    <2>1. i \in 1 .. n - 1 /\ i <= k - 1
      BY <1>1
    <2>. QED BY <1>3, <1>5, <1>6, <2>1
  <1>8. ASSUME NEW i \in k .. n - 1 PROVE t[i] = s[i + 1]
    <2>1. i \in 1 .. n - 1 /\ ~(i <= k - 1) /\ i - (k - 1) \in 1 .. n - k
          /\ k + (i - (k - 1)) = i + 1
      BY <1>1
    <2>2. t[i] = v[i - (k - 1)]
      BY <1>3, <1>5, <1>6, <2>1
    <2>. QED BY <1>4, <2>1, <2>2
  <1>. QED BY <1>2, <1>5, <1>6, <1>7, <1>8 DEF n

\* A sequence of distinct elements without its k-th: that element is gone, and
\* no other.
LEMMA DropOne ==
    ASSUME NEW T, NEW s \in Seq(T), IsInjective(s), NEW k \in 1 .. Len(s)
    PROVE  /\ Without(s, k) \in Seq(T) /\ IsInjective(Without(s, k))
           /\ Range(Without(s, k)) = Range(s) \ {s[k]}
<1> DEFINE n == Len(s)
           e == s[k]
           t == Without(s, k)
<1>1. DOMAIN s = 1 .. n /\ n \in Nat /\ k \in 1 .. n
  OBVIOUS
<1>2. s[k] = e
  OBVIOUS
<1>3. /\ t \in Seq(T) /\ Len(t) = n - 1
      /\ \A i \in 1 .. k - 1 : t[i] = s[i]
      /\ \A i \in k .. n - 1 : t[i] = s[i + 1]
  BY WithoutIs
<1> HIDE DEF n, e, t
<1>4. DOMAIN t = 1 .. n - 1
  BY <1>3
<1>5. \A i \in 1 .. k - 1 : i \in 1 .. n - 1
  BY <1>1
<1>6. \A i, j \in 1 .. n : s[i] = s[j] => i = j
  BY <1>1 DEF IsInjective
<1>7. \A i \in 1 .. n - 1 :
          \/ i \in 1 .. k - 1 /\ i \in 1 .. n
          \/ i \in k .. n - 1 /\ i + 1 \in 1 .. n
  BY <1>1
<1>8. IsInjective(t)
  <2> SUFFICES ASSUME NEW a \in 1 .. n - 1, NEW b \in 1 .. n - 1, t[a] = t[b]
               PROVE  a = b
    BY <1>4 DEF IsInjective
  <2> DEFINE at(i) == IF i < k THEN i ELSE i + 1
  <2>1. \A i \in 1 .. n - 1 : t[i] = s[at(i)] /\ at(i) \in 1 .. n
    BY <1>1, <1>3, <1>7
  <2>2. s[at(a)] = s[at(b)]
    BY <2>1
  <2>3. at(a) = at(b)
    BY <1>6, <2>1, <2>2
  <2>. QED  BY <1>1, <2>3
<1>9. Range(t) = Range(s) \ {e}
  <2>1. ASSUME NEW i \in 1 .. n - 1 PROVE t[i] \in Range(s) \ {e}
    <3>1. CASE i \in 1 .. k - 1
      BY <1>1, <1>2, <1>3, <1>6, <1>7, <3>1 DEF Range
    <3>2. CASE i \in k .. n - 1
      <4>1. i + 1 \in 1 .. n /\ i + 1 # k
        BY <1>1, <3>2
      <4>2. t[i] = s[i + 1] /\ k \in 1 .. n
        BY <1>1, <1>3, <3>2
      <4>3. s[i + 1] # e
        BY <1>2, <1>6, <4>1, <4>2
      <4>. QED  BY <1>1, <4>1, <4>2, <4>3 DEF Range
    <3>. QED  BY <1>7, <3>1, <3>2
  <2>2. ASSUME NEW j \in 1 .. n, s[j] # e PROVE s[j] \in Range(t)
    <3>1. CASE j < k
      <4>1. j \in 1 .. k - 1
        BY <3>1
      <4>. QED  BY <1>3, <1>4, <1>5, <4>1 DEF Range
    <3>2. CASE j > k
      <4>1. j - 1 \in k .. n - 1 /\ j - 1 \in 1 .. n - 1 /\ (j - 1) + 1 = j
        BY <1>1, <3>2
      <4>2. t[j - 1] = s[j]
        BY <1>3, <4>1
      <4>. QED  BY <1>4, <4>1, <4>2 DEF Range
    <3>3. j # k
      BY <1>2, <2>2
    <3>. QED  BY <3>1, <3>2, <3>3
  <2>3. Range(t) \subseteq Range(s) \ {e}
    BY <1>4, <2>1 DEF Range
  <2>4. Range(s) \ {e} \subseteq Range(t)
    BY <1>1, <2>2 DEF Range
  <2>. QED  BY <2>3, <2>4
<1>. QED
  BY <1>3, <1>8, <1>9 DEF t, e

(***************************************************************************)
(* The recursive function inside a sum                                     *)
(***************************************************************************)
\* The numbers of elements of a finite set's subset and of that subset with
\* one element less.
LEMMA OneLess ==
    ASSUME NEW S, IsFiniteSet(S), NEW s \in SUBSET S, NEW x \in s
    PROVE  /\ IsFiniteSet(s) /\ Cardinality(s) \in Nat
           /\ Cardinality(s \ {x}) = Cardinality(s) - 1
           /\ Cardinality(s \ {x}) \in Nat
  <1>1. IsFiniteSet(s) /\ IsFiniteSet(s \ {x})
    BY FS_Subset
  <1>2. Cardinality(s) \in Nat /\ Cardinality(s \ {x}) \in Nat
    BY <1>1, FS_CardinalityType
  <1>3. Cardinality(s \ {x}) = Cardinality(s) - 1
    BY <1>1, FS_RemoveElement
  <1>. QED BY <1>1, <1>2, <1>3

\* Two functions that satisfy the equation for the same values agree where
\* both are defined.
LEMMA SolutionUnique ==
    ASSUME NEW S, IsFiniteSet(S), NEW T \in SUBSET S,
           NEW v, NEW u, Agree(v, u, T),
           NEW g, Solves(v, g, S), NEW h, Solves(u, h, T)
    PROVE  \A s \in SUBSET T : g[s] = h[s]
  <1> DEFINE P == {n \in Nat : \A s \in SUBSET T : Cardinality(s) = n => g[s] = h[s]}
  <1>1. \A s \in SUBSET T : g[s] = Value(v, g, s) /\ h[s] = Value(u, h, s)
    BY DEF Solves
  <1>2. \A s \in SUBSET T : IsFiniteSet(s) /\ Cardinality(s) \in Nat
    BY FS_Subset, FS_CardinalityType
  <1>3. ASSUME NEW s \in SUBSET T, s # {}, g[s \ {One(s)}] = h[s \ {One(s)}]
        PROVE  g[s] = h[s]
    <2>1. v[One(s)] = u[One(s)]
      BY <1>3 DEF One, Agree
    <2>. QED BY <1>1, <1>3, <2>1 DEF Value
  <1>4. 0 \in P
    <2>1. ASSUME NEW s \in SUBSET T, Cardinality(s) = 0 PROVE g[s] = h[s]
      <3>1. s = {}
        BY <1>2, <2>1, FS_EmptySet
      <3>. QED BY <1>1, <3>1 DEF Value
    <2>. QED BY <2>1
  <1>5. ASSUME NEW n \in P PROVE n + 1 \in P
    <2>1. ASSUME NEW s \in SUBSET T, Cardinality(s) = n + 1 PROVE g[s] = h[s]
      <3>1. s # {}
        BY <1>2, <2>1, FS_EmptySet
      <3>2. One(s) \in s
        BY <3>1 DEF One
      <3>3. Cardinality(s \ {One(s)}) = n
        BY <2>1, <3>2, OneLess
      <3>. QED BY <1>3, <1>5, <3>1, <3>3
    <2>. QED BY <1>5, <2>1
  <1> HIDE DEF P
  <1>6. \A n \in Nat : n \in P
    <2>1. P \in SUBSET Nat
      BY DEF P
    <2>. QED BY <1>4, <1>5, <2>1, Induction
  <1>. QED BY <1>2, <1>6 DEF P

\* There is a function that satisfies the equation: it is built for the sets
\* of at most n elements, one number of elements after the other.
LEMMA SolutionExists ==
    ASSUME NEW v, NEW S, IsFiniteSet(S)
    PROVE  \E g : Solves(v, g, S)
  <1> DEFINE Small(n) == {s \in SUBSET S : Cardinality(s) <= n}
             Partial(g, n) == g = [s \in Small(n) |-> Value(v, g, s)]
             P == {n \in Nat : \E g : Partial(g, n)}
  <1>1. \A s \in SUBSET S : IsFiniteSet(s) /\ Cardinality(s) \in Nat
    BY FS_Subset, FS_CardinalityType
  <1>2. 0 \in P
    <2>1. \A s \in Small(0) : s = {}
      BY <1>1, FS_EmptySet
    <2> DEFINE g == [s \in Small(0) |-> 0]
    <2>2. \A s \in Small(0) : Value(v, g, s) = 0
      BY <2>1 DEF Value
    <2>3. Partial(g, 0)
      BY <2>2
    <2>. QED BY <2>3
  <1>3. ASSUME NEW n \in P PROVE n + 1 \in P
    <2>1. PICK g : Partial(g, n)
      BY <1>3
    <2> DEFINE h == [s \in Small(n + 1) |-> Value(v, g, s)]
    <2>2. \A s \in Small(n) : s \in Small(n + 1) /\ g[s] = Value(v, g, s)
      BY <1>1, <1>3, <2>1
    <2>3. \A s \in Small(n) : h[s] = g[s]
      BY <2>2
    <2>4. ASSUME NEW s \in Small(n + 1), s # {} PROVE s \ {One(s)} \in Small(n)
      <3>1. One(s) \in s
        BY <2>4 DEF One
      <3>2. Cardinality(s \ {One(s)}) = Cardinality(s) - 1 /\ Cardinality(s) \in Nat
        BY <3>1, OneLess
      <3>. QED BY <1>3, <3>2
    <2>5. \A s \in Small(n + 1) : Value(v, g, s) = Value(v, h, s)
      <3> HIDE DEF h, Small
      <3>. QED BY <2>3, <2>4 DEF Value
    <2>6. Partial(h, n + 1)
      BY <2>5
    <2>7. \E k : Partial(k, n + 1)
      BY <2>6
    <2>8. n + 1 \in Nat
      BY <1>3
    <2> HIDE DEF h, Partial
    <2>. QED BY <2>7, <2>8
  <1>4. Cardinality(S) \in P
    <2>1. P \in SUBSET Nat /\ Cardinality(S) \in Nat
      BY <1>1
    <2> HIDE DEF P
    <2>. QED BY <1>2, <1>3, <2>1, Induction
  <1>5. Small(Cardinality(S)) = SUBSET S
    BY <1>1, FS_Subset
  <1>. QED BY <1>4, <1>5 DEF Solves

\* A sum is the value of the element that is taken first and the sum of the rest.
THEOREM SumStep ==
    ASSUME NEW v, NEW S, IsFiniteSet(S)
    PROVE  SumOver(v, S) = IF S = {} THEN 0 ELSE v[One(S)] + SumOver(v, S \ {One(S)})
  <1> DEFINE F(T) == CHOOSE g : Solves(v, g, T)
  <1>1. ASSUME NEW T PROVE SumOver(v, T) = F(T)[T]
    BY DEF SumOver, MapThenSumSet, MapThenFoldSet, Solves, Value, One
  <1>2. ASSUME NEW T \in SUBSET S PROVE Solves(v, F(T), T)
    <2>1. IsFiniteSet(T)
      BY FS_Subset
    <2>. QED BY <2>1, SolutionExists
  <1>3. F(S)[S] = Value(v, F(S), S)
    <2>1. Solves(v, F(S), S)
      BY <1>2
    <2> HIDE DEF F
    <2>. QED BY <2>1 DEF Solves
  <1>4. CASE S = {}
    BY <1>1, <1>3, <1>4 DEF Value
  <1>5. CASE S # {}
    <2> DEFINE T == S \ {One(S)}
    <2>1. Solves(v, F(S), S) /\ Solves(v, F(T), T) /\ T \in SUBSET S
      BY <1>2
    <2> HIDE DEF F
    <2>2. F(S)[T] = F(T)[T]
      <3>1. Agree(v, v, T) /\ T \in SUBSET T
        BY DEF Agree
      <3>. QED BY <2>1, <3>1, SolutionUnique
    <2>3. SumOver(v, T) = F(T)[T] /\ SumOver(v, S) = F(S)[S]
      BY <1>1
    <2>. QED BY <1>3, <1>5, <2>2, <2>3 DEF Value
  <1>. QED BY <1>4, <1>5

\* A sum looks at the values of its own elements only.
THEOREM SumSame ==
    ASSUME NEW v, NEW u, NEW S, IsFiniteSet(S), Agree(v, u, S)
    PROVE  SumOver(v, S) = SumOver(u, S)
  <1> DEFINE F(z) == CHOOSE g : Solves(z, g, S)
  <1>1. SumOver(v, S) = F(v)[S] /\ SumOver(u, S) = F(u)[S]
    BY DEF SumOver, MapThenSumSet, MapThenFoldSet, Solves, Value, One
  <1>2. Solves(v, F(v), S) /\ Solves(u, F(u), S)
    BY SolutionExists
  <1>3. ASSUME NEW g, NEW h, Solves(v, g, S), Solves(u, h, S) PROVE g[S] = h[S]
    <2>1. S \in SUBSET S
      OBVIOUS
    <2>2. \A s \in SUBSET S : g[s] = h[s]
      BY <1>3, <2>1, SolutionUnique
    <2>. QED BY <2>1, <2>2
  <1>. QED BY <1>1, <1>2, <1>3

\* A sum of integers is an integer.
THEOREM SumType ==
    ASSUME NEW v, NEW S, IsFiniteSet(S), Numbers(v, S)
    PROVE  SumOver(v, S) \in Int
  <1> DEFINE P == {n \in Nat : \A s \in SUBSET S : Cardinality(s) = n => SumOver(v, s) \in Int}
  <1>1. \A s \in SUBSET S : IsFiniteSet(s) /\ Cardinality(s) \in Nat
    BY FS_Subset, FS_CardinalityType
  <1>2. 0 \in P
    <2>1. ASSUME NEW s \in SUBSET S, Cardinality(s) = 0 PROVE SumOver(v, s) \in Int
      <3>1. s = {}
        BY <1>1, <2>1, FS_EmptySet
      <3>2. SumOver(v, s) = 0
        BY <1>1, <3>1, SumStep
      <3>. QED BY <3>2
    <2>. QED BY <2>1
  <1>3. ASSUME NEW n \in P PROVE n + 1 \in P
    <2>1. ASSUME NEW s \in SUBSET S, Cardinality(s) = n + 1 PROVE SumOver(v, s) \in Int
      <3>1. s # {}
        BY <1>1, <1>3, <2>1, FS_EmptySet
      <3>2. One(s) \in s
        BY <3>1 DEF One
      <3>3. Cardinality(s \ {One(s)}) = n
        BY <1>3, <2>1, <3>2, OneLess
      <3>4. SumOver(v, s \ {One(s)}) \in Int
        BY <1>3, <3>3
      <3>5. SumOver(v, s) = v[One(s)] + SumOver(v, s \ {One(s)})
        BY <1>1, <3>1, SumStep
      <3>6. v[One(s)] \in Int
        BY <3>2 DEF Numbers
      <3>. QED BY <3>4, <3>5, <3>6
    <2>. QED BY <1>3, <2>1
  <1>4. P \in SUBSET Nat
    OBVIOUS
  <1> HIDE DEF P
  <1>5. Cardinality(S) \in P
    BY <1>1, <1>2, <1>3, <1>4, Induction
  <1>. QED BY <1>5 DEF P

\* Any element may be taken out of the sum first.
THEOREM SumTakeAny ==
    ASSUME NEW v, NEW S, IsFiniteSet(S), Numbers(v, S), NEW x \in S
    PROVE  SumOver(v, S) = v[x] + SumOver(v, S \ {x})
  <1> DEFINE P == {n \in Nat : \A s \in SUBSET S : \A y \in s :
                      Cardinality(s) = n => SumOver(v, s) = v[y] + SumOver(v, s \ {y})}
  <1>1. \A s \in SUBSET S : IsFiniteSet(s) /\ Cardinality(s) \in Nat
                            /\ SumOver(v, s) \in Int
    <2> TAKE s \in SUBSET S
    <2>1. IsFiniteSet(s) /\ Cardinality(s) \in Nat
      BY FS_Subset, FS_CardinalityType
    <2>2. Numbers(v, s)
      BY DEF Numbers
    <2>. QED BY <2>1, <2>2, SumType
  <1>2. 0 \in P
    <2>1. ASSUME NEW s \in SUBSET S, NEW y \in s, Cardinality(s) = 0 PROVE FALSE
      BY <1>1, <2>1, FS_EmptySet
    <2>. QED BY <2>1
  <1>3. ASSUME NEW n \in P PROVE n + 1 \in P
    <2>1. ASSUME NEW s \in SUBSET S, NEW y \in s, Cardinality(s) = n + 1
          PROVE  SumOver(v, s) = v[y] + SumOver(v, s \ {y})
      <3> DEFINE c == One(s)
      <3>1. c \in s
        BY <2>1 DEF One
      <3>2. SumOver(v, s) = v[c] + SumOver(v, s \ {c})
        BY <1>1, <2>1, SumStep
      <3>3. CASE y = c
        BY <3>2, <3>3
      <3>4. CASE y # c
        <4> HIDE DEF c
        <4> DEFINE r == (s \ {c}) \ {y}
        <4>1. Cardinality(s \ {c}) = n /\ Cardinality(s \ {y}) = n
          BY <1>3, <2>1, <3>1, OneLess
        <4>2. SumOver(v, s \ {c}) = v[y] + SumOver(v, (s \ {c}) \ {y})
          BY <1>3, <3>4, <4>1
        <4>3. SumOver(v, s \ {y}) = v[c] + SumOver(v, (s \ {y}) \ {c})
          BY <1>3, <3>1, <3>4, <4>1
        <4>4. (s \ {y}) \ {c} = r /\ r \in SUBSET S
          OBVIOUS
        <4>5. v[c] \in Int /\ v[y] \in Int /\ SumOver(v, r) \in Int
          BY <1>1, <3>1, <4>4 DEF Numbers
        <4> HIDE DEF r
        <4>6. /\ SumOver(v, s \ {c}) = v[y] + SumOver(v, r)
              /\ SumOver(v, s \ {y}) = v[c] + SumOver(v, r)
          BY <4>2, <4>3, <4>4 DEF r
        <4>7. v[c] + (v[y] + SumOver(v, r)) = v[y] + (v[c] + SumOver(v, r))
          BY <4>5
        <4>. QED BY <3>2, <4>6, <4>7
      <3>. QED BY <3>3, <3>4
    <2>. QED BY <1>3, <2>1
  <1>4. P \in SUBSET Nat
    OBVIOUS
  <1> HIDE DEF P
  <1>5. Cardinality(S) \in P
    BY <1>1, <1>2, <1>3, <1>4, Induction
  <1>. QED BY <1>5 DEF P

\* The sum over no elements.
LEMMA SumEmpty ==
    ASSUME NEW v
    PROVE  SumOver(v, {}) = 0
BY FS_EmptySet, SumStep

\* The same, with the types of the numbers.
LEMMA SumTake ==
    ASSUME NEW v, NEW S, IsFiniteSet(S), Numbers(v, S), NEW x \in S
    PROVE  /\ SumOver(v, S) \in Int /\ SumOver(v, S \ {x}) \in Int
           /\ SumOver(v, S) = v[x] + SumOver(v, S \ {x})
<1>1. IsFiniteSet(S \ {x})
  BY FS_Subset
<1>2. Numbers(v, S \ {x})
  BY DEF Numbers
<1>3. SumOver(v, S) \in Int
  BY SumType
<1>4. SumOver(v, S \ {x}) \in Int
  BY <1>1, <1>2, SumType
<1>. QED
  BY <1>3, <1>4, SumTakeAny

\* The sum after the value at x is set, for x in S or not.
LEMMA SumPut ==
    ASSUME NEW v, NEW u, NEW S, IsFiniteSet(S), Numbers(v, S), NEW x, u[x] \in Int,
           Agree(u, v, S \ {x})
    PROVE  /\ IsFiniteSet(S \cup {x}) /\ Numbers(u, S \cup {x})
           /\ SumOver(u, S \cup {x}) =
                 SumOver(v, S) + u[x] - (IF x \in S THEN v[x] ELSE 0)
<1> DEFINE T == S \cup {x}
           R == S \ {x}
<1>1. IsFiniteSet(R) /\ IsFiniteSet(T)
  BY FS_Subset, FS_AddElement
<1>2. Numbers(u, T) /\ Numbers(v, R) /\ \A y \in R : u[y] = v[y]
  BY DEF Numbers, Agree
<1>3. SumOver(u, T) = u[x] + SumOver(u, R)
  <2>1. T \ {x} = R /\ x \in T
    OBVIOUS
  <2> HIDE DEF T, R
  <2>. QED  BY <1>1, <1>2, <2>1, SumTake
<1>4. SumOver(u, R) = SumOver(v, R) /\ SumOver(v, R) \in Int
  BY <1>1, <1>2, SumSame, SumType DEF Agree
<1>5. CASE x \in S
  <2>1. SumOver(v, S) = v[x] + SumOver(v, R) /\ v[x] \in Int
    BY <1>5, SumTake DEF Numbers
  <2> HIDE DEF R, T
  <2>2. SumOver(u, T) = SumOver(v, S) + u[x] - v[x]
    BY <1>3, <1>4, <2>1
  <2>. QED  BY <1>1, <1>2, <1>5, <2>2 DEF T
<1>6. CASE x \notin S
  <2>1. R = S
    BY <1>6
  <2> HIDE DEF R, T
  <2>2. SumOver(u, T) = SumOver(v, S) + u[x] - 0
    BY <1>3, <1>4, <2>1
  <2>. QED  BY <1>1, <1>2, <1>6, <2>2 DEF T
<1>. QED
  BY <1>5, <1>6

\* A sum of natural numbers is a natural number.
LEMMA SumNat ==
    ASSUME NEW v, NEW S, IsFiniteSet(S), \A x \in S : v[x] \in Nat
    PROVE  SumOver(v, S) \in Nat
<1> DEFINE P == {n \in Nat : \A T \in SUBSET S :
                    Cardinality(T) = n => SumOver(v, T) \in Nat}
<1>1. 0 \in P
  <2>1. ASSUME NEW T \in SUBSET S, Cardinality(T) = 0
        PROVE  SumOver(v, T) \in Nat
    <3>1. T = {}
      BY <2>1, FS_EmptySet, FS_Subset
    <3>. QED  BY <3>1, SumEmpty
  <2>. QED  BY <2>1
<1>2. ASSUME NEW n \in P PROVE n + 1 \in P
  <2>1. ASSUME NEW T \in SUBSET S, Cardinality(T) = n + 1
        PROVE  SumOver(v, T) \in Nat
    <3>1. IsFiniteSet(T) /\ T # {} /\ n \in Nat
      BY <2>1, FS_EmptySet, FS_Subset
    <3>2. PICK x \in T : TRUE
      BY <3>1
    <3>3. Cardinality(T \ {x}) = n
      <4>1. Cardinality(T \ {x}) = Cardinality(T) - 1
        BY <3>1, FS_RemoveElement
      <4>. QED  BY <2>1, <3>1, <4>1
    <3>4. SumOver(v, T \ {x}) \in Nat
      BY <1>2, <3>3
    <3>5. Numbers(v, T) /\ v[x] \in Nat
      BY DEF Numbers
    <3>6. SumOver(v, T) = v[x] + SumOver(v, T \ {x})
      BY <3>1, <3>5, SumTake
    <3>. QED  BY <3>4, <3>5, <3>6
  <2>2. n + 1 \in Nat
    BY <1>2
  <2>. QED  BY <2>1, <2>2
<1>3. Cardinality(S) \in Nat /\ P \in SUBSET Nat
  BY FS_CardinalityType
<1> HIDE DEF P
<1>4. Cardinality(S) \in P
  BY <1>1, <1>2, <1>3, Induction
<1>. QED
  BY <1>4 DEF P

\* The values on S are numbers from 0 to m.
Bounded(v, S, m) == \A x \in S : v[x] \in 0 .. m

\* So the sum is at most m times their number.
LEMMA SumBound ==
    ASSUME NEW v, NEW S, IsFiniteSet(S), NEW m \in Nat, Bounded(v, S, m)
    PROVE  SumOver(v, S) \in 0 .. m * Cardinality(S)
<1> DEFINE P == {n \in Nat : \A T \in SUBSET S :
                    Cardinality(T) = n => SumOver(v, T) \in 0 .. m * n}
<1>1. 0 \in P
  <2>1. ASSUME NEW T \in SUBSET S, Cardinality(T) = 0
        PROVE  SumOver(v, T) \in 0 .. m * 0
    <3>1. T = {}
      BY <2>1, FS_EmptySet, FS_Subset
    <3>. QED  BY <3>1, SumEmpty
  <2>. QED  BY <2>1
<1>2. ASSUME NEW n \in P PROVE n + 1 \in P
  <2>1. ASSUME NEW T \in SUBSET S, Cardinality(T) = n + 1
        PROVE  SumOver(v, T) \in 0 .. m * (n + 1)
    <3>1. IsFiniteSet(T) /\ T # {} /\ n \in Nat
      BY <2>1, FS_EmptySet, FS_Subset
    <3>2. PICK x \in T : TRUE
      BY <3>1
    <3>3. Cardinality(T \ {x}) = n
      <4>1. Cardinality(T \ {x}) = Cardinality(T) - 1
        BY <3>1, FS_RemoveElement
      <4>. QED  BY <2>1, <3>1, <4>1
    <3>4. SumOver(v, T \ {x}) \in 0 .. m * n
      BY <1>2, <3>3
    <3>5. Numbers(v, T) /\ v[x] \in 0 .. m
      BY DEF Bounded, Numbers
    <3>6. SumOver(v, T) = v[x] + SumOver(v, T \ {x})
      BY <3>1, <3>5, SumTake
    <3>7. m * (n + 1) = m + m * n /\ m * n \in Nat
      BY <3>1
    <3>. QED  BY <3>4, <3>5, <3>6, <3>7
  <2>2. n + 1 \in Nat
    BY <1>2
  <2>. QED  BY <2>1, <2>2
<1>3. Cardinality(S) \in Nat /\ P \in SUBSET Nat
  BY FS_CardinalityType
<1> HIDE DEF P
<1>4. Cardinality(S) \in P
  BY <1>1, <1>2, <1>3, Induction
<1>. QED
  BY <1>4 DEF P

\* The extents [a[x], a[x] + v[x]) start at different addresses, share no byte
\* and lie below m.
Apart(S, a, v, m) ==
    /\ \A x \in S : a[x] \in Nat /\ v[x] \in Nat /\ a[x] + v[x] <= m
    /\ \A x, y \in S : x # y => a[x] # a[y]
    /\ \A x, y \in S : a[x] < a[y] => a[x] + v[x] <= a[y]

\* The sizes of extents that lie apart below m add up to at most m.
LEMMA ApartFit ==
    ASSUME NEW S, IsFiniteSet(S), NEW a, NEW v, NEW m \in Nat, Apart(S, a, v, m)
    PROVE  SumOver(v, S) <= m
<1> DEFINE Below(T, k) == \A x \in T : a[x] + v[x] <= k
           P == {n \in Nat : \A T \in SUBSET S : \A k \in Nat :
                    Cardinality(T) = n /\ Below(T, k) => SumOver(v, T) <= k}
<1>0. /\ \A x \in S : a[x] \in Nat /\ v[x] \in Nat /\ a[x] + v[x] <= m
      /\ \A x, y \in S : x # y => a[x] # a[y]
      /\ \A x, y \in S : a[x] < a[y] => a[x] + v[x] <= a[y]
  BY DEF Apart
<1>1. 0 \in P
  <2>1. ASSUME NEW T \in SUBSET S, NEW k \in Nat, Cardinality(T) = 0
        PROVE  SumOver(v, T) <= k
    <3>1. T = {}
      BY <2>1, FS_EmptySet, FS_Subset
    <3>. QED  BY <3>1, SumEmpty
  <2>. QED  BY <2>1
<1>2. ASSUME NEW n \in P PROVE n + 1 \in P
  <2>1. ASSUME NEW T \in SUBSET S, NEW k \in Nat, Cardinality(T) = n + 1, Below(T, k)
        PROVE  SumOver(v, T) <= k
    <3>1. IsFiniteSet(T) /\ T # {} /\ n \in Nat
      BY <2>1, FS_EmptySet, FS_Subset
    <3>2. PICK x \in T : \A y \in T : a[y] <= a[x]
      <4> DEFINE D == {m - a[y] : y \in T}
      <4>1. D \in SUBSET Nat /\ D # {}
        BY <1>0, <3>1
      <4>2. PICK d \in D : \A e \in D : d <= e
        BY <4>1, LeastNumber
      <4>3. PICK x \in T : d = m - a[x]
        BY <4>2
      <4>4. \A y \in T : m - a[x] <= m - a[y]
        BY <4>2, <4>3
      <4>. QED  BY <1>0, <4>4
    <3>3. Below(T \ {x}, a[x])
      <4> SUFFICES ASSUME NEW y \in T \ {x} PROVE a[y] + v[y] <= a[x]
        OBVIOUS
      <4>1. a[y] <= a[x] /\ a[y] # a[x] /\ a[x] \in Nat /\ a[y] \in Nat
        BY <1>0, <3>2
      <4>. QED  BY <1>0, <4>1
    <3>4. Cardinality(T \ {x}) = n
      <4>1. Cardinality(T \ {x}) = Cardinality(T) - 1
        BY <3>1, FS_RemoveElement
      <4>. QED  BY <2>1, <3>1, <4>1
    <3>5. SumOver(v, T \ {x}) <= a[x]
      <4>1. T \ {x} \in SUBSET S /\ a[x] \in Nat
        BY <1>0, <3>2
      <4>. QED  BY <3>3, <3>4, <4>1
    <3>6. Numbers(v, T)
      BY <1>0 DEF Numbers
    <3>7. SumOver(v, T) = v[x] + SumOver(v, T \ {x}) /\ SumOver(v, T \ {x}) \in Int
      BY <3>1, <3>2, <3>6, SumTake
    <3>8. a[x] + v[x] <= k /\ a[x] \in Nat /\ v[x] \in Nat
      BY <1>0, <2>1, <3>2
    <3>. QED  BY <3>5, <3>7, <3>8
  <2>. QED  BY <2>1
<1>3. \A n \in Nat : n \in P
  <2> HIDE DEF P
  <2>1. P \in SUBSET Nat
    BY DEF P
  <2>. QED  BY <1>1, <1>2, <2>1, Induction
<1>4. Cardinality(S) \in Nat
  BY FS_CardinalityType
<1>. QED
  BY <1>0, <1>3, <1>4
===============================================================================
