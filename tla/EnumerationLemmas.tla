-------------------------- MODULE EnumerationLemmas --------------------------
(***************************************************************************)
(* Facts about concatenation and about Sorted, Select and Flat, for all    *)
(* finite sets of numbers and all sequences.                               *)
(***************************************************************************)
EXTENDS Enumerations, FiniteSetTheorems, TLAPS

-----------------------------------------------------------------------------
(***************************************************************************)
(* Concatenation, element by element.                                      *)
(***************************************************************************)

LEMMA AppendedIs ==
    ASSUME NEW S, NEW u \in Seq(S), NEW v \in Seq(S)
    PROVE  /\ u \o v \in Seq(S) /\ Len(u \o v) = Len(u) + Len(v)
           /\ \A k \in 1..Len(u) : (u \o v)[k] = u[k]
           /\ \A k \in 1..Len(v) : (u \o v)[Len(u) + k] = v[k]
OBVIOUS

LEMMA OneBetween ==
    ASSUME NEW F, NEW a \in Seq(F), NEW e \in F, NEW b \in Seq(F)
    PROVE  /\ Len(a \o <<e>> \o b) = Len(a) + 1 + Len(b)
           /\ DOMAIN (a \o <<e>> \o b) = 1..Len(a \o <<e>> \o b)
           /\ \A k \in 1..Len(a) : (a \o <<e>> \o b)[k] = a[k]
           /\ (a \o <<e>> \o b)[Len(a) + 1] = e
           /\ \A k \in 1..Len(b) : (a \o <<e>> \o b)[Len(a) + 1 + k] = b[k]
<1>1. /\ a \o <<e>> \in Seq(F) /\ Len(a \o <<e>>) = Len(a) + 1
      /\ \A k \in 1..Len(a) : (a \o <<e>>)[k] = a[k]
      /\ (a \o <<e>>)[Len(a) + 1] = e
    OBVIOUS
<1>2. \A c \in Seq(F) :
        /\ c \o b \in Seq(F) /\ Len(c \o b) = Len(c) + Len(b)
        /\ \A k \in 1..Len(c) : (c \o b)[k] = c[k]
        /\ \A k \in 1..Len(b) : (c \o b)[Len(c) + k] = b[k]
    BY AppendedIs
<1> DEFINE c == a \o <<e>>
<1> HIDE DEF c
<1>3. c \in Seq(F) /\ Len(c) = Len(a) + 1
    BY <1>1 DEF c
<1>4. /\ c \o b \in Seq(F) /\ Len(c \o b) = Len(a) + 1 + Len(b)
      /\ \A k \in 1..(Len(a) + 1) : (c \o b)[k] = c[k]
      /\ \A k \in 1..Len(b) : (c \o b)[Len(a) + 1 + k] = b[k]
  <2>1. /\ c \o b \in Seq(F) /\ Len(c \o b) = Len(c) + Len(b)
        /\ \A k \in 1..Len(c) : (c \o b)[k] = c[k]
        /\ \A k \in 1..Len(b) : (c \o b)[Len(c) + k] = b[k]
    BY <1>2, <1>3
  <2>2. QED
    BY <2>1, <1>3
<1>5. 1..Len(a) \subseteq 1..(Len(a) + 1) /\ Len(a) + 1 \in 1..(Len(a) + 1)
    OBVIOUS
<1>6. DOMAIN (c \o b) = 1..Len(c \o b)
    BY <1>4
<1>7. QED
    BY <1>1, <1>4, <1>5, <1>6 DEF c

LEMMA ConcatAssoc ==
    ASSUME NEW F, NEW a \in Seq(F), NEW b \in Seq(F), NEW c \in Seq(F)
    PROVE  (a \o b) \o c = a \o (b \o c)
OBVIOUS

LEMMA ConcatRange ==
    ASSUME NEW F, NEW a \in Seq(F), NEW b \in Seq(F), NEW k \in 1..Len(a \o b)
    PROVE  \/ k \in 1..Len(a) /\ (a \o b)[k] = a[k]
           \/ k - Len(a) \in 1..Len(b) /\ (a \o b)[k] = b[k - Len(a)]
OBVIOUS

\* The hypotheses of the two lemmas below, named so that a step states them of
\* the sequences it means.
Joins(S, u, v, w) == u \in Seq(S) /\ v \in Seq(S) /\ w = u \o v
Leads(S, x, v, w) == x \in S /\ v \in Seq(S) /\ w = <<x>> \o v

LEMMA Joined ==
    ASSUME NEW S, NEW u, NEW v, NEW w, Joins(S, u, v, w)
    PROVE  /\ w \in Seq(S) /\ Len(w) = Len(u) + Len(v)
           /\ \A k \in 1..Len(u) : k \in 1..Len(w) /\ w[k] = u[k]
           /\ \A k \in 1..Len(v) : Len(u) + k \in 1..Len(w) /\ w[Len(u) + k] = v[k]
           /\ \A k \in 1..Len(w) : \/ k \in 1..Len(u) /\ w[k] = u[k]
                                   \/ \E j \in 1..Len(v) : k = Len(u) + j /\ w[k] = v[j]
<1>1. u \in Seq(S) /\ v \in Seq(S) /\ Len(u) \in Nat /\ Len(v) \in Nat
    BY DEF Joins
<1>2. /\ w \in Seq(S) /\ Len(w) = Len(u) + Len(v)
      /\ \A k \in 1..Len(u) : w[k] = u[k]
      /\ \A k \in 1..Len(v) : w[Len(u) + k] = v[k]
    BY AppendedIs DEF Joins
<1>3. \A k \in 1..Len(u) : k \in 1..Len(w)
    BY <1>1, <1>2
<1>4. \A k \in 1..Len(v) : Len(u) + k \in 1..Len(w)
    BY <1>1, <1>2
<1>5. ASSUME NEW k \in 1..Len(w)
      PROVE  k \in 1..Len(u) \/ \E j \in 1..Len(v) : k = Len(u) + j
  <2>1. ~(k <= Len(u)) => k - Len(u) \in 1..Len(v) /\ k = Len(u) + (k - Len(u))
    BY <1>1, <1>2
  <2>2. k <= Len(u) => k \in 1..Len(u)
    BY <1>1, <1>2
  <2>3. QED
    BY <2>1, <2>2
<1>6. QED
    BY <1>2, <1>3, <1>4, <1>5

LEMMA JoinIs ==
    ASSUME NEW S, NEW x \in Seq(S), NEW y \in Seq(S), NEW z \in Seq(S), Len(z) = Len(x) + Len(y),
           \A k \in 1..Len(x) : z[k] = x[k],
           \A k \in 1..Len(y) : z[Len(x) + k] = y[k]
    PROVE  z = x \o y
<1>1. /\ x \o y \in Seq(S) /\ Len(x \o y) = Len(x) + Len(y)
      /\ \A k \in 1..Len(x) : (x \o y)[k] = x[k]
      /\ \A k \in 1..Len(y) : (x \o y)[Len(x) + k] = y[k]
    BY AppendedIs
<1>2. ASSUME NEW k \in 1..(Len(x) + Len(y))
      PROVE  k \in 1..Len(x) \/ \E j \in 1..Len(y) : k = Len(x) + j
  <2>1. Len(x) \in Nat /\ Len(y) \in Nat
    OBVIOUS
  <2>2. ~(k <= Len(x)) => k - Len(x) \in 1..Len(y) /\ k = Len(x) + (k - Len(x))
    BY <2>1
  <2>3. k <= Len(x) => k \in 1..Len(x)
    BY <2>1
  <2>4. QED
    BY <2>2, <2>3
<1>3. \A k \in 1..(Len(x) + Len(y)) : z[k] = (x \o y)[k]
    BY <1>1, <1>2
<1>4. QED
    BY <1>1, <1>3

LEMMA Prefixed ==
    ASSUME NEW S, NEW x, NEW v, NEW w, Leads(S, x, v, w)
    PROVE  /\ w \in Seq(S) /\ Len(w) = 1 + Len(v) /\ 1 \in 1..Len(w) /\ w[1] = x
           /\ \A k \in 1..Len(v) : k + 1 \in 1..Len(w) /\ w[k + 1] = v[k]
           /\ \A k \in 1..Len(w) : k = 1 \/ \E j \in 1..Len(v) : k = j + 1 /\ w[k] = v[j]
<1> DEFINE u == <<x>>
<1>1. v \in Seq(S) /\ u \in Seq(S) /\ Len(u) = 1 /\ u[1] = x /\ w = u \o v
    BY DEF Leads
<1> HIDE DEF u
<1>2. /\ w \in Seq(S) /\ Len(w) = 1 + Len(v) /\ w[1] = x
      /\ \A k \in 1..Len(v) : w[1 + k] = v[k]
  <2>1. Joins(S, u, v, w)
    BY <1>1 DEF Joins
  <2>2. /\ w \in Seq(S) /\ Len(w) = Len(u) + Len(v)
        /\ \A k \in 1..Len(u) : w[k] = u[k]
        /\ \A k \in 1..Len(v) : w[Len(u) + k] = v[k]
    BY <2>1, Joined
  <2>3. QED
    BY <1>1, <2>2
<1>3. Len(v) \in Nat
    BY <1>1
<1>4. \A k \in 1..Len(v) : k + 1 \in 1..Len(w) /\ w[k + 1] = v[k]
    BY <1>2, <1>3
<1>5. ASSUME NEW k \in 1..Len(w)
      PROVE  k = 1 \/ \E j \in 1..Len(v) : k = j + 1 /\ w[k] = v[j]
  <2>1. k # 1 => k - 1 \in 1..Len(v) /\ k = (k - 1) + 1
    BY <1>2, <1>3
  <2>2. QED
    BY <1>4, <2>1
<1>6. QED
    BY <1>2, <1>3, <1>4, <1>5

LEMMA Appended ==
    ASSUME NEW S, NEW u \in Seq(S), NEW x \in S
    PROVE  Append(u, x) \in Seq(S) /\ <<x>> \in Seq(S) /\ Append(u, x) = u \o <<x>>
<1> DEFINE a == Append(u, x)
           one == <<x>>
<1>1. /\ a \in Seq(S) /\ Len(a) = Len(u) + 1 /\ a[Len(u) + 1] = x
      /\ \A k \in 1..Len(u) : a[k] = u[k]
    OBVIOUS
<1>2. one \in Seq(S) /\ Len(one) = 1 /\ one[1] = x
    OBVIOUS
<1> HIDE DEF a, one
<1>3. \A k \in 1..Len(one) : a[Len(u) + k] = one[k]
    BY <1>1, <1>2
<1>4. a = u \o one
    BY <1>1, <1>2, <1>3, JoinIs
<1>5. QED
    BY <1>1, <1>2, <1>4 DEF a, one

\* No element comes twice.
Distinct(s) == \A j, k \in 1..Len(s) : s[j] = s[k] => j = k

LEMMA DistinctConcat ==
    ASSUME NEW F, NEW a \in Seq(F), NEW b \in Seq(F), Distinct(a), Distinct(b),
           \A j \in 1..Len(a), k \in 1..Len(b) : a[j] # b[k]
    PROVE  Distinct(a \o b)
<1> SUFFICES ASSUME NEW j \in 1..Len(a \o b), NEW k \in 1..Len(a \o b), (a \o b)[j] = (a \o b)[k]
             PROVE  j = k
    BY DEF Distinct
<1>1. \/ j \in 1..Len(a) /\ (a \o b)[j] = a[j]
      \/ j - Len(a) \in 1..Len(b) /\ (a \o b)[j] = b[j - Len(a)]
    BY ConcatRange
<1>2. \/ k \in 1..Len(a) /\ (a \o b)[k] = a[k]
      \/ k - Len(a) \in 1..Len(b) /\ (a \o b)[k] = b[k - Len(a)]
    BY ConcatRange
<1>3. j \in Int /\ k \in Int /\ Len(a) \in Int
    OBVIOUS
<1>4. CASE j \in 1..Len(a) /\ k \in 1..Len(a) /\ a[j] = a[k]
    BY <1>4 DEF Distinct
<1>5. CASE j - Len(a) \in 1..Len(b) /\ k - Len(a) \in 1..Len(b) /\ b[j - Len(a)] = b[k - Len(a)]
  <2>1. j - Len(a) = k - Len(a)
    BY <1>5 DEF Distinct
  <2>2. QED
    BY <2>1, <1>3
<1>6. QED
    BY <1>1, <1>2, <1>4, <1>5

-----------------------------------------------------------------------------
\* The ranks in a finite set of numbers grow with the numbers.
LEMMA RankType ==
    ASSUME NEW T \in SUBSET Int, IsFiniteSet(T), NEW x \in T
    PROVE  Rank(T, x) \in 0..(Cardinality(T) - 1)
<1> DEFINE Below == {w \in T : w < x}
<1>1. IsFiniteSet(Below) /\ Cardinality(Below) \in Nat /\ Cardinality(T) \in Nat
    BY FS_Subset, FS_CardinalityType
<1>2. Cardinality(Below \cup {x}) = Cardinality(Below) + 1
  <2>1. x \notin Below
    OBVIOUS
  <2>2. QED
    BY <1>1, <2>1, FS_AddElement
<1>3. Cardinality(Below \cup {x}) <= Cardinality(T)
  <2>1. Below \cup {x} \in SUBSET T
    OBVIOUS
  <2>2. QED
    BY <2>1, FS_Subset
<1>4. QED
    BY <1>1, <1>2, <1>3 DEF Rank

LEMMA RankGrows ==
    ASSUME NEW T \in SUBSET Int, IsFiniteSet(T), NEW x \in T, NEW y \in T, x < y
    PROVE  Rank(T, x) < Rank(T, y)
<1> DEFINE Lower == {w \in T : w < x}
           Upper == {w \in T : w < y}
<1>1. IsFiniteSet(Lower) /\ Cardinality(Lower) \in Nat
    BY FS_Subset, FS_CardinalityType
<1>2. IsFiniteSet(Upper) /\ Cardinality(Upper) \in Nat
    BY FS_Subset, FS_CardinalityType
<1>3. Lower \cup {x} \in SUBSET Upper /\ x \notin Lower
  <2>1. x \in Int /\ y \in Int /\ \A w \in T : w \in Int
    OBVIOUS
  <2>2. \A w \in T : w < x => w < y
    BY <2>1
  <2>3. x \in Upper /\ x \notin Lower
    BY <2>1
  <2>4. Lower \subseteq Upper
    BY <2>2
  <2> HIDE DEF Lower, Upper
  <2>5. QED
    BY <2>3, <2>4
<1>4. Cardinality(Lower \cup {x}) = Cardinality(Lower) + 1
    BY <1>1, <1>3, FS_AddElement
<1>5. Cardinality(Lower \cup {x}) <= Cardinality(Upper)
    BY <1>2, <1>3, FS_Subset
<1>6. Cardinality(Lower) < Cardinality(Upper)
    BY <1>1, <1>2, <1>4, <1>5
<1>7. QED
    BY <1>6 DEF Rank

\* Each rank is that of one element.
LEMMA RankOnto ==
    ASSUME NEW T \in SUBSET Int, IsFiniteSet(T), NEW k \in 0..(Cardinality(T) - 1)
    PROVE  \E x \in T : Rank(T, x) = k
<1> DEFINE R == [x \in T |-> Rank(T, x)]
           N == 0..(Cardinality(T) - 1)
<1>1. Cardinality(T) \in Nat
    BY FS_CardinalityType
<1>2. R \in [T -> N]
    BY RankType
<1>3. \A x, y \in T : R[x] = R[y] => x = y
  <2>1. SUFFICES ASSUME NEW x \in T, NEW y \in T, x < y PROVE R[x] # R[y]
    OBVIOUS
  <2>2. Rank(T, x) < Rank(T, y) /\ Rank(T, x) \in Int /\ Rank(T, y) \in Int
    BY <2>1, RankGrows, RankType, <1>1
  <2>3. QED
    BY <2>2
<1>4. IsFiniteSet(N) /\ Cardinality(N) = Cardinality(T)
    BY <1>1, FS_Interval
<1>5. R \in Injection(T, N)
    BY <1>2, <1>3 DEF Injection, IsInjective
<1>6. R \in Surjection(T, N)
    BY <1>4, <1>5, FS_Injection
<1>7. QED
    BY <1>6 DEF Surjection

\* Sorted gives the elements of a finite set, each once, in increasing order.
THEOREM SortedEnumerates ==
    ASSUME NEW T \in SUBSET Int, IsFiniteSet(T)
    PROVE  /\ Cardinality(T) \in Nat
           /\ Sorted(T) \in [1..Cardinality(T) -> T]
           /\ \A j, k \in 1..Cardinality(T) : j < k => Sorted(T)[j] < Sorted(T)[k]
           /\ \A k \in 1..Cardinality(T) : Rank(T, Sorted(T)[k]) = k - 1
           /\ \A x \in T : Rank(T, x) + 1 \in 1..Cardinality(T) /\ Sorted(T)[Rank(T, x) + 1] = x
<1>1. Cardinality(T) \in Nat
    BY FS_CardinalityType
<1>2. \A k \in 1..Cardinality(T) : Sorted(T)[k] \in T /\ Rank(T, Sorted(T)[k]) = k - 1
  <2> TAKE k \in 1..Cardinality(T)
  <2>1. \E x \in T : Rank(T, x) = k - 1
    BY <1>1, RankOnto
  <2>2. QED
    BY <2>1 DEF Sorted
<1>3. Sorted(T) \in [1..Cardinality(T) -> T]
    BY <1>2 DEF Sorted
<1>4. ASSUME NEW j \in 1..Cardinality(T), NEW k \in 1..Cardinality(T), j < k
      PROVE  Sorted(T)[j] < Sorted(T)[k]
  <2>1. Sorted(T)[j] \in Int /\ Sorted(T)[k] \in Int
    BY <1>2
  <2>2. Sorted(T)[j] # Sorted(T)[k]
    BY <1>1, <1>2, <1>4
  <2>3. ~(Sorted(T)[k] < Sorted(T)[j])
    <3>1. Sorted(T)[k] < Sorted(T)[j] => Rank(T, Sorted(T)[k]) < Rank(T, Sorted(T)[j])
      BY <1>2, RankGrows
    <3>2. QED
      BY <1>1, <1>2, <1>4, <3>1
  <2>4. QED
    BY <2>1, <2>2, <2>3
<1>5. ASSUME NEW x \in T
      PROVE  Rank(T, x) + 1 \in 1..Cardinality(T) /\ Sorted(T)[Rank(T, x) + 1] = x
  <2>1. Rank(T, x) + 1 \in 1..Cardinality(T)
    BY <1>1, RankType
  <2> DEFINE r == Rank(T, x) + 1
             y == Sorted(T)[r]
  <2>2. Rank(T, x) \in Int /\ r - 1 = Rank(T, x)
    BY <1>1, RankType
  <2> HIDE DEF r
  <2>3. y \in T /\ Rank(T, y) = r - 1
    BY <1>2, <2>1 DEF r
  <2>4. Rank(T, y) = Rank(T, x)
    BY <2>2, <2>3
  <2> HIDE DEF y
  <2>5. x < y => Rank(T, x) < Rank(T, y)
    BY <2>3, RankGrows
  <2>6. y < x => Rank(T, y) < Rank(T, x)
    BY <2>3, RankGrows
  <2>7. x \in Int /\ y \in Int
    BY <2>3
  <2>8. x = y
    BY <2>2, <2>4, <2>5, <2>6, <2>7
  <2>9. QED
    BY <2>1, <2>8 DEF y, r
<1>6. QED
    BY <1>1, <1>2, <1>3, <1>4, <1>5

\* And it is the only sequence that does.
THEOREM SortedUnique ==
    ASSUME NEW T \in SUBSET Int, NEW n \in Nat, NEW f \in [1..n -> T],
           \A j, k \in 1..n : j < k => f[j] < f[k],
           \A x \in T : \E k \in 1..n : f[k] = x
    PROVE  IsFiniteSet(T) /\ Cardinality(T) = n /\ Sorted(T) = f
<1>1. \A j, k \in 1..n : f[j] = f[k] => j = k
  <2> SUFFICES ASSUME NEW j \in 1..n, NEW k \in 1..n, j < k PROVE f[j] # f[k]
    OBVIOUS
  <2>1. f[j] < f[k] /\ f[j] \in Int
    OBVIOUS
  <2>2. QED
    BY <2>1
<1>2. f \in Surjection(1..n, T) /\ f \in Injection(1..n, T)
    BY <1>1 DEF Surjection, Injection, IsInjective
<1>3. IsFiniteSet(1..n) /\ Cardinality(1..n) = n
    BY FS_Interval
<1>4. IsFiniteSet(T) /\ Cardinality(T) = n
    BY <1>2, <1>3, FS_Surjection
<1>5. ASSUME NEW k \in 1..n PROVE Rank(T, f[k]) = k - 1
  <2> DEFINE Lower == {y \in T : y < f[k]}
             g == [j \in 1..(k - 1) |-> f[j]]
  <2>1. \A j \in 1..n : f[j] < f[k] <=> j < k
    <3> SUFFICES ASSUME NEW j \in 1..n PROVE f[j] < f[k] <=> j < k
      OBVIOUS
    <3>1. f[j] \in Int /\ f[k] \in Int
      OBVIOUS
    <3>2. (j < k => f[j] < f[k]) /\ (k < j => f[k] < f[j]) /\ (j = k => f[j] = f[k])
      OBVIOUS
    <3>3. QED
      BY <3>1, <3>2
  <2>2. \A j \in 1..(k - 1) : j \in 1..n /\ j < k
    OBVIOUS
  <2>3. g \in [1..(k - 1) -> Lower]
    BY <2>1, <2>2
  <2>4. \A y \in Lower : \E j \in 1..(k - 1) : g[j] = y
    BY <2>1
  <2>5. \A i, j \in 1..(k - 1) : g[i] = g[j] => i = j
    BY <1>1, <2>2
  <2> HIDE DEF g, Lower
  <2>6. g \in Surjection(1..(k - 1), Lower) /\ g \in Injection(1..(k - 1), Lower)
    BY <2>3, <2>4, <2>5 DEF Surjection, Injection, IsInjective
  <2>7. IsFiniteSet(1..(k - 1)) /\ Cardinality(1..(k - 1)) = k - 1
    BY FS_Interval
  <2>8. Cardinality(Lower) = k - 1
    BY <2>6, <2>7, FS_Surjection
  <2>9. QED
    BY <2>8 DEF Rank, Lower
<1>6. ASSUME NEW k \in 1..n PROVE Sorted(T)[k] = f[k]
  <2>1. Sorted(T)[Rank(T, f[k]) + 1] = f[k]
    BY <1>4, SortedEnumerates
  <2>2. Rank(T, f[k]) + 1 = k
    BY <1>5
  <2>3. QED
    BY <2>1, <2>2
<1>7. Sorted(T) \in [1..n -> T]
    BY <1>4, SortedEnumerates
<1>8. QED
    BY <1>4, <1>6, <1>7

-----------------------------------------------------------------------------
\* What Select returns is of the sequence and of the set, nothing is missing,
\* and nothing comes twice that was there once.
THEOREM SelectKeeps ==
    ASSUME NEW S, NEW s \in Seq(S), NEW T
    PROVE  /\ Select(s, T) \in Seq(S)
           /\ \A k \in 1..Len(Select(s, T)) : \E i \in 1..Len(s) : Select(s, T)[k] = s[i] /\ s[i] \in T
           /\ \A i \in 1..Len(s) : s[i] \in T => \E k \in 1..Len(Select(s, T)) : Select(s, T)[k] = s[i]
           /\ (\A i, j \in 1..Len(s) : s[i] = s[j] => i = j) =>
                \A i, j \in 1..Len(Select(s, T)) : Select(s, T)[i] = Select(s, T)[j] => i = j
<1> DEFINE P == Positions(s, T)
           n == Cardinality(P)
           p == Sorted(P)
<1>1. P \in SUBSET (1..Len(s)) /\ P \in SUBSET Int /\ IsFiniteSet(P)
  <2>1. P \in SUBSET (1..Len(s)) /\ Len(s) \in Nat
    BY DEF Positions
  <2>2. IsFiniteSet(1..Len(s))
    BY <2>1, FS_Interval
  <2>3. QED
    BY <2>1, <2>2, FS_Subset
<1>2. /\ n \in Nat
      /\ p \in [1..n -> P]
      /\ \A j, k \in 1..n : j < k => p[j] < p[k]
      /\ \A x \in P : \E k \in 1..n : p[k] = x
    BY <1>1, SortedEnumerates
<1>3. Select(s, T) = [k \in 1..n |-> s[p[k]]]
    BY DEF Select
<1>4. \A i \in P : i \in 1..Len(s) /\ s[i] \in T /\ s[i] \in S
    BY DEF Positions
<1>5. \A i \in 1..Len(s) : s[i] \in T => i \in P
    BY DEF Positions
<1> HIDE DEF P, n, p
<1>6. Select(s, T) \in Seq(S) /\ Len(Select(s, T)) = n
    BY <1>2, <1>3, <1>4
<1>7. \A j, k \in 1..n : p[j] = p[k] => j = k
  <2> SUFFICES ASSUME NEW j \in 1..n, NEW k \in 1..n, j < k PROVE p[j] # p[k]
    BY <1>2
  <2>1. p[j] < p[k] /\ p[j] \in Int
    BY <1>1, <1>2
  <2>2. QED
    BY <2>1
<1>8. QED
    BY <1>2, <1>3, <1>4, <1>5, <1>6, <1>7

LEMMA SelectNone ==
    ASSUME NEW S, NEW s \in Seq(S), NEW T, \A i \in 1..Len(s) : s[i] \notin T
    PROVE  Select(s, T) = <<>>
<1>1. Positions(s, T) = {}
    BY DEF Positions
<1>2. Cardinality({}) = 0
    BY FS_EmptySet
<1>3. QED
    BY <1>1, <1>2 DEF Select

LEMMA SelectAll ==
    ASSUME NEW S, NEW s \in Seq(S), NEW T, \A i \in 1..Len(s) : s[i] \in T
    PROVE  Select(s, T) = s
<1> DEFINE n == Len(s)
           id == [k \in 1..n |-> k]
<1>1. Positions(s, T) = 1..n /\ n \in Nat
    BY DEF Positions
<1> HIDE DEF n
<1>2. Cardinality(1..n) = n /\ Sorted(1..n) = id
  <2>1. id \in [1..n -> 1..n] /\ 1..n \in SUBSET Int
    OBVIOUS
  <2>2. \A j, k \in 1..n : j < k => id[j] < id[k]
    OBVIOUS
  <2>3. \A x \in 1..n : \E k \in 1..n : id[k] = x
    OBVIOUS
  <2> HIDE DEF id
  <2>4. QED
    BY <1>1, <2>1, <2>2, <2>3, SortedUnique
<1>3. Select(s, T) = [k \in 1..n |-> s[k]]
    BY <1>1, <1>2 DEF Select
<1>4. QED
    BY <1>3 DEF n

\* Select distributes over concatenation.
THEOREM SelectConcat ==
    ASSUME NEW S, NEW s \in Seq(S), NEW t \in Seq(S), NEW T
    PROVE  Select(s \o t, T) = Select(s, T) \o Select(t, T)
<1> DEFINE P == Positions(s, T)
           Q == Positions(t, T)
           U == Positions(s \o t, T)
           l == Len(s)
           m == Cardinality(P)
           n == Cardinality(Q)
           p == Sorted(P)
           q == Sorted(Q)
           f == [k \in 1..(m + n) |-> IF k <= m THEN p[k] ELSE l + q[k - m]]
<1>1. l \in Nat /\ Len(t) \in Nat /\ Len(s \o t) = l + Len(t) /\ s \o t \in Seq(S)
    OBVIOUS
<1>2. /\ P \in SUBSET (1..l) /\ P \in SUBSET Int /\ IsFiniteSet(P)
      /\ Q \in SUBSET (1..Len(t)) /\ Q \in SUBSET Int /\ IsFiniteSet(Q)
  <2>1. P \in SUBSET (1..l) /\ Q \in SUBSET (1..Len(t))
    BY DEF Positions
  <2>2. IsFiniteSet(1..l) /\ IsFiniteSet(1..Len(t))
    BY <1>1, FS_Interval
  <2>3. QED
    BY <2>1, <2>2, FS_Subset
<1>3. /\ m \in Nat /\ p \in [1..m -> P]
      /\ \A j, k \in 1..m : j < k => p[j] < p[k]
      /\ \A x \in P : \E k \in 1..m : p[k] = x
    BY <1>2, SortedEnumerates
<1>4. /\ n \in Nat /\ q \in [1..n -> Q]
      /\ \A j, k \in 1..n : j < k => q[j] < q[k]
      /\ \A x \in Q : \E k \in 1..n : q[k] = x
    BY <1>2, SortedEnumerates
<1>5. \A x \in 1..l : (s \o t)[x] = s[x] /\ (x \in U <=> x \in P)
    BY <1>1 DEF Positions
<1>6. \A x \in 1..Len(t) : (s \o t)[l + x] = t[x] /\ (l + x \in U <=> x \in Q)
    BY <1>1 DEF Positions
<1>7. U \in SUBSET (1..(l + Len(t)))
    BY <1>1 DEF Positions
<1>8. Select(s, T) = [k \in 1..m |-> s[p[k]]] /\ Select(t, T) = [k \in 1..n |-> t[q[k]]]
    BY DEF Select
<1>9. Select(s \o t, T) = [k \in 1..Cardinality(U) |-> (s \o t)[Sorted(U)[k]]]
    BY DEF Select
<1> HIDE DEF P, Q, U, l, m, n, p, q
<1>9a. \A k \in 1..m : f[k] = p[k] /\ p[k] \in P /\ p[k] \in 1..l
  <2> TAKE k \in 1..m
  <2>1. k \in 1..(m + n) /\ k <= m
    BY <1>3, <1>4
  <2>2. f[k] = p[k]
    BY <2>1
  <2>3. p[k] \in P
    BY <1>3
  <2>4. QED
    BY <2>2, <2>3, <1>2
<1>9b. \A k \in 1..n : f[m + k] = l + q[k] /\ q[k] \in Q /\ q[k] \in 1..Len(t)
  <2> TAKE k \in 1..n
  <2>1. m + k \in 1..(m + n) /\ ~(m + k <= m) /\ (m + k) - m = k
    BY <1>3, <1>4
  <2>2. f[m + k] = l + q[(m + k) - m]
    BY <2>1
  <2>3. q[k] \in Q
    BY <1>4
  <2>4. QED
    BY <2>1, <2>2, <2>3, <1>2
<1>9c. \A k \in 1..(m + n) : k \in 1..m \/ \E i \in 1..n : k = m + i
  <2> TAKE k \in 1..(m + n)
  <2>1. ~(k <= m) => k - m \in 1..n /\ k = m + (k - m)
    BY <1>3, <1>4
  <2>2. k <= m => k \in 1..m
    BY <1>3, <1>4
  <2>3. QED
    BY <2>1, <2>2
<1>9d. DOMAIN f = 1..(m + n) /\ f = [k \in 1..(m + n) |-> f[k]]
  OBVIOUS
<1> HIDE DEF f
<1>10. f \in [1..(m + n) -> U]
  <2> SUFFICES ASSUME NEW k \in 1..(m + n) PROVE f[k] \in U
    BY <1>9d
  <2>1. CASE k \in 1..m
    BY <2>1, <1>9a, <1>5
  <2>2. ASSUME NEW i \in 1..n, k = m + i PROVE f[k] \in U
    BY <2>2, <1>9b, <1>6
  <2>3. QED
    BY <2>1, <2>2, <1>9c
<1>11. \A j, k \in 1..(m + n) : j < k => f[j] < f[k]
  <2> SUFFICES ASSUME NEW j \in 1..(m + n), NEW k \in 1..(m + n), j < k PROVE f[j] < f[k]
    OBVIOUS
  <2>1. CASE j \in 1..m /\ k \in 1..m
    BY <2>1, <1>9a, <1>3
  <2>2. ASSUME NEW i \in 1..n, j \in 1..m, k = m + i PROVE f[j] < f[k]
    <3>1. f[j] \in 1..l
      BY <2>2, <1>9a
    <3>2. f[k] = l + q[i] /\ q[i] \in 1..Len(t)
      BY <2>2, <1>9b
    <3>3. QED
      BY <3>1, <3>2, <1>1
  <2>3. ASSUME NEW h \in 1..n, NEW i \in 1..n, j = m + h, k = m + i PROVE f[j] < f[k]
    <3>1. h < i
      BY <2>3, <1>3, <1>4
    <3>2. q[h] < q[i] /\ q[h] \in 1..Len(t) /\ q[i] \in 1..Len(t)
      BY <3>1, <1>4, <1>9b
    <3>3. f[j] = l + q[h] /\ f[k] = l + q[i]
      BY <2>3, <1>9b
    <3>4. QED
      BY <3>2, <3>3, <1>1
  <2>4. ~(k \in 1..m /\ j \notin 1..m)
    BY <1>3, <1>4
  <2>5. QED
    BY <2>1, <2>2, <2>3, <2>4, <1>9c
<1>12. \A x \in U : \E k \in 1..(m + n) : f[k] = x
  <2> SUFFICES ASSUME NEW x \in U PROVE \E k \in 1..(m + n) : f[k] = x
    OBVIOUS
  <2>1. CASE x <= l
    <3>1. x \in P
      BY <2>1, <1>1, <1>5, <1>7
    <3>2. PICK k \in 1..m : p[k] = x
      BY <3>1, <1>3
    <3>3. k \in 1..(m + n) /\ f[k] = x
      BY <3>2, <1>3, <1>4, <1>9a
    <3>4. QED
      BY <3>3
  <2>2. CASE l < x
    <3>1. x - l \in 1..Len(t) /\ l + (x - l) = x
      BY <2>2, <1>1, <1>7
    <3>2. x - l \in Q
      BY <3>1, <1>6
    <3>3. PICK k \in 1..n : q[k] = x - l
      BY <3>2, <1>4
    <3>4. m + k \in 1..(m + n)
      BY <1>3, <1>4
    <3>5. f[m + k] = x
      BY <3>1, <3>3, <1>9b
    <3>6. QED
      BY <3>4, <3>5
  <2>3. QED
    BY <2>1, <2>2, <1>1, <1>7
<1>13. Cardinality(U) = m + n /\ Sorted(U) = f
  <2>1. U \in SUBSET Int /\ m + n \in Nat
    BY <1>3, <1>4, <1>7
  <2>2. QED
    BY <2>1, <1>10, <1>11, <1>12, SortedUnique
<1>14. Select(s \o t, T) = [k \in 1..(m + n) |-> (s \o t)[f[k]]]
  BY <1>9, <1>13
<1>15. Select(s, T) \in Seq(S) /\ Select(t, T) \in Seq(S)
  BY SelectKeeps
<1>16. Len(Select(s, T)) = m /\ Len(Select(t, T)) = n
  BY <1>3, <1>4, <1>8
<1> DEFINE c == Select(s, T) \o Select(t, T)
           d == Select(s \o t, T)
<1>17. c \in Seq(S) /\ Len(c) = m + n /\ d \in Seq(S) /\ Len(d) = m + n
  <2>1. c \in Seq(S) /\ Len(c) = m + n
    BY <1>15, <1>16, AppendedIs
  <2>2. d \in Seq(S)
    <3>1. s \o t \in Seq(S)
      BY <1>1
    <3>2. QED
      BY <3>1, SelectKeeps
  <2>3. Len(d) = m + n
    BY <1>3, <1>4, <1>14
  <2>4. QED
    BY <2>1, <2>2, <2>3
<1>18. \A k \in 1..m : c[k] = d[k]
  <2> TAKE k \in 1..m
  <2>1. k \in 1..(m + n)
    BY <1>3, <1>4
  <2>2. d[k] = s[p[k]]
    BY <2>1, <1>14, <1>9a, <1>5
  <2>3. c[k] = Select(s, T)[k]
    BY <1>15, <1>16
  <2>4. QED
    BY <2>2, <2>3, <1>8
<1>19. \A k \in 1..n : c[m + k] = d[m + k]
  <2> TAKE k \in 1..n
  <2>1. m + k \in 1..(m + n)
    BY <1>3, <1>4
  <2>2. d[m + k] = (s \o t)[l + q[k]]
    BY <2>1, <1>14, <1>9b
  <2>3. d[m + k] = t[q[k]]
    BY <2>2, <1>9b, <1>6
  <2>4. c[m + k] = Select(t, T)[k]
    BY <1>15, <1>16, AppendedIs
  <2>5. QED
    BY <2>3, <2>4, <1>8
<1> HIDE DEF c, d
<1>20. \A k \in 1..(m + n) : c[k] = d[k]
  BY <1>18, <1>19, <1>9c
<1>21. c = d
  BY <1>17, <1>20
<1>22. QED
  BY <1>21 DEF c, d

-----------------------------------------------------------------------------
\* The slots of a sequence of sequences are finitely many.
LEMMA SlotsFinite ==
    ASSUME NEW S, NEW ss \in Seq(Seq(S))
    PROVE  /\ IsFiniteSet(Slots(ss)) /\ Cardinality(Slots(ss)) \in Nat
           /\ \A p : p \in Slots(ss) <=> \E i \in 1..Len(ss) : \E j \in 1..Len(ss[i]) : p = <<i, j>>
<1> DEFINE Row(i) == {i} \X (1..Len(ss[i]))
           Rows == {Row(i) : i \in 1..Len(ss)}
<1>1. Len(ss) \in Nat /\ \A i \in 1..Len(ss) : Len(ss[i]) \in Nat
    OBVIOUS
<1>2. IsFiniteSet(Rows)
  <2>1. IsFiniteSet(1..Len(ss))
    BY <1>1, FS_Interval
  <2>2. QED
    <3> DEFINE f == [i \in 1..Len(ss) |-> Row(i)]
    <3>1. f \in Surjection(1..Len(ss), Rows)
      BY DEF Surjection
    <3> HIDE DEF f, Rows
    <3>2. QED
      BY <2>1, <3>1, FS_Surjection
<1>3. \A i \in 1..Len(ss) : IsFiniteSet(Row(i))
  <2> TAKE i \in 1..Len(ss)
  <2>1. IsFiniteSet({i}) /\ IsFiniteSet(1..Len(ss[i]))
    <3>1. Len(ss[i]) \in Int
      BY <1>1
    <3>2. IsFiniteSet(1..Len(ss[i]))
      BY <3>1, FS_Interval
    <3>3. IsFiniteSet({i})
      BY FS_Singleton
    <3>4. QED
      BY <3>2, <3>3
  <2>2. QED
    BY <2>1, FS_Product
<1>4. IsFiniteSet(UNION Rows)
    BY <1>2, <1>3, FS_UNION
<1>5. Slots(ss) = UNION Rows
    BY DEF Slots
<1>6. \A p : p \in Slots(ss) <=> \E i \in 1..Len(ss) : \E j \in 1..Len(ss[i]) : p = <<i, j>>
    BY DEF Slots
<1>7. QED
    BY <1>4, <1>5, <1>6, FS_CardinalityType

\* Flat returns what the sequences have, slot by slot, and nothing else; nothing
\* comes twice that was in one slot only.
THEOREM FlatKeeps ==
    ASSUME NEW S, NEW ss \in Seq(Seq(S))
    PROVE  /\ Flat(ss) \in Seq(S)
           /\ \A k \in 1..Len(Flat(ss)) : \E i \in 1..Len(ss) : \E j \in 1..Len(ss[i]) : Flat(ss)[k] = ss[i][j]
           /\ \A i \in 1..Len(ss) : \A j \in 1..Len(ss[i]) : \E k \in 1..Len(Flat(ss)) : Flat(ss)[k] = ss[i][j]
           /\ (\A p, q \in Slots(ss) : ss[p[1]][p[2]] = ss[q[1]][q[2]] => p = q) =>
                \A k, l \in 1..Len(Flat(ss)) : Flat(ss)[k] = Flat(ss)[l] => k = l
<1> DEFINE P == Slots(ss)
           N == Cardinality(P)
           C(p) == Cardinality(UpTo(ss, p))
           c == [p \in P |-> C(p)]
<1>1. IsFiniteSet(P) /\ N \in Nat
      /\ \A p : p \in P <=> \E i \in 1..Len(ss) : \E j \in 1..Len(ss[i]) : p = <<i, j>>
    BY SlotsFinite
<1>2. \A p \in P : p[1] \in 1..Len(ss) /\ p[2] \in 1..Len(ss[p[1]]) /\ p[1] \in Int /\ p[2] \in Int
                   /\ p = <<p[1], p[2]>>
    BY <1>1
<1>3. \A p \in P : UpTo(ss, p) \in SUBSET P /\ p \in UpTo(ss, p)
    BY <1>2 DEF UpTo
<1>4. \A p \in P : IsFiniteSet(UpTo(ss, p)) /\ C(p) \in 1..N
  <2> TAKE p \in P
  <2>1. IsFiniteSet(UpTo(ss, p)) /\ C(p) \in Nat /\ C(p) <= N
    BY <1>1, <1>3, FS_Subset, FS_CardinalityType
  <2>2. C(p) # 0
    BY <2>1, <1>3, FS_EmptySet
  <2>3. QED
    BY <1>1, <2>1, <2>2
<1> HIDE DEF P, N
<1>5. \A p, q \in P : p # q => C(p) # C(q)
  <2>1. ASSUME NEW p \in P, NEW q \in P, p[1] < q[1] \/ (p[1] = q[1] /\ p[2] < q[2])
        PROVE  C(p) < C(q)
    <3>1. q \notin UpTo(ss, p)
      BY <1>2, <2>1 DEF UpTo
    <3>2. UpTo(ss, p) \subseteq UpTo(ss, q)
      <4> SUFFICES ASSUME NEW r \in UpTo(ss, p) PROVE r \in UpTo(ss, q)
        OBVIOUS
      <4>1. r \in P /\ (r[1] < p[1] \/ (r[1] = p[1] /\ r[2] <= p[2]))
        BY DEF UpTo, P
      <4>2. r[1] \in Int /\ r[2] \in Int /\ p[1] \in Int /\ p[2] \in Int /\ q[1] \in Int /\ q[2] \in Int
        BY <4>1, <1>2
      <4>3. r[1] < q[1] \/ (r[1] = q[1] /\ r[2] <= q[2])
        BY <2>1, <4>1, <4>2
      <4>4. QED
        BY <4>1, <4>3 DEF UpTo, P
    <3>3. Cardinality(UpTo(ss, p) \cup {q}) = C(p) + 1
      BY <1>4, <3>1, FS_AddElement
    <3>4. UpTo(ss, p) \cup {q} \in SUBSET UpTo(ss, q)
      BY <1>3, <3>2
    <3>5. Cardinality(UpTo(ss, p) \cup {q}) <= C(q)
      BY <1>4, <3>4, FS_Subset
    <3>6. C(p) \in Int /\ C(q) \in Int
      BY <1>1, <1>4
    <3>7. QED
      BY <3>3, <3>5, <3>6
  <2> SUFFICES ASSUME NEW p \in P, NEW q \in P, p # q PROVE C(p) # C(q)
    OBVIOUS
  <2>2. p[1] # q[1] \/ p[2] # q[2]
    BY <1>2
  <2>3. p[1] \in Int /\ q[1] \in Int /\ p[2] \in Int /\ q[2] \in Int
    BY <1>2
  <2>4. \/ p[1] < q[1] \/ (p[1] = q[1] /\ p[2] < q[2])
        \/ q[1] < p[1] \/ (q[1] = p[1] /\ q[2] < p[2])
    BY <2>2, <2>3
  <2>5. C(p) < C(q) \/ C(q) < C(p)
    BY <2>1, <2>4
  <2>6. C(p) \in Int /\ C(q) \in Int
    BY <1>1, <1>4
  <2>7. QED
    BY <2>5, <2>6
<1>6. IsFiniteSet(1..N) /\ Cardinality(1..N) = N
    BY <1>1, FS_Interval
<1>7. c \in Injection(P, 1..N)
    BY <1>4, <1>5 DEF Injection, IsInjective
<1>8. c \in Surjection(P, 1..N)
  <2> HIDE DEF c
  <2>1. Cardinality(P) = N
    BY DEF N
  <2>2. QED
    BY <1>1, <1>6, <1>7, <2>1, FS_Injection
<1>9. \A k \in 1..N : SlotAt(ss, k) \in P /\ C(SlotAt(ss, k)) = k
  <2> TAKE k \in 1..N
  <2>1. \E p \in P : C(p) = k
    BY <1>8 DEF Surjection
  <2>2. QED
    BY <2>1 DEF SlotAt, P
<1>10. \A p \in P : SlotAt(ss, C(p)) = p
    BY <1>4, <1>5, <1>9
<1>11. Flat(ss) = [k \in 1..N |-> ss[SlotAt(ss, k)[1]][SlotAt(ss, k)[2]]]
    BY DEF Flat, N, P
<1>12. \A p \in P : ss[p[1]][p[2]] \in S
    BY <1>2
<1>13. Flat(ss) \in Seq(S) /\ Len(Flat(ss)) = N
  <2>1. \A k \in 1..N : ss[SlotAt(ss, k)[1]][SlotAt(ss, k)[2]] \in S
    BY <1>9, <1>12
  <2>2. QED
    BY <1>1, <1>11, <2>1
<1>14. \A k \in 1..N : \E i \in 1..Len(ss) : \E j \in 1..Len(ss[i]) : Flat(ss)[k] = ss[i][j]
  <2> TAKE k \in 1..N
  <2>1. Flat(ss)[k] = ss[SlotAt(ss, k)[1]][SlotAt(ss, k)[2]]
    BY <1>11
  <2>2. SlotAt(ss, k)[1] \in 1..Len(ss) /\ SlotAt(ss, k)[2] \in 1..Len(ss[SlotAt(ss, k)[1]])
    BY <1>2, <1>9
  <2>3. QED
    BY <2>1, <2>2
<1>15. ASSUME NEW i \in 1..Len(ss), NEW j \in 1..Len(ss[i])
       PROVE  \E k \in 1..N : Flat(ss)[k] = ss[i][j]
  <2>1. <<i, j>> \in P
    BY <1>1
  <2>2. C(<<i, j>>) \in 1..N /\ SlotAt(ss, C(<<i, j>>)) = <<i, j>>
    BY <2>1, <1>4, <1>10
  <2>3. Flat(ss)[C(<<i, j>>)] = ss[i][j]
    BY <2>2, <1>11
  <2>4. QED
    BY <2>2, <2>3
<1>16. ASSUME \A p, q \in P : ss[p[1]][p[2]] = ss[q[1]][q[2]] => p = q,
              NEW k \in 1..N, NEW l \in 1..N, Flat(ss)[k] = Flat(ss)[l]
       PROVE  k = l
  <2>1. SlotAt(ss, k) = SlotAt(ss, l)
    BY <1>9, <1>11, <1>16
  <2>2. QED
    BY <2>1, <1>9
<1>17. QED
    BY <1>13, <1>14, <1>15, <1>16 DEF P

=============================================================================
