----------------------------- MODULE DataLemmas -----------------------------
(***************************************************************************)
(* Facts about prefixes of sequences, greatest numbers, remainders and     *)
(* induction that the other proofs share.  The induction principles are    *)
(* stated with sets instead of operators, which is what lets the proofs    *)
(* use them.                                                               *)
(***************************************************************************)
EXTENDS Naturals, Sequences, FiniteSets, FiniteSetsExt, SequencesExt,
        SequenceTheorems, FiniteSetTheorems, WellFoundedInduction, TLAPS

(***************************************************************************)
(* Prefixes.                                                               *)
(***************************************************************************)
\* A prefix, element by element.
LEMMA PrefixMeans ==
  ASSUME NEW S, NEW s \in Seq(S), NEW t \in Seq(S)
  PROVE  IsPrefix(s, t) <=> /\ Len(s) <= Len(t)
                            /\ \A i \in 1 .. Len(s) : s[i] = t[i]
<1>1. ASSUME Len(s) <= Len(t)
      PROVE  /\ SubSeq(s, 1, Len(s)) = [i \in 1 .. Len(s) |-> s[i]]
             /\ SubSeq(t, 1, Len(s)) = [i \in 1 .. Len(s) |-> t[i]]
  BY <1>1
<1> QED
  BY <1>1 DEF IsPrefix

LEMMA PrefixRefl ==
  ASSUME NEW S, NEW s \in Seq(S)
  PROVE  IsPrefix(s, s)
  BY DEF IsPrefix

LEMMA PrefixEmpty ==
  ASSUME NEW S, NEW t \in Seq(S)
  PROVE  IsPrefix(<<>>, t)
<1>1. <<>> \in Seq(S) /\ Len(<<>>) = 0 /\ Len(t) \in Nat
  OBVIOUS
<1>2. Len(<<>>) <= Len(t) /\ 1 .. Len(<<>>) = {}
  BY <1>1
<1>3. \A i \in 1 .. Len(<<>>) : <<>>[i] = t[i]
  BY <1>2
<1> QED
  BY <1>1, <1>2, <1>3, PrefixMeans

LEMMA PrefixTrans ==
  ASSUME NEW S, NEW s \in Seq(S), NEW t \in Seq(S), NEW u \in Seq(S),
         IsPrefix(s, t), IsPrefix(t, u)
  PROVE  IsPrefix(s, u)
  BY PrefixMeans

LEMMA PrefixWhole ==
  ASSUME NEW S, NEW s \in Seq(S), NEW t \in Seq(S),
         IsPrefix(s, t), Len(s) = Len(t)
  PROVE  s = t
<1>1. \A i \in 1 .. Len(s) : s[i] = t[i]
  BY PrefixMeans
<1> QED
  BY <1>1, SeqEqual

LEMMA PrefixConcat ==
  ASSUME NEW S, NEW s \in Seq(S), NEW t \in Seq(S)
  PROVE  s \o t \in Seq(S) /\ IsPrefix(s, s \o t)
<1>1. s \o t \in Seq(S)
  OBVIOUS
<1>2. Len(s) <= Len(s \o t) /\ \A i \in 1 .. Len(s) : s[i] = (s \o t)[i]
  OBVIOUS
<1> QED
  BY <1>1, <1>2, PrefixMeans

\* A concatenation, element by element.
LEMMA ConcatMeans ==
  ASSUME NEW S, NEW s \in Seq(S), NEW t \in Seq(S)
  PROVE  /\ s \o t \in Seq(S)
         /\ Len(s \o t) = Len(s) + Len(t)
         /\ \A i \in 1 .. Len(s) : (s \o t)[i] = s[i]
         /\ \A i \in 1 .. Len(t) : (s \o t)[Len(s) + i] = t[i]
  OBVIOUS

LEMMA AppendMeans ==
  ASSUME NEW S, NEW s \in Seq(S), NEW e \in S
  PROVE  /\ Len(Append(s, e)) = Len(s) + 1
         /\ \A i \in 1 .. Len(s) : Append(s, e)[i] = s[i]
         /\ Append(s, e)[Len(s) + 1] = e
  OBVIOUS

\* Two sequences that are the same up to n and the same behind n.
LEMMA SameJoin ==
  ASSUME NEW S, NEW s \in Seq(S), NEW t \in Seq(S),
         NEW n \in Nat, NEW k \in Nat,
         Len(s) = n + k, Len(t) = n + k,
         \A i \in 1 .. n : s[i] = t[i],
         \A i \in 1 .. k : s[n + i] = t[n + i]
  PROVE  s = t
<1>1. ASSUME NEW i \in 1 .. Len(s)
      PROVE  s[i] = t[i]
  <2>1. CASE i <= n
    BY <2>1
  <2>2. CASE i > n
    <3>1. i - n \in 1 .. k /\ n + (i - n) = i
      BY <2>2
    <3> QED
      BY <3>1
  <2> QED
    BY <2>1, <2>2
<1> QED
  BY <1>1, SeqEqual

LEMMA ConcatAppend ==
  ASSUME NEW S, NEW s \in Seq(S), NEW t \in Seq(S), NEW e \in S
  PROVE  s \o Append(t, e) = Append(s \o t, e)
<1>1. <<e>> \in Seq(S) /\ s \o t \in Seq(S)
  OBVIOUS
<1>2. Append(t, e) = t \o <<e>> /\ Append(s \o t, e) = (s \o t) \o <<e>>
  BY <1>1, AppendIsConcat
<1> QED
  BY <1>1, <1>2, ConcatAssociative

LEMMA PrefixAppend ==
  ASSUME NEW S, NEW s \in Seq(S), NEW e \in S
  PROVE  Append(s, e) \in Seq(S) /\ IsPrefix(s, Append(s, e))
<1>1. Append(s, e) \in Seq(S)
  OBVIOUS
<1>2. /\ Len(s) <= Len(Append(s, e))
      /\ \A i \in 1 .. Len(s) : s[i] = Append(s, e)[i]
  OBVIOUS
<1> QED
  BY <1>1, <1>2, PrefixMeans

(***************************************************************************)
(* Numbers.                                                                *)
(***************************************************************************)
\* Max is the greatest element where there is one.
LEMMA GreatestIsMax ==
  ASSUME NEW D, D \subseteq Nat, NEW m \in D, \A i \in D : i <= m
  PROVE  Max(D) = m
<1> DEFINE IsMax(x) == x \in D /\ \A y \in D : x >= y
<1>1. Max(D) = CHOOSE x : IsMax(x)
  BY DEF Max
<1>2. IsMax(m)
  OBVIOUS
<1>3. IsMax(Max(D))
  <2> HIDE DEF IsMax
  <2> QED
    BY <1>1, <1>2, Zenon
<1>4. Max(D) \in D /\ Max(D) >= m
  BY <1>3
<1>5. Max(D) \in Nat /\ m \in Nat /\ Max(D) <= m
  BY <1>4
<1> QED
  BY <1>4, <1>5

\* Induction over the numbers, as a statement about sets.
LEMMA NatSetInduction ==
  ASSUME NEW D, 0 \in D, \A n \in Nat : n \in D => n + 1 \in D
  PROVE  Nat \subseteq D
<1> DEFINE R == OpToRel(<, Nat)
           Missing == Nat \ D
<1>1. ASSUME Missing # {}
      PROVE  \E x \in Missing : \A y \in Missing : <<y, x>> \notin R
  BY <1>1, NatLessThanWellFounded, WFMin
<1>2. ASSUME NEW x \in Missing, NEW y \in Missing, <<y, x>> \notin R
      PROVE  ~(y < x)
  BY <1>2 DEF OpToRel
<1>3. ASSUME NEW x \in Missing
      PROVE  \E y \in Missing : y < x
  <2>1. x \in Nat /\ x # 0 /\ x - 1 \in Nat
    OBVIOUS
  <2>2. x - 1 \notin D
    BY <2>1
  <2> QED
    BY <2>1, <2>2
<1> QED
  BY <1>1, <1>2, <1>3

(***************************************************************************)
(* Finite sets.                                                            *)
(***************************************************************************)
\* Induction over the subsets of a finite set, as a statement about sets.
LEMMA SubsetInduction ==
  ASSUME NEW V, IsFiniteSet(V), NEW D,
         \A s \in SUBSET V : (\A u \in SUBSET s : u # s => u \in D) => s \in D
  PROVE  SUBSET V \subseteq D
<1> DEFINE Missing == (SUBSET V) \ D
           R == StrictSubsetOrdering(V)
<1>1. IsWellFoundedOn(R, SUBSET V)
  BY FS_StrictSubsetOrderingWellFounded, FS_FiniteSubsetsOfFinite
<1>2. ASSUME Missing # {}
      PROVE  FALSE
  <2>1. Missing \subseteq SUBSET V
    OBVIOUS
  <2> HIDE DEF Missing, R
  <2>2. PICK s \in Missing : \A u \in Missing : <<u, s>> \notin R
    BY <1>1, <1>2, <2>1, WFMin
  <2>3. ASSUME NEW u \in SUBSET s, u # s
        PROVE  u \in D
    <3>1. <<u, s>> \in R
      BY <2>1, <2>3 DEF StrictSubsetOrdering, R
    <3>2. u \notin Missing
      BY <2>2, <3>1
    <3> QED
      BY <2>1, <3>2 DEF Missing
  <2>4. s \in SUBSET V /\ s \notin D
    BY DEF Missing
  <2> QED
    BY <2>3, <2>4
<1> QED
  BY <1>2

\* Of two prefixes of one sequence one is a prefix of the other.
LEMMA PrefixesCompare ==
  ASSUME NEW S, NEW s \in Seq(S), NEW t \in Seq(S), NEW u \in Seq(S),
         IsPrefix(s, u), IsPrefix(t, u)
  PROVE  IsPrefix(s, t) \/ IsPrefix(t, s)
<1>1. /\ Len(s) <= Len(u) /\ \A i \in 1 .. Len(s) : s[i] = u[i]
      /\ Len(t) <= Len(u) /\ \A i \in 1 .. Len(t) : t[i] = u[i]
  BY PrefixMeans
<1>2. CASE Len(s) <= Len(t)
  BY <1>1, <1>2, PrefixMeans
<1>3. CASE Len(t) <= Len(s)
  BY <1>1, <1>3, PrefixMeans
<1> QED
  BY <1>2, <1>3

\* A finite set of numbers has a greatest one, and Max gives it.
LEMMA MaxMeans ==
  ASSUME NEW S, S \subseteq Nat, IsFiniteSet(S), S # {}
  PROVE  Max(S) \in S /\ \A i \in S : i <= Max(S)
<1> DEFINE D == {s \in SUBSET S : s # {} => \E m \in s : \A i \in s : i <= m}
<1>1. ASSUME NEW s \in SUBSET S, \A u \in SUBSET s : u # s => u \in D
      PROVE  s \in D
  <2> SUFFICES ASSUME NEW x \in s
               PROVE  \E m \in s : \A i \in s : i <= m
    OBVIOUS
  <2>1. s \ {x} \in D
    BY <1>1
  <2>2. CASE s \ {x} = {}
    BY <2>2
  <2>3. CASE s \ {x} # {}
    <3>1. PICK m \in s \ {x} : \A i \in s \ {x} : i <= m
      BY <2>1, <2>3
    <3> QED
      BY <3>1
  <2> QED
    BY <2>2, <2>3
<1> HIDE DEF D
<1>2. SUBSET S \subseteq D
  BY <1>1, SubsetInduction
<1>3. PICK m \in S : \A i \in S : i <= m
  BY <1>2 DEF D
<1> QED
  BY <1>3, GreatestIsMax

\* Every set of numbers has a least one, and Min gives it.
LEMMA MinMeans ==
  ASSUME NEW S, S \subseteq Nat, S # {}
  PROVE  Min(S) \in S /\ \A i \in S : Min(S) <= i
<1> DEFINE IsMin(x) == x \in S /\ \A y \in S : x =< y
<1>1. \E x : IsMin(x)
  <2>1. PICK x \in S : \A y \in S : <<y, x>> \notin OpToRel(<, Nat)
    BY NatLessThanWellFounded, WFMin
  <2>2. \A y \in S : ~(y < x)
    BY <2>1 DEF OpToRel
  <2> QED
    BY <2>2
<1>2. Min(S) = CHOOSE x : IsMin(x)
  BY DEF Min
<1>3. IsMin(Min(S))
  <2> HIDE DEF IsMin
  <2> QED
    BY <1>1, <1>2, Zenon
<1> QED
  BY <1>3

\* The elements of a finite set of numbers have ranks from 0 on, without a
\* gap.
LEMMA EveryRankTaken ==
  ASSUME NEW S, S \subseteq Nat, IsFiniteSet(S),
         NEW k \in 0 .. Cardinality(S) - 1
  PROVE  \E h \in S : Cardinality({g \in S : g < h}) = k
<1> DEFINE below(h) == {g \in S : g < h}
           n == Cardinality(S)
           f == [h \in S |-> Cardinality(below(h))]
<1>1. n \in Nat
  BY FS_CardinalityType
<1>2. ASSUME NEW h \in S
      PROVE  /\ IsFiniteSet(below(h))
             /\ Cardinality(below(h)) \in 0 .. n - 1
  <2>1. below(h) \in SUBSET S /\ below(h) # S
    OBVIOUS
  <2>2. /\ IsFiniteSet(below(h))
        /\ Cardinality(below(h)) <= n
        /\ Cardinality(below(h)) # n
    BY <2>1, FS_Subset
  <2>3. Cardinality(below(h)) \in Nat
    BY <2>2, FS_CardinalityType
  <2> QED
    BY <1>1, <2>2, <2>3
<1>3. ASSUME NEW g \in S, NEW h \in S, g < h
      PROVE  Cardinality(below(g)) # Cardinality(below(h))
  <2>1. g \in below(h) /\ g \notin below(g)
    BY <1>3
  <2>2. below(g) \in SUBSET below(h)
    <3>1. ASSUME NEW i \in S, i < g
          PROVE  i < h
      <4>1. i \in Nat /\ g \in Nat /\ h \in Nat
        OBVIOUS
      <4> QED
        BY <1>3, <3>1, <4>1
    <3> QED
      BY <3>1
  <2>3. IsFiniteSet(below(h))
    BY <1>2
  <2> HIDE DEF below
  <2> QED
    BY <2>1, <2>2, <2>3, FS_Subset
<1>4. f \in [S -> 0 .. n - 1]
  BY <1>2
<1>5. ASSUME NEW g \in S, NEW h \in S, f[g] = f[h]
      PROVE  g = h
  <2>1. g \in Nat /\ h \in Nat
    OBVIOUS
  <2>2. ~(g < h) /\ ~(h < g)
    BY <1>3, <1>5
  <2> QED
    BY <2>1, <2>2
<1> HIDE DEF f, n
<1>6. f \in Injection(S, 0 .. n - 1)
  BY <1>4, <1>5 DEF Injection, IsInjective
<1>7. IsFiniteSet(0 .. n - 1) /\ Cardinality(0 .. n - 1) = n
  BY <1>1, FS_Interval
<1>8. f \in Surjection(S, 0 .. n - 1)
  BY <1>6, <1>7, FS_Injection DEF n
<1>9. PICK h \in S : f[h] = k
  BY <1>8 DEF Surjection, n
<1> QED
  BY <1>9 DEF f

(***************************************************************************)
(* Remainders.                                                             *)
(***************************************************************************)
\* Two remainders that are a multiple apart are the same.
LEMMA NoMultiple ==
  ASSUME NEW n \in Nat \ {0}, NEW j \in Int,
         NEW r \in 0 .. n - 1, NEW s \in 0 .. n - 1, n * j = r - s
  PROVE  r = s
<1>1. CASE j >= 1
  <2> DEFINE x == n * (j - 1)
             y == n * j
  <2>1. x \in Nat /\ y = x + n
    BY <1>1
  <2>2. y = r - s
    OBVIOUS
  <2> HIDE DEF x, y
  <2> QED
    BY <2>1, <2>2
<1>2. CASE j <= -1
  <2> DEFINE x == n * (-1 - j)
             y == n * j
  <2>1. x \in Nat /\ y = (-n) - x
    BY <1>2
  <2>2. y = r - s
    OBVIOUS
  <2> HIDE DEF x, y
  <2> QED
    BY <2>1, <2>2
<1>3. CASE j = 0
  BY <1>3
<1> QED
  BY <1>1, <1>2, <1>3

LEMMA RemainderIs ==
  ASSUME NEW n \in Nat \ {0}, NEW q \in Nat, NEW c \in 0 .. n - 1
  PROVE  (n * q + c) % n = c
<1> DEFINE x == n * q + c
           p == x \div n
           s == x % n
<1>1. x \in Nat
  OBVIOUS
<1>2. x = n * p + s /\ p \in Int /\ s \in 0 .. n - 1
  BY <1>1
<1>3. x = n * q + c
  OBVIOUS
<1> HIDE DEF x, p, s
<1>4. n * (p - q) = n * p - n * q /\ p - q \in Int
  BY <1>2
<1>5. n * (p - q) = c - s
  BY <1>2, <1>3, <1>4
<1>6. s = c
  BY <1>2, <1>4, <1>5, NoMultiple
<1> QED
  BY <1>6 DEF s, x

\* Counting n times from b on meets every remainder.
LEMMA EveryRemainderMet ==
  ASSUME NEW n \in Nat \ {0}, NEW b \in Nat, NEW c \in 0 .. n - 1
  PROVE  \E o \in 0 .. n - 1 : (b + o) % n = c
<1> DEFINE q == b \div n
           r == b % n
<1>1. b = n * q + r /\ q \in Nat /\ r \in 0 .. n - 1
  OBVIOUS
<1> HIDE DEF q, r
<1>2. CASE r <= c
  <2> DEFINE o == c - r
  <2>1. o \in 0 .. n - 1 /\ b + o = n * q + c
    BY <1>1, <1>2
  <2>2. (b + o) % n = c
    BY <1>1, <2>1, RemainderIs
  <2> QED
    BY <2>1, <2>2
<1>3. CASE c < r
  <2> DEFINE o == n + c - r
             p == q + 1
  <2>1. n * p = n * q + n /\ p \in Nat
    BY <1>1
  <2>2. o \in 0 .. n - 1 /\ b + o = n * p + c
    BY <1>1, <1>3, <2>1
  <2>3. (b + o) % n = c
    BY <2>1, <2>2, RemainderIs
  <2> QED
    BY <2>2, <2>3
<1> QED
  BY <1>1, <1>2, <1>3

(***************************************************************************)
(* Reachability: some function gives each element what can be reached from *)
(* it by the edges P.                                                      *)
(***************************************************************************)
IsReach(f, D, P) ==
  f = [h \in D |-> {h} \cup UNION {f[p] : p \in P[h]}]

LEMMA ReachExists ==
  ASSUME NEW D, NEW P, \A h \in D : P[h] \subseteq D
  PROVE  \E f : IsReach(f, D, P)
<1> DEFINE Closed(S) == \A s \in S : P[s] \subseteq S
           InAll(g, h) == \A S \in SUBSET D : h \in S /\ Closed(S) => g \in S
           reach(h) == {g \in D : InAll(g, h)}
           f == [h \in D |-> reach(h)]
           step(h) == {h} \cup UNION {f[p] : p \in P[h]}
<1>1. ASSUME NEW h \in D
      PROVE  reach(h) = step(h)
  <2>1. \A p \in P[h] : p \in D /\ f[p] = reach(p)
    OBVIOUS
  <2>2. ASSUME NEW g \in step(h)
        PROVE  g \in reach(h)
    <3>1. CASE g = h
      BY <3>1
    <3>2. ASSUME NEW p \in P[h], g \in f[p]
          PROVE  g \in reach(h)
      <4>1. g \in reach(p)
        BY <2>1, <3>2
      <4>2. ASSUME NEW S \in SUBSET D, h \in S, Closed(S)
            PROVE  g \in S
        BY <4>1, <4>2
      <4> QED
        BY <4>1, <4>2
    <3> QED
      BY <2>2, <3>1, <3>2
  <2>3. step(h) \subseteq D
    BY <2>1
  <2>4. Closed(step(h))
    <3> SUFFICES ASSUME NEW s \in step(h), NEW e \in P[s]
                 PROVE  e \in step(h)
      OBVIOUS
    <3>1. s \in D /\ e \in D
      BY <2>3
    <3>2. CASE s = h
      <4>1. e \in reach(e) /\ f[e] = reach(e)
        BY <2>1, <3>1, <3>2
      <4> HIDE DEF f, reach
      <4> QED
        BY <3>2, <4>1
    <3>3. ASSUME NEW p \in P[h], s \in f[p]
          PROVE  e \in step(h)
      <4>1. s \in reach(p)
        BY <2>1, <3>3
      <4>2. e \in reach(p)
        <5>1. ASSUME NEW S \in SUBSET D, p \in S, Closed(S)
              PROVE  e \in S
          <6>1. s \in S
            BY <4>1, <5>1
          <6> QED
            BY <5>1, <6>1
        <5>2. InAll(e, p)
          BY <5>1, Zenon
        <5> HIDE DEF InAll
        <5> QED
          BY <3>1, <5>2
      <4>3. f[p] = reach(p)
        BY <2>1
      <4> HIDE DEF f, reach
      <4> QED
        BY <4>2, <4>3
    <3> QED
      BY <3>2, <3>3
  <2>5. ASSUME NEW g \in reach(h)
        PROVE  g \in step(h)
    BY <2>3, <2>4, <2>5
  <2> QED
    BY <2>2, <2>5
<1>2. IsReach(f, D, P)
  BY <1>1 DEF IsReach
<1> QED
  BY <1>2
=============================================================================
