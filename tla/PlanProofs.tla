----------------------------- MODULE PlanProofs -----------------------------
(***************************************************************************)
(* What the planners make of every set of addresses, whatever the limit of *)
(* a transaction, the shortest span and the widest gap: planWrites and     *)
(* buildReadPlan cover the addresses with spans that are sorted and apart, *)
(* and locate finds every one of them.                                     *)
(*                                                                         *)
(* Both algorithms are recursive functions.  The library's theorems of     *)
(* induction take an operator that no prover can instantiate; here the     *)
(* induction is over a set of natural numbers, which needs none.           *)
(***************************************************************************)
EXTENDS ReadPlan, NaturalsInduction, WellFoundedInduction, FiniteSetTheorems,
        SequenceTheorems, TLAPS

-----------------------------------------------------------------------------
(* Induction.                                                              *)

LEMMA LessThan == \E R : IsWellFoundedOn(R, Nat) /\ \A x, y \in Nat : x < y => <<x, y>> \in R
<1>1. \A x, y \in Nat : x < y => <<x, y>> \in OpToRel(<, Nat)
  BY DEF OpToRel
<1> QED
  BY <1>1, NatLessThanWellFounded

\* A set of natural numbers that is not empty has a least member.
LEMMA LeastNatural ==
    ASSUME NEW T, T \subseteq Nat, T # {}
    PROVE  \E x \in T : \A y \in T : x <= y
<1>1. PICK R : IsWellFoundedOn(R, Nat) /\ \A x, y \in Nat : x < y => <<x, y>> \in R
  BY LessThan
<1>2. \A S : IsWellFoundedOn(R, S) =>
        \A U : U \subseteq S /\ U # {} => \E x \in U : \A y \in U : ~(<<y, x>> \in R)
  BY WFMin
<1>3. PICK x \in T : \A y \in T : ~(<<y, x>> \in R)
  BY <1>1, <1>2
<1>4. ASSUME NEW y \in T PROVE x <= y
  <2>1. x \in Nat /\ y \in Nat /\ ~(y < x)
    BY <1>1, <1>3
  <2> QED
    BY <2>1
<1> QED
  BY <1>4

\* A set of natural numbers that has each number when it has all smaller ones has all.
LEMMA StrongInduction ==
    ASSUME NEW T, T \subseteq Nat, \A n \in Nat : (\A m \in Nat : m < n => m \in T) => n \in T
    PROVE  T = Nat
<1> SUFFICES ASSUME Nat \ T # {} PROVE FALSE
  OBVIOUS
<1>1. PICK x \in Nat \ T : \A y \in Nat \ T : x <= y
  BY LeastNatural
<1> QED
  BY <1>1

-----------------------------------------------------------------------------
(* The lowest and the highest address.                                     *)

LEMMA LowestIs ==
    ASSUME NEW S, S \subseteq Nat, S # {}
    PROVE  Lowest(S) \in S /\ \A b \in S : Lowest(S) <= b
BY LeastNatural DEF Lowest

\* A finite set of natural numbers is bounded.
LEMMA Bounded ==
    ASSUME NEW S, S \subseteq Nat, IsFiniteSet(S)
    PROVE  \E n \in Nat : \A b \in S : b <= n
<1> DEFINE T == {n \in Nat : \A U \in SUBSET Nat :
                    IsFiniteSet(U) /\ Cardinality(U) = n => \E m \in Nat : \A b \in U : b <= m}
<1>1. ASSUME NEW n \in Nat, \A m \in Nat : m < n => m \in T PROVE n \in T
  <2> SUFFICES ASSUME NEW U \in SUBSET Nat, IsFiniteSet(U), Cardinality(U) = n
               PROVE  \E m \in Nat : \A b \in U : b <= m
    OBVIOUS
  <2>1. CASE U = {}
    BY <2>1
  <2>2. CASE U # {}
    <3>1. PICK x \in U : TRUE
      BY <2>2
    <3>2. IsFiniteSet(U \ {x}) /\ Cardinality(U \ {x}) = n - 1 /\ n - 1 \in Nat
      <4> HIDE DEF T
      <4>1. IsFiniteSet(U \ {x}) /\ Cardinality(U \ {x}) = Cardinality(U) - 1
        BY FS_RemoveElement
      <4>2. Cardinality(U \ {x}) \in Nat
        BY <4>1, FS_CardinalityType
      <4> QED
        BY <4>1, <4>2
    <3>3. PICK m \in Nat : \A b \in U \ {x} : b <= m
      BY <1>1, <3>2
    <3>4. x \in Nat /\ m + x \in Nat /\ \A b \in U : b <= m + x
      BY <3>3
    <3> QED
      BY <3>4
  <2> QED
    BY <2>1, <2>2
<1>2. T = Nat
  <2> HIDE DEF T
  <2>1. T \subseteq Nat
    BY DEF T
  <2> QED
    BY <1>1, <2>1, StrongInduction
<1>3. Cardinality(S) \in Nat
  BY FS_CardinalityType
<1>4. Cardinality(S) \in T
  <2> HIDE DEF T
  <2> QED
    BY <1>2, <1>3
<1> QED
  BY <1>4

LEMMA HighestIs ==
    ASSUME NEW S, S \subseteq Nat, S # {}, IsFiniteSet(S)
    PROVE  Highest(S) \in S /\ \A b \in S : b <= Highest(S)
<1>1. PICK n \in Nat : \A b \in S : b <= n
  BY Bounded
<1> DEFINE T == {m \in Nat : \A b \in S : b <= m}
<1>2. PICK x \in T : \A y \in T : x <= y
  <2>1. n \in T
    BY <1>1
  <2> QED
    BY <2>1, LeastNatural
<1>3. x \in S
  <2> SUFFICES ASSUME x \notin S PROVE FALSE
    OBVIOUS
  <2>1. \A b \in S : b < x /\ b <= x - 1
    BY <1>2
  <2>2. PICK b \in S : b \in Nat /\ b < x
    BY <2>1
  <2>3. x - 1 \in Nat /\ x \in Nat
    BY <1>2, <2>2
  <2>4. x - 1 \in T
    BY <2>1, <2>3
  <2> QED
    BY <1>2, <2>3, <2>4
<1>4. \E a \in S : \A b \in S : b <= a
  BY <1>2, <1>3
<1> QED
  BY <1>4 DEF Highest

LEMMA IntervalEnds ==
    ASSUME NEW a \in Nat, NEW b \in Nat, a <= b
    PROVE  /\ Lowest(a..b) = a /\ Highest(a..b) = b
           /\ IsFiniteSet(a..b) /\ Cardinality(a..b) = b - a + 1
<1>1. a..b \subseteq Nat /\ a \in a..b /\ b \in a..b
  OBVIOUS
<1>2. IsFiniteSet(a..b) /\ Cardinality(a..b) = b - a + 1
  BY FS_Interval
<1>3. Lowest(a..b) \in a..b /\ Lowest(a..b) <= a
  BY <1>1, LowestIs
<1>4. Highest(a..b) \in a..b /\ b <= Highest(a..b)
  BY <1>1, <1>2, HighestIs
<1> QED
  BY <1>2, <1>3, <1>4

-----------------------------------------------------------------------------
(* The parts of a plan.                                                    *)

LEMMA FirstGroupIs ==
    ASSUME NEW S, S \subseteq Nat, S # {}, NEW limit \in Nat \ {0}, NEW gap \in Nat
    PROVE  LET group == FirstGroup(S, limit, gap)
           IN  /\ group \subseteq S /\ group # {}
               /\ \A a \in group : \A b \in S \ group : a < b
               /\ \A a, b \in group : b - a < limit
               /\ gap = 0 => \A a, b \in group : a..b \subseteq group
<1> DEFINE start == Lowest(S)
           group == FirstGroup(S, limit, gap)
<1>1. start \in S /\ start \in Nat /\ \A b \in S : start <= b /\ b \in Nat
  BY LowestIs
<1>2. group \subseteq S
  BY DEF FirstGroup
<1>3. start \in group
  BY <1>1 DEF FirstGroup
<1>4. \A a \in group : a - start + 1 <= limit
  BY DEF FirstGroup
<1> HIDE DEF group, start
<1>5. ASSUME NEW a \in group, NEW b \in S, b <= a PROVE b \in group
  <2>1. a \in Nat /\ b \in Nat /\ b - start + 1 <= limit
    BY <1>1, <1>2, <1>4, <1>5
  <2>2. \A c \in S : start < c /\ c <= b => start < c /\ c <= a
    BY <1>1, <1>5, <2>1
  <2>3. \A c \in S : start < c /\ c <= a => \E d \in S : d < c /\ c - d - 1 <= gap
    BY DEF FirstGroup, group, start
  <2> QED
    BY <2>1, <2>2, <2>3 DEF FirstGroup, group, start
<1>6. \A a \in group : \A b \in S \ group : a < b
  BY <1>1, <1>2, <1>5
<1>7. \A a, b \in group : b - a < limit
  <2> SUFFICES ASSUME NEW a \in group, NEW b \in group PROVE b - a < limit
    OBVIOUS
  <2>1. a \in Nat /\ b \in Nat /\ start <= a /\ b - start + 1 <= limit /\ start \in Nat
    BY <1>1, <1>2, <1>4
  <2> QED
    BY <2>1
<1>8. ASSUME gap = 0, NEW a \in group, NEW b \in group, NEW x \in a..b PROVE x \in group
  <2> SUFFICES ASSUME x \notin group PROVE FALSE
    OBVIOUS
  <2>0. a \in Nat /\ b \in Nat /\ x \in Nat /\ a <= x /\ x <= b
    BY <1>1, <1>2
  <2> DEFINE above == {y \in group : y > x}
  <2>1. b \in above /\ above \subseteq Nat
    <3>1. group \subseteq Nat /\ b # x
      BY <1>2, <1>8
    <3>2. b > x
      BY <2>0, <3>1
    <3> QED
      BY <1>8, <3>1, <3>2
  <2>2. PICK y \in above : \A z \in above : y <= z
    BY <2>1, LeastNatural
  <2>3. y \in group /\ y \in S /\ y \in Nat /\ x < y /\ start < y
    BY <1>1, <1>2, <2>0, <2>2
  <2>4. PICK c \in S : c < y /\ y - c - 1 <= gap
    BY <2>3 DEF FirstGroup, group, start
  <2>5. c \in Nat /\ c = y - 1 /\ c \in group
    BY <1>1, <1>5, <1>8, <2>3, <2>4
  <2>6. c # x /\ c > x
    BY <2>0, <2>3, <2>5
  <2>7. c \in above /\ c < y
    BY <2>3, <2>5, <2>6
  <2> QED
    BY <2>2, <2>3, <2>5, <2>7
<1> QED
  BY <1>2, <1>3, <1>6, <1>7, <1>8 DEF group

LEMMA NthIs ==
    ASSUME NEW S, S \subseteq Nat, IsFiniteSet(S)
    PROVE  /\ \A i \in 1..Cardinality(S) : Nth(S, i) \in S
           /\ \A i, j \in 1..Cardinality(S) : i < j => Nth(S, i) < Nth(S, j)
           /\ \A a \in S : \E i \in 1..Cardinality(S) : Nth(S, i) = a
<1> DEFINE n == Cardinality(S)
           upTo(a) == {b \in S : b <= a}
           rank == [a \in S |-> Cardinality(upTo(a))]
<1>0. n \in Nat
  BY FS_CardinalityType
<1>1. ASSUME NEW a \in S PROVE rank[a] \in 1..n /\ IsFiniteSet(upTo(a))
  <2>1. upTo(a) \in SUBSET S /\ a \in upTo(a) /\ upTo(a) # {}
    OBVIOUS
  <2>2. IsFiniteSet(upTo(a)) /\ Cardinality(upTo(a)) <= n
    BY <2>1, FS_Subset
  <2>3. Cardinality(upTo(a)) \in Nat /\ Cardinality(upTo(a)) # 0
    BY <2>1, <2>2, FS_CardinalityType, FS_EmptySet
  <2> QED
    BY <1>0, <2>2, <2>3
<1>2. ASSUME NEW a \in S, NEW b \in S, a < b PROVE rank[a] < rank[b]
  <2>1. a \in Nat /\ b \in Nat /\ b \notin upTo(a) /\ b \in upTo(b)
    BY <1>2
  <2>2. upTo(a) \in SUBSET upTo(b) /\ upTo(a) # upTo(b)
    <3>1. \A c \in S : c <= a => c <= b
      BY <1>2, <2>1
    <3> QED
      BY <2>1, <3>1
  <2>3. IsFiniteSet(upTo(b)) /\ rank[a] \in 1..n /\ rank[b] \in 1..n
    BY <1>1
  <2>4. Cardinality(upTo(a)) <= Cardinality(upTo(b)) /\ Cardinality(upTo(a)) # Cardinality(upTo(b))
    BY <2>2, <2>3, FS_Subset
  <2> QED
    BY <2>3, <2>4
<1>3. rank \in Injection(S, 1..n)
  <2> HIDE DEF rank
  <2>1. rank \in [S -> 1..n]
    <3>1. rank = [a \in S |-> rank[a]]
      BY DEF rank
    <3> QED
      BY <1>1, <3>1
  <2>2. ASSUME NEW a \in S, NEW b \in S, rank[a] = rank[b] PROVE a = b
    <3>1. a \in Nat /\ b \in Nat /\ rank[a] \in Int /\ ~(a < b) /\ ~(b < a)
      <4>1. rank[a] \in 1..n
        BY <1>1
      <4>2. a \in Nat /\ b \in Nat /\ rank[a] \in Int /\ ~(rank[a] < rank[b]) /\ ~(rank[b] < rank[a])
        BY <1>0, <2>2, <4>1
      <4> QED
        BY <1>2, <4>2
    <3> QED
      BY <3>1
  <2> QED
    BY <2>1, <2>2 DEF Injection, IsInjective
<1>4. rank \in Surjection(S, 1..n)
  <2>1. IsFiniteSet(1..n) /\ Cardinality(1..n) = n
    BY <1>0, FS_Interval
  <2> HIDE DEF rank
  <2> QED
    BY <1>3, <2>1, FS_Injection
<1>5. ASSUME NEW i \in 1..n PROVE Nth(S, i) \in S /\ rank[Nth(S, i)] = i
  <2>1. \E a \in S : rank[a] = i
    <3> HIDE DEF rank
    <3> QED
      BY <1>4 DEF Surjection
  <2>2. \E a \in S : Cardinality({b \in S : b <= a}) = i
    BY <2>1
  <2>3. Nth(S, i) \in S /\ Cardinality({b \in S : b <= Nth(S, i)}) = i
    BY <2>2 DEF Nth
  <2> QED
    BY <2>3
<1>6. ASSUME NEW i \in 1..n, NEW j \in 1..n, i < j PROVE Nth(S, i) < Nth(S, j)
  <2> HIDE DEF rank
  <2>1. rank[Nth(S, i)] = i /\ rank[Nth(S, j)] = j /\ Nth(S, i) \in Nat /\ Nth(S, j) \in Nat
    BY <1>5
  <2>2. ~(Nth(S, j) < Nth(S, i)) /\ Nth(S, i) # Nth(S, j)
    BY <1>2, <1>5, <1>6, <2>1
  <2> QED
    BY <2>1, <2>2
<1>7. ASSUME NEW a \in S PROVE \E i \in 1..n : Nth(S, i) = a
  <2> HIDE DEF rank
  <2>1. rank[a] \in 1..n /\ Nth(S, rank[a]) \in S /\ rank[Nth(S, rank[a])] = rank[a]
    BY <1>1, <1>5
  <2>2. Nth(S, rank[a]) = a
    BY <1>3, <2>1 DEF Injection, IsInjective
  <2> QED
    BY <2>1, <2>2
<1> QED
  BY <1>5, <1>6, <1>7

\* A span of a plan for S: from one of its addresses to another one, of at most
\* limit addresses, and with nothing but addresses of S when no gap is spanned.
SpanOf(S, limit, gap, span) ==
    \E lo, hi \in S : /\ lo <= hi /\ hi - lo < limit /\ span = lo..hi
                      /\ gap = 0 => span \subseteq S

\* Sorted and apart, so that a bisection can search them.
Apart(spans) ==
    \A j, k \in 1..Len(spans) : j < k => \A x \in spans[j], y \in spans[k] : x < y

PlanFor(S, limit, gap, spans) ==
    /\ spans \in Seq(SUBSET Nat)
    /\ \A k \in 1..Len(spans) : SpanOf(S, limit, gap, spans[k])
    /\ \A a \in S : \E k \in 1..Len(spans) : a \in spans[k]
    /\ Apart(spans)

LEMMA EmitSpanIs ==
    ASSUME NEW S, S \subseteq Nat, S # {}, IsFiniteSet(S), NEW limit \in Nat \ {0}, NEW gap \in Nat,
           NEW minRun, \A a, b \in S : b - a < limit,
           gap = 0 => \A a, b \in S : a..b \subseteq S
    PROVE  PlanFor(S, limit, gap, emitSpan(S, minRun))
<1>0. Cardinality(S) \in Nat /\ Cardinality(S) # 0
  BY FS_CardinalityType, FS_EmptySet
<1>1. CASE Cardinality(S) >= minRun
  <2> DEFINE lo == Lowest(S)
             hi == Highest(S)
  <2>1. emitSpan(S, minRun) = <<lo..hi>>
    BY <1>1 DEF emitSpan
  <2>2. /\ lo \in S /\ hi \in S /\ lo \in Nat /\ hi \in Nat
        /\ \A a \in S : lo <= a /\ a <= hi /\ a \in Nat
    BY LowestIs, HighestIs
  <2>3. lo..hi \in SUBSET Nat /\ SpanOf(S, limit, gap, lo..hi)
    <3>1. lo <= hi /\ hi - lo < limit
      BY <2>2
    <3>2. gap = 0 => lo..hi \subseteq S
      BY <2>2
    <3>3. lo..hi \in SUBSET Nat
      BY <2>2
    <3> QED
      BY <2>2, <3>1, <3>2, <3>3 DEF SpanOf
  <2>4. \A a \in S : a \in lo..hi
    BY <2>2
  <2> DEFINE one == <<lo..hi>>
  <2>5. one \in Seq(SUBSET Nat) /\ Len(one) = 1 /\ one[1] = lo..hi
    BY <2>3
  <2> HIDE DEF one
  <2>6. \A k \in 1..Len(one) : k = 1
    BY <2>5
  <2>7. Apart(one)
    BY <2>6 DEF Apart
  <2>8. 1 \in 1..Len(one)
    BY <2>5
  <2>9. PlanFor(S, limit, gap, one)
    BY <2>3, <2>4, <2>5, <2>6, <2>7, <2>8 DEF PlanFor
  <2> QED
    BY <2>1, <2>9 DEF one
<1>2. CASE ~(Cardinality(S) >= minRun)
  <2> DEFINE n == Cardinality(S)
             singles == [i \in 1..n |-> {Nth(S, i)}]
  <2>1. emitSpan(S, minRun) = singles
    BY <1>2 DEF emitSpan
  <2>2. /\ \A i \in 1..n : Nth(S, i) \in S
        /\ \A i, j \in 1..n : i < j => Nth(S, i) < Nth(S, j)
        /\ \A a \in S : \E i \in 1..n : Nth(S, i) = a
    BY NthIs
  <2>3. \A i \in 1..n : singles[i] = {Nth(S, i)}
    OBVIOUS
  <2>4. singles \in Seq(SUBSET Nat) /\ Len(singles) = n
    <3>1. singles \in [1..n -> SUBSET Nat]
      BY <2>2
    <3> QED
      BY <1>0, <3>1
  <2>5. ASSUME NEW i \in 1..n PROVE SpanOf(S, limit, gap, singles[i])
    <3> DEFINE a == Nth(S, i)
    <3>1. a \in S /\ a \in Nat /\ singles[i] = {a}
      BY <2>2, <2>3
    <3>2. a <= a /\ a - a < limit /\ {a} = a..a /\ {a} \subseteq S
      BY <3>1
    <3> QED
      BY <3>1, <3>2 DEF SpanOf
  <2> HIDE DEF singles
  <2>6. \A a \in S : \E k \in 1..n : a \in singles[k]
    BY <2>2, <2>3
  <2>7. Apart(singles)
    BY <2>2, <2>3, <2>4 DEF Apart
  <2> QED
    BY <2>1, <2>4, <2>5, <2>6, <2>7 DEF PlanFor
<1> QED
  BY <1>1, <1>2

\* A plan for the lower addresses, and one for those above them.
LEMMA PlansJoin ==
    ASSUME NEW low, NEW high, low \subseteq Nat, high \subseteq Nat,
           \A a \in low : \A b \in high : a < b,
           NEW limit, NEW gap, NEW p, NEW q,
           PlanFor(low, limit, gap, p), PlanFor(high, limit, gap, q)
    PROVE  PlanFor(low \cup high, limit, gap, p \o q)
<1> DEFINE S == low \cup high
           m == Len(p)
           n == Len(q)
           r == p \o q
<1>1. /\ m \in Nat /\ n \in Nat /\ p \in Seq(SUBSET Nat) /\ q \in Seq(SUBSET Nat)
  BY LenProperties DEF PlanFor
<1>2. /\ r \in Seq(SUBSET Nat) /\ Len(r) = m + n
      /\ \A k \in 1..m + n : r[k] = IF k <= m THEN p[k] ELSE q[k - m]
  BY <1>1, ConcatProperties
<1>3. \A k \in 1..m : k \in 1..m + n /\ r[k] = p[k]
  BY <1>1, <1>2
<1>4. \A k \in 1..n : m + k \in 1..m + n /\ r[m + k] = q[k]
  BY <1>1, <1>2
<1>5. \A k \in 1..m + n : k \in 1..m \/ (k - m \in 1..n /\ r[k] = q[k - m])
  BY <1>1, <1>2
<1> HIDE DEF m, n, r
<1>6. ASSUME NEW T \in {low, high}, NEW span, SpanOf(T, limit, gap, span)
      PROVE  SpanOf(S, limit, gap, span)
  BY <1>6 DEF SpanOf
<1>7. \A k \in 1..m + n : SpanOf(S, limit, gap, r[k])
  BY <1>3, <1>5, <1>6 DEF PlanFor, m, n
<1>8. ASSUME NEW a \in S PROVE \E k \in 1..m + n : a \in r[k]
  BY <1>3, <1>4 DEF PlanFor, m, n
<1>9. \A k \in 1..m : \A x \in p[k] : x \in Nat /\ \E a \in low : x <= a
  <2> SUFFICES ASSUME NEW k \in 1..m, NEW x \in p[k] PROVE x \in Nat /\ \E a \in low : x <= a
    OBVIOUS
  <2>1. PICK lo, hi \in low : p[k] = lo..hi
    BY DEF PlanFor, SpanOf, m
  <2>2. lo \in Nat /\ hi \in Nat
    OBVIOUS
  <2> QED
    BY <2>1, <2>2
<1>10. \A k \in 1..n : \A y \in q[k] : y \in Nat /\ \E b \in high : b <= y
  <2> SUFFICES ASSUME NEW k \in 1..n, NEW y \in q[k] PROVE y \in Nat /\ \E b \in high : b <= y
    OBVIOUS
  <2>1. PICK lo, hi \in high : q[k] = lo..hi
    BY DEF PlanFor, SpanOf, n
  <2>2. lo \in Nat /\ hi \in Nat
    OBVIOUS
  <2> QED
    BY <2>1, <2>2
<1>11. ASSUME NEW j \in 1..m, NEW k \in 1..n, NEW x \in p[j], NEW y \in q[k] PROVE x < y
  <2>1. PICK a \in low, b \in high : x <= a /\ b <= y /\ x \in Nat /\ y \in Nat
    BY <1>9, <1>10
  <2>2. a \in Nat /\ b \in Nat /\ a < b
    OBVIOUS
  <2> QED
    BY <2>1, <2>2
<1>12. ASSUME NEW j \in 1..m + n, NEW k \in 1..m + n, j < k, NEW x \in r[j], NEW y \in r[k]
       PROVE  x < y
  <2>1. CASE j \in 1..m /\ k \in 1..m
    BY <1>3, <1>12, <2>1 DEF PlanFor, Apart, m
  <2>2. CASE j \in 1..m /\ k \notin 1..m
    BY <1>3, <1>5, <1>11, <2>2
  <2>3. CASE j \notin 1..m
    <3>1. k \notin 1..m /\ j - m \in 1..n /\ k - m \in 1..n /\ j - m < k - m
      BY <1>1, <1>5, <1>12, <2>3
    <3> QED
      BY <1>5, <1>12, <2>3, <3>1 DEF PlanFor, Apart, n
  <2> QED
    BY <2>1, <2>2, <2>3
<1> QED
  BY <1>2, <1>7, <1>8, <1>12 DEF PlanFor, Apart, r, m, n

-----------------------------------------------------------------------------
(* The recursion of planWrites.                                            *)

\* One round of the planner, when f is the plan of what is left.
Round(rest, limit, minRun, gap, f) ==
    IF rest = {} THEN <<>>
    ELSE emitSpan(FirstGroup(rest, limit, gap), minRun) \o f[rest \ FirstGroup(rest, limit, gap)]

\* Each round leaves fewer addresses.
LEMMA RoundShrinks ==
    ASSUME NEW S, S \subseteq Nat, IsFiniteSet(S), S # {}, NEW limit \in Nat \ {0}, NEW gap \in Nat
    PROVE  LET left == S \ FirstGroup(S, limit, gap)
           IN  left \subseteq S /\ IsFiniteSet(left) /\ Cardinality(left) < Cardinality(S)
<1> DEFINE left == S \ FirstGroup(S, limit, gap)
<1>0. FirstGroup(S, limit, gap) \subseteq S /\ FirstGroup(S, limit, gap) # {}
  BY FirstGroupIs
<1>1. left \in SUBSET S /\ left # S
  BY <1>0
<1>2. /\ IsFiniteSet(left) /\ Cardinality(left) <= Cardinality(S)
      /\ Cardinality(left) # Cardinality(S)
  BY <1>1, FS_Subset
<1>3. Cardinality(left) \in Nat /\ Cardinality(S) \in Nat
  BY <1>2, FS_CardinalityType
<1> QED
  BY <1>1, <1>2, <1>3

\* There is a function that is one round on every set of addresses.
LEMMA RoundsExist ==
    ASSUME NEW S, S \subseteq Nat, IsFiniteSet(S), NEW limit \in Nat \ {0}, NEW gap \in Nat, NEW minRun
    PROVE  \E f : f = [rest \in SUBSET S |-> Round(rest, limit, minRun, gap, f)]
<1> DEFINE Small(n) == {rest \in SUBSET S : Cardinality(rest) < n}
           left(rest) == rest \ FirstGroup(rest, limit, gap)
           T == {n \in Nat : \E f : f = [rest \in Small(n) |-> Round(rest, limit, minRun, gap, f)]}
<1>1. ASSUME NEW n \in Nat, \A m \in Nat : m < n => m \in T PROVE n \in T
  <2>1. CASE n = 0
    <3>1. Small(n) = {}
      <4> SUFFICES ASSUME NEW rest \in SUBSET S, Cardinality(rest) < n PROVE FALSE
        OBVIOUS
      <4>1. Cardinality(rest) \in Nat
        BY FS_Subset, FS_CardinalityType
      <4> QED
        BY <2>1, <4>1
    <3>2. \A f : [rest \in Small(n) |-> Round(rest, limit, minRun, gap, f)] = [rest \in {} |-> {}]
      BY <3>1
    <3> QED
      BY <3>2
  <2>2. CASE n # 0
    <3>1. n - 1 \in Nat /\ n - 1 < n
      BY <2>2
    <3>2. PICK f : f = [rest \in Small(n - 1) |-> Round(rest, limit, minRun, gap, f)]
      BY <1>1, <3>1
    <3> DEFINE g == [rest \in Small(n) |-> Round(rest, limit, minRun, gap, f)]
    <3>3. ASSUME NEW rest \in Small(n), rest # {}
          PROVE  left(rest) \in Small(n - 1) /\ left(rest) \in Small(n)
      <4>1. IsFiniteSet(rest) /\ rest \subseteq Nat
        BY FS_Subset
      <4>2. left(rest) \subseteq rest /\ IsFiniteSet(left(rest)) /\ Cardinality(left(rest)) < Cardinality(rest)
        BY <3>3, <4>1, RoundShrinks
      <4>3. Cardinality(left(rest)) \in Nat /\ Cardinality(rest) \in Nat /\ Cardinality(rest) < n
        BY <4>1, <4>2, FS_CardinalityType
      <4>4. left(rest) \in SUBSET S
        BY <4>2
      <4>5. Cardinality(left(rest)) < n - 1 /\ Cardinality(left(rest)) < n
        BY <4>2, <4>3
      <4> QED
        BY <4>4, <4>5
    <3>4. ASSUME NEW rest \in Small(n)
          PROVE  Round(rest, limit, minRun, gap, f) = Round(rest, limit, minRun, gap, g)
      <4>1. CASE rest = {}
        BY <4>1 DEF Round
      <4>2. CASE rest # {}
        <5>1. left(rest) \in Small(n - 1) /\ left(rest) \in Small(n)
          BY <3>3, <4>2
        <5>2. f[left(rest)] = Round(left(rest), limit, minRun, gap, f)
          BY <3>2, <5>1
        <5>3. g[left(rest)] = Round(left(rest), limit, minRun, gap, f)
          BY <5>1
        <5> QED
          BY <5>2, <5>3 DEF Round
      <4> QED
        BY <4>1, <4>2
    <3>5. g = [rest \in Small(n) |-> Round(rest, limit, minRun, gap, g)]
      <4> HIDE DEF Small
      <4>1. [rest \in Small(n) |-> Round(rest, limit, minRun, gap, f)]
              = [rest \in Small(n) |-> Round(rest, limit, minRun, gap, g)]
        BY <3>4
      <4> QED
        BY <4>1
    <3> QED
      BY <3>5
  <2> QED
    BY <2>1, <2>2
<1>2. T = Nat
  <2> HIDE DEF T
  <2>1. T \subseteq Nat
    BY DEF T
  <2> QED
    BY <1>1, <2>1, StrongInduction
<1>3. Cardinality(S) + 1 \in T
  <2> HIDE DEF T
  <2> QED
    BY <1>2, FS_CardinalityType
<1>4. Small(Cardinality(S) + 1) = SUBSET S
  <2> SUFFICES ASSUME NEW rest \in SUBSET S PROVE Cardinality(rest) < Cardinality(S) + 1
    OBVIOUS
  <2>1. Cardinality(rest) <= Cardinality(S) /\ IsFiniteSet(rest)
    BY FS_Subset
  <2>2. Cardinality(rest) \in Nat /\ Cardinality(S) \in Nat
    BY <2>1, FS_CardinalityType
  <2> QED
    BY <2>1, <2>2
<1> QED
  BY <1>3, <1>4

\* The plan of any addresses: spans that cover them, sorted and apart, each within
\* the limit and from one of the addresses to another.
THEOREM PlansAreSound ==
    ASSUME NEW S, S \subseteq Nat, IsFiniteSet(S), NEW limit \in Nat \ {0}, NEW gap \in Nat, NEW minRun
    PROVE  PlanFor(S, limit, gap, planWrites(S, limit, minRun, gap))
<1> DEFINE Rounds(f) == f = [rest \in SUBSET S |-> Round(rest, limit, minRun, gap, f)]
           plan == CHOOSE f : Rounds(f)
           T == {n \in Nat : \A rest \in SUBSET S :
                                Cardinality(rest) = n => PlanFor(rest, limit, gap, plan[rest])}
<1>1. planWrites(S, limit, minRun, gap) = plan[S]
  BY DEF planWrites, Round
<1>2. Rounds(plan)
  BY RoundsExist
<1>3. \A rest \in SUBSET S : plan[rest] = Round(rest, limit, minRun, gap, plan)
  <2> HIDE DEF plan
  <2> QED
    BY <1>2
<1> HIDE DEF plan
<1>4. ASSUME NEW n \in Nat, \A m \in Nat : m < n => m \in T PROVE n \in T
  <2> SUFFICES ASSUME NEW rest \in SUBSET S, Cardinality(rest) = n
               PROVE  PlanFor(rest, limit, gap, plan[rest])
    OBVIOUS
  <2>0. IsFiniteSet(rest) /\ rest \subseteq Nat
    BY FS_Subset
  <2>1. CASE rest = {}
    <3>1. plan[rest] = <<>>
      BY <1>3, <2>1 DEF Round
    <3> QED
      BY <2>1, <3>1 DEF PlanFor, Apart
  <2>2. CASE rest # {}
    <3> DEFINE group == FirstGroup(rest, limit, gap)
               left == rest \ group
    <3>1. /\ group \subseteq rest /\ group # {}
          /\ \A a \in group : \A b \in left : a < b
          /\ \A a, b \in group : b - a < limit
          /\ gap = 0 => \A a, b \in group : a..b \subseteq group
      BY <2>0, <2>2, FirstGroupIs
    <3>2. left \subseteq rest /\ IsFiniteSet(left) /\ Cardinality(left) < Cardinality(rest)
      BY <2>0, <2>2, RoundShrinks
    <3>3. plan[rest] = emitSpan(group, minRun) \o plan[left]
      BY <1>3, <2>2 DEF Round
    <3>4. IsFiniteSet(group) /\ group \subseteq Nat
      BY <2>0, <3>1, FS_Subset
    <3> HIDE DEF group
    <3>5. PlanFor(group, limit, gap, emitSpan(group, minRun))
      BY <3>1, <3>4, EmitSpanIs
    <3>6. Cardinality(left) \in Nat /\ left \in SUBSET S
      BY <3>2, FS_CardinalityType
    <3>7. PlanFor(left, limit, gap, plan[left])
      BY <1>4, <3>2, <3>6
    <3>8. group \cup left = rest /\ left \subseteq Nat
      BY <2>0, <3>1
    <3> HIDE DEF left
    <3>9. PlanFor(group \cup left, limit, gap, emitSpan(group, minRun) \o plan[left])
      BY <3>1, <3>4, <3>5, <3>7, <3>8, PlansJoin
    <3> QED
      BY <3>3, <3>8, <3>9
  <2> QED
    BY <2>1, <2>2
<1>5. T = Nat
  <2> HIDE DEF T
  <2>1. T \subseteq Nat
    BY DEF T
  <2> QED
    BY <1>4, <2>1, StrongInduction
<1>6. Cardinality(S) \in T
  <2> HIDE DEF T
  <2> QED
    BY <1>5, FS_CardinalityType
<1> QED
  BY <1>1, <1>6

-----------------------------------------------------------------------------
(* The bisection of locate.                                                *)

Parts(spans) == (1..Len(spans) + 1) \X (0..Len(spans))
Middle(part) == (part[1] + part[2]) \div 2

\* One step of the bisection, when f answers for the parts of the part.
Bisect(spans, address, f, part) ==
    IF part[1] > part[2] THEN NotFound
    ELSE IF address < Lowest(spans[Middle(part)]) THEN f[<<part[1], Middle(part) - 1>>]
    ELSE IF address > Highest(spans[Middle(part)]) THEN f[<<Middle(part) + 1, part[2]>>]
    ELSE [span |-> Middle(part), offset |-> address - Lowest(spans[Middle(part)]) + 1]

LEMMA MiddleIs ==
    ASSUME NEW spans, Len(spans) \in Nat, NEW part \in Parts(spans), part[1] <= part[2]
    PROVE  LET low == <<part[1], Middle(part) - 1>>
               high == <<Middle(part) + 1, part[2]>>
           IN  /\ Middle(part) \in part[1]..part[2] /\ Middle(part) \in 1..Len(spans)
               /\ low \in Parts(spans) /\ low[2] - low[1] < part[2] - part[1]
               /\ high \in Parts(spans) /\ high[2] - high[1] < part[2] - part[1]
<1>1. part[1] \in 1..Len(spans) + 1 /\ part[2] \in 0..Len(spans)
  BY DEF Parts
<1>2. Middle(part) \in part[1]..part[2]
  BY <1>1 DEF Middle
<1> HIDE DEF Middle
<1>3. Middle(part) \in 1..Len(spans) /\ Middle(part) - 1 \in 0..Len(spans)
        /\ Middle(part) + 1 \in 1..Len(spans) + 1
  BY <1>1, <1>2
<1> QED
  BY <1>1, <1>2, <1>3 DEF Parts

LEMMA StepsExist ==
    ASSUME NEW spans, Len(spans) \in Nat, NEW address
    PROVE  \E f : f = [part \in Parts(spans) |-> Bisect(spans, address, f, part)]
<1> DEFINE Small(n) == {part \in Parts(spans) : part[2] - part[1] < n}
           T == {n \in Nat : \E f : f = [part \in Small(n) |-> Bisect(spans, address, f, part)]}
<1>0. \A part \in Parts(spans) : part[1] \in Int /\ part[2] \in Int /\ part[2] - part[1] < Len(spans)
  BY DEF Parts
<1>1. ASSUME NEW n \in Nat, \A m \in Nat : m < n => m \in T PROVE n \in T
  <2>1. CASE n = 0
    <3> DEFINE f == [part \in Small(n) |-> NotFound]
    <3>1. ASSUME NEW part \in Small(n) PROVE Bisect(spans, address, f, part) = NotFound
      BY <1>0, <2>1 DEF Bisect
    <3>2. f = [part \in Small(n) |-> Bisect(spans, address, f, part)]
      <4> HIDE DEF Small
      <4>1. [part \in Small(n) |-> NotFound] = [part \in Small(n) |-> Bisect(spans, address, f, part)]
        BY <3>1
      <4> QED
        BY <4>1
    <3> QED
      BY <3>2
  <2>2. CASE n # 0
    <3>1. n - 1 \in Nat /\ n - 1 < n
      BY <2>2
    <3>2. PICK f : f = [part \in Small(n - 1) |-> Bisect(spans, address, f, part)]
      BY <1>1, <3>1
    <3> DEFINE g == [part \in Small(n) |-> Bisect(spans, address, f, part)]
    <3>3. \A part \in Small(n - 1) : part \in Small(n) /\ f[part] = g[part]
      <4>1. \A part \in Small(n - 1) : part \in Small(n)
        BY <1>0
      <4>2. \A part \in Small(n - 1) : f[part] = Bisect(spans, address, f, part)
        BY <3>2
      <4> QED
        BY <4>1, <4>2
    <3> HIDE DEF g
    <3>4. ASSUME NEW part \in Small(n)
          PROVE  Bisect(spans, address, f, part) = Bisect(spans, address, g, part)
      <4>1. CASE part[1] > part[2]
        BY <4>1 DEF Bisect
      <4>2. CASE ~(part[1] > part[2])
        <5> DEFINE low == <<part[1], Middle(part) - 1>>
                   high == <<Middle(part) + 1, part[2]>>
        <5>1. /\ low \in Parts(spans) /\ low[2] - low[1] < part[2] - part[1]
              /\ high \in Parts(spans) /\ high[2] - high[1] < part[2] - part[1]
          BY <1>0, <4>2, MiddleIs
        <5>2. /\ part[2] - part[1] < n /\ part[2] - part[1] \in Int
              /\ low[2] - low[1] \in Int /\ high[2] - high[1] \in Int
          BY <1>0, <5>1
        <5> HIDE DEF low, high
        <5>3. low \in Small(n - 1) /\ high \in Small(n - 1)
          BY <5>1, <5>2
        <5>4. f[low] = g[low] /\ f[high] = g[high]
          BY <3>3, <5>3
        <5> QED
          BY <5>4 DEF Bisect, low, high
      <4> QED
        BY <4>1, <4>2
    <3>5. g = [part \in Small(n) |-> Bisect(spans, address, g, part)]
      <4> HIDE DEF Small
      <4>1. [part \in Small(n) |-> Bisect(spans, address, f, part)]
              = [part \in Small(n) |-> Bisect(spans, address, g, part)]
        BY <3>4
      <4> QED
        BY <4>1 DEF g
    <3> QED
      BY <3>5
  <2> QED
    BY <2>1, <2>2
<1>2. T = Nat
  <2> HIDE DEF T
  <2>1. T \subseteq Nat
    BY DEF T
  <2> QED
    BY <1>1, <2>1, StrongInduction
<1>3. Len(spans) \in T
  <2> HIDE DEF T
  <2> QED
    BY <1>2
<1>4. Small(Len(spans)) = Parts(spans)
  BY <1>0
<1> QED
  BY <1>3, <1>4

\* An address is found in the span that holds it.
LEMMA LocateFinds ==
    ASSUME NEW spans, Len(spans) \in Nat, Apart(spans),
           \A k \in 1..Len(spans) : \E lo, hi \in Nat : lo <= hi /\ spans[k] = lo..hi,
           NEW k \in 1..Len(spans), NEW a \in spans[k]
    PROVE  locate(spans, a) = [span |-> k, offset |-> a - Lowest(spans[k]) + 1]
<1> DEFINE Steps(f) == f = [part \in Parts(spans) |-> Bisect(spans, a, f, part)]
           search == CHOOSE f : Steps(f)
           Found == [span |-> k, offset |-> a - Lowest(spans[k]) + 1]
           T == {n \in Nat : \A part \in Parts(spans) :
                    part[2] - part[1] = n /\ k \in part[1]..part[2] => search[part] = Found}
<1>1. locate(spans, a) = search[<<1, Len(spans)>>]
  BY DEF locate, Bisect, Parts, Middle
<1>2. Steps(search)
  BY StepsExist
<1>3. \A part \in Parts(spans) : search[part] = Bisect(spans, a, search, part)
  <2> HIDE DEF search
  <2> QED
    BY <1>2
<1> HIDE DEF search
<1>4. \A part \in Parts(spans) : part[1] \in Int /\ part[2] \in Int
  BY DEF Parts
<1>5. ASSUME NEW m \in 1..Len(spans)
      PROVE  /\ Lowest(spans[m]) \in spans[m] /\ Highest(spans[m]) \in spans[m]
             /\ \A x \in spans[m] : x \in Nat /\ Lowest(spans[m]) <= x /\ x <= Highest(spans[m])
             /\ \A x \in Nat : Lowest(spans[m]) <= x /\ x <= Highest(spans[m]) => x \in spans[m]
  <2>1. PICK lo, hi \in Nat : lo <= hi /\ spans[m] = lo..hi
    OBVIOUS
  <2>2. Lowest(spans[m]) = lo /\ Highest(spans[m]) = hi
    BY <2>1, IntervalEnds
  <2> QED
    BY <2>1, <2>2
<1>6. ASSUME NEW n \in Nat, \A m \in Nat : m < n => m \in T PROVE n \in T
  <2> SUFFICES ASSUME NEW part \in Parts(spans), part[2] - part[1] = n, k \in part[1]..part[2]
               PROVE  search[part] = Found
    OBVIOUS
  <2> DEFINE middle == Middle(part)
             low == <<part[1], middle - 1>>
             high == <<middle + 1, part[2]>>
  <2>1. part[1] <= part[2]
    BY <1>4
  <2>2. /\ middle \in part[1]..part[2] /\ middle \in 1..Len(spans)
        /\ low \in Parts(spans) /\ low[2] - low[1] < part[2] - part[1]
        /\ high \in Parts(spans) /\ high[2] - high[1] < part[2] - part[1]
    BY <2>1, MiddleIs
  <2>s. search[part] = IF a < Lowest(spans[middle]) THEN search[low]
                       ELSE IF a > Highest(spans[middle]) THEN search[high]
                       ELSE [span |-> middle, offset |-> a - Lowest(spans[middle]) + 1]
    BY <1>3, <1>4, <2>1 DEF Bisect
  <2>e. /\ low[1] = part[1] /\ low[2] = middle - 1
        /\ high[1] = middle + 1 /\ high[2] = part[2]
    OBVIOUS
  <2> HIDE DEF low, high, middle, T
  <2>3. a \in Nat /\ k \in Int /\ middle \in Int /\ part[1] \in Int /\ part[2] \in Int
    <3>1. a \in Nat
      BY <1>5
    <3>2. k \in Int
      OBVIOUS
    <3>3. middle \in Int
      BY <2>2
    <3>4. part[1] \in Int /\ part[2] \in Int
      BY <1>4
    <3> QED
      BY <3>1, <3>2, <3>3, <3>4
  <2>4. Lowest(spans[middle]) \in Nat /\ Highest(spans[middle]) \in Nat
    BY <1>5, <2>2
  <2>5. CASE a < Lowest(spans[middle])
    <3>1. k < middle
      <4>1. k # middle
        BY <1>5, <2>3, <2>4, <2>5
      <4>2. middle < k => Lowest(spans[middle]) < a
        BY <1>5, <2>2 DEF Apart
      <4> QED
        BY <2>3, <2>4, <2>5, <4>1, <4>2
    <3>2. search[part] = search[low]
      BY <2>5, <2>s
    <3>4. k \in low[1]..low[2] /\ low[2] - low[1] \in Nat /\ low[2] - low[1] < n
      <4>1. part[1] <= k /\ k <= part[2]
        BY <2>3
      <4>2. low[1] \in Int /\ low[2] \in Int /\ low[1] <= k /\ k <= low[2]
        BY <2>3, <2>e, <3>1, <4>1
      <4>3. low[2] - low[1] \in Nat /\ k \in low[1]..low[2]
        BY <2>3, <4>2
      <4>4. low[2] - low[1] < n
        BY <2>2
      <4> QED
        BY <4>3, <4>4
    <3>5. search[low] = Found
      BY <1>6, <2>2, <3>4 DEF T
    <3> QED
      BY <3>2, <3>5
  <2>6. CASE a > Highest(spans[middle])
    <3>1. middle < k
      <4>1. k # middle
        BY <1>5, <2>3, <2>4, <2>6
      <4>2. k < middle => a < Highest(spans[middle])
        BY <1>5, <2>2 DEF Apart
      <4> QED
        BY <2>3, <2>4, <2>6, <4>1, <4>2
    <3>2. ~(a < Lowest(spans[middle]))
      <4>1. Lowest(spans[middle]) <= Highest(spans[middle])
        BY <1>5, <2>2
      <4> QED
        BY <2>3, <2>4, <2>6, <4>1
    <3>3. search[part] = search[high]
      BY <2>6, <2>s, <3>2
    <3>5. k \in high[1]..high[2] /\ high[2] - high[1] \in Nat /\ high[2] - high[1] < n
      <4>1. part[1] <= k /\ k <= part[2]
        BY <2>3
      <4>2. high[1] \in Int /\ high[2] \in Int /\ high[1] <= k /\ k <= high[2]
        BY <2>3, <2>e, <3>1, <4>1
      <4>3. high[2] - high[1] \in Nat /\ k \in high[1]..high[2]
        BY <2>3, <4>2
      <4>4. high[2] - high[1] < n
        BY <2>2
      <4> QED
        BY <4>3, <4>4
    <3>6. search[high] = Found
      BY <1>6, <2>2, <3>5 DEF T
    <3> QED
      BY <3>3, <3>6
  <2>7. CASE ~(a < Lowest(spans[middle])) /\ ~(a > Highest(spans[middle]))
    <3>1. a \in spans[middle]
      <4>1. Lowest(spans[middle]) <= a /\ a <= Highest(spans[middle])
        BY <2>3, <2>4, <2>7
      <4> QED
        BY <1>5, <2>2, <2>3, <4>1
    <3>2. k = middle
      <4>1. ~(a < a)
        BY <2>3
      <4>2. ~(k < middle) /\ ~(middle < k)
        BY <2>2, <3>1, <4>1 DEF Apart
      <4> QED
        BY <2>3, <4>2
    <3>3. search[part] = [span |-> middle, offset |-> a - Lowest(spans[middle]) + 1]
      BY <2>7, <2>s
    <3> QED
      BY <3>2, <3>3
  <2> QED
    BY <2>5, <2>6, <2>7
<1>7. T = Nat
  <2> HIDE DEF T
  <2>1. T \subseteq Nat
    BY DEF T
  <2> QED
    BY <1>6, <2>1, StrongInduction
<1>8. <<1, Len(spans)>> \in Parts(spans) /\ Len(spans) - 1 \in Nat
  BY DEF Parts
<1>9. Len(spans) - 1 \in T
  <2> HIDE DEF T
  <2> QED
    BY <1>7, <1>8
<1> QED
  BY <1>1, <1>8, <1>9

\* FindsAll: whatever addresses are read, locate finds each in the response of the
\* span that read it.
THEOREM ReadsAreFound ==
    ASSUME NEW S, S \subseteq Nat, IsFiniteSet(S), NEW maxPerRead \in Nat \ {0}, NEW maxGap \in Nat
    PROVE  FindsAll(S, maxPerRead, maxGap)
<1> DEFINE spans == buildReadPlan(S, maxPerRead, maxGap)
<1>1. PlanFor(S, maxPerRead, maxGap, spans)
  BY PlansAreSound DEF buildReadPlan
<1> HIDE DEF spans
<1>2. spans \in Seq(SUBSET Nat) /\ Len(spans) \in Nat /\ Apart(spans)
  BY <1>1, LenProperties DEF PlanFor
<1>3. \A k \in 1..Len(spans) : \E lo, hi \in Nat : lo <= hi /\ spans[k] = lo..hi
  BY <1>1 DEF PlanFor, SpanOf
<1>4. \A k \in 1..Len(spans) : IsFiniteSet(spans[k])
  BY <1>3, IntervalEnds
<1>5. ASSUME NEW a \in S
      PROVE  LET location == locate(spans, a)
             IN  /\ location.span \in 1..Len(spans)
                 /\ location.offset \in 1..Cardinality(spans[location.span])
                 /\ Lowest(spans[location.span]) + location.offset - 1 = a
  <2>1. PICK k \in 1..Len(spans) : a \in spans[k]
    BY <1>1 DEF PlanFor
  <2>2. locate(spans, a) = [span |-> k, offset |-> a - Lowest(spans[k]) + 1]
    BY <1>2, <1>3, <2>1, LocateFinds
  <2>3. PICK lo, hi \in Nat : lo <= hi /\ spans[k] = lo..hi
    BY <1>3
  <2>4. Lowest(spans[k]) = lo /\ Cardinality(spans[k]) = hi - lo + 1 /\ a \in lo..hi
    BY <2>1, <2>3, IntervalEnds
  <2>5. a - lo + 1 \in 1..hi - lo + 1 /\ lo + (a - lo + 1) - 1 = a
    BY <2>3, <2>4
  <2> QED
    BY <2>2, <2>4, <2>5
<1> QED
  BY <1>2, <1>4, <1>5 DEF FindsAll, spans

=============================================================================
