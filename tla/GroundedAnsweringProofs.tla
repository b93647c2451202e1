---------------------- MODULE GroundedAnsweringProofs ----------------------
(***************************************************************************)
(* Proofs about GroundedAnswering and the arithmetic of Evidence, for any    *)
(* number of chunks, limits, markers, retries and changes to the store.      *)
(***************************************************************************)
EXTENDS GroundedAnswering, FiniteSetTheorems, TLAPS

-----------------------------------------------------------------------------
(* Sorting *)

StrictTotal(S, R) ==
    /\ \A x \in S : <<x, x>> \notin R
    /\ \A x, y, z \in S : <<x, y>> \in R /\ <<y, z>> \in R => <<x, z>> \in R
    /\ \A x, y \in S : x # y => <<x, y>> \in R \/ <<y, x>> \in R

\* How many members of S come before x.
Place(S, R, x) == Cardinality({y \in S : <<y, x>> \in R})

\* The place of an element is a number below the size of the set, and rises with the order.
LEMMA PlaceRises ==
    ASSUME NEW S, IsFiniteSet(S), NEW R, StrictTotal(S, R)
    PROVE  /\ \A x \in S : Place(S, R, x) \in 0..(Cardinality(S) - 1)
           /\ \A x, y \in S : <<x, y>> \in R => Place(S, R, x) < Place(S, R, y)
<1> DEFINE B(x) == {y \in S : <<y, x>> \in R}
<1>1. \A x \in S : IsFiniteSet(B(x)) /\ Cardinality(B(x)) \in Nat
  BY FS_Subset, FS_CardinalityType
<1>2. Cardinality(S) \in Nat
  BY FS_CardinalityType
<1>3. ASSUME NEW x \in S PROVE Place(S, R, x) \in 0..(Cardinality(S) - 1)
  <2>1. B(x) \subseteq S /\ B(x) # S
    BY DEF StrictTotal
  <2>2. Cardinality(B(x)) < Cardinality(S)
    <3> HIDE DEF B
    <3>1. Cardinality(B(x)) <= Cardinality(S) /\ Cardinality(B(x)) # Cardinality(S)
      BY <2>1, FS_Subset
    <3>2. QED
      BY <3>1, <1>1, <1>2
  <2>3. QED
    BY <2>2, <1>1, <1>2 DEF Place
<1>4. ASSUME NEW x \in S, NEW y \in S, <<x, y>> \in R PROVE Place(S, R, x) < Place(S, R, y)
  <2>1. B(x) \subseteq B(y)
    BY <1>4 DEF StrictTotal
  <2>2. x \in B(y) /\ x \notin B(x)
    BY <1>4 DEF StrictTotal
  <2>3. Cardinality(B(x)) <= Cardinality(B(y)) /\ Cardinality(B(x)) # Cardinality(B(y))
    <3> HIDE DEF B
    <3> QED BY <2>1, <2>2, <1>1, FS_Subset
  <2>4. QED
    BY <2>3, <1>1 DEF Place
<1>5. QED
  BY <1>3, <1>4

\* InOrder lists every element once, at its place, in ascending order.
LEMMA InOrderSorts ==
    ASSUME NEW S, IsFiniteSet(S), NEW R, StrictTotal(S, R)
    PROVE  /\ Cardinality(S) \in Nat
           /\ InOrder(S, R) \in [1..Cardinality(S) -> S]
           /\ \A x \in S : /\ 1 + Place(S, R, x) \in 1..Cardinality(S)
                           /\ InOrder(S, R)[1 + Place(S, R, x)] = x
           /\ \A i, j \in 1..Cardinality(S) :
                 i < j => <<InOrder(S, R)[i], InOrder(S, R)[j]>> \in R
<1> DEFINE n == Cardinality(S)
           f == [x \in S |-> Place(S, R, x)]
           P == {Place(S, R, x) : x \in S}
           s == InOrder(S, R)
<1>1. n \in Nat
  BY FS_CardinalityType
<1>2. \A x \in S : Place(S, R, x) \in 0..(n - 1)
  BY PlaceRises
<1>3. \A x, y \in S : Place(S, R, x) = Place(S, R, y) => x = y
  <2> SUFFICES ASSUME NEW x \in S, NEW y \in S, Place(S, R, x) = Place(S, R, y), x # y
               PROVE  FALSE
    OBVIOUS
  <2>1. <<x, y>> \in R \/ <<y, x>> \in R
    BY DEF StrictTotal
  <2>2. Place(S, R, x) < Place(S, R, y) \/ Place(S, R, y) < Place(S, R, x)
    BY <2>1, PlaceRises
  <2>3. QED
    BY <2>2, <1>1, <1>2
<1>4. f \in Bijection(S, P)
  BY <1>3 DEF Bijection, Injection, Surjection, IsInjective
<1>5. IsFiniteSet(P) /\ Cardinality(P) = n
  BY <1>4, FS_Bijection DEF ExistsBijection
<1>6. IsFiniteSet(0..(n - 1)) /\ Cardinality(0..(n - 1)) = n
  BY <1>1, FS_Interval
<1>7. P \subseteq 0..(n - 1)
  BY <1>2
<1>8. P = 0..(n - 1)
  BY <1>5, <1>6, <1>7, FS_Subset
<1>9. ASSUME NEW i \in 1..n PROVE s[i] \in S /\ Place(S, R, s[i]) = i - 1
  <2>1. s[i] = CHOOSE x \in S : Place(S, R, x) = i - 1
    BY DEF InOrder, Place
  <2>2. i - 1 \in P
    BY <1>8, <1>1
  <2>3. \E x \in S : Place(S, R, x) = i - 1
    BY <2>2
  <2>4. QED
    BY <2>1, <2>3
<1>10. s \in [1..n -> S]
  BY <1>9 DEF InOrder
<1>11. ASSUME NEW x \in S PROVE 1 + Place(S, R, x) \in 1..n /\ s[1 + Place(S, R, x)] = x
  <2>1. 1 + Place(S, R, x) \in 1..n
    BY <1>1, <1>2
  <2>2. Place(S, R, s[1 + Place(S, R, x)]) = Place(S, R, x)
    BY <2>1, <1>9, <1>2, <1>1
  <2>3. QED
    BY <2>1, <2>2, <1>9, <1>3
<1>12. ASSUME NEW i \in 1..n, NEW j \in 1..n, i < j PROVE <<s[i], s[j]>> \in R
  <2>1. s[i] # s[j] /\ s[i] \in S /\ s[j] \in S
    BY <1>9, <1>12, <1>1
  <2>2. <<s[j], s[i]>> \notin R
    BY <2>1, <1>9, <1>12, <1>1, PlaceRises
  <2>3. QED
    BY <2>1, <2>2 DEF StrictTotal
<1> HIDE DEF n, s
<1>13. QED
  BY <1>1, <1>10, <1>11, <1>12 DEF n, s

\* Ascending lists a set of numbers from the smallest to the largest.
LEMMA AscendingSorts ==
    ASSUME NEW S \in SUBSET Nat, IsFiniteSet(S)
    PROVE  /\ Cardinality(S) \in Nat
           /\ Ascending(S) \in [1..Cardinality(S) -> S]
           /\ \A x \in S : /\ 1 + Cardinality({y \in S : y < x}) \in 1..Cardinality(S)
                           /\ Ascending(S)[1 + Cardinality({y \in S : y < x})] = x
           /\ \A i, j \in 1..Cardinality(S) : i < j => Ascending(S)[i] < Ascending(S)[j]
<1> DEFINE R == {p \in S \X S : p[1] < p[2]}
<1>1. \A x, y \in S : <<x, y>> \in R <=> x < y
  OBVIOUS
<1>2. StrictTotal(S, R)
  <2> HIDE DEF R
  <2> QED BY <1>1 DEF StrictTotal
<1>3. \A x \in S : {y \in S : <<y, x>> \in R} = {y \in S : y < x}
  BY <1>1
<1>4. \A x \in S : Place(S, R, x) = Cardinality({y \in S : y < x})
  BY <1>3 DEF Place
<1>5. Ascending(S) = InOrder(S, R)
  BY DEF Ascending
<1> HIDE DEF R
<1>6. Cardinality(S) \in Nat /\ Ascending(S) \in [1..Cardinality(S) -> S]
  BY <1>2, <1>5, InOrderSorts
<1>7. ASSUME NEW x \in S
      PROVE  /\ 1 + Cardinality({y \in S : y < x}) \in 1..Cardinality(S)
             /\ Ascending(S)[1 + Cardinality({y \in S : y < x})] = x
  BY <1>2, <1>4, <1>5, InOrderSorts
<1>8. ASSUME NEW i \in 1..Cardinality(S), NEW j \in 1..Cardinality(S), i < j
      PROVE  Ascending(S)[i] < Ascending(S)[j]
  <2>1. <<Ascending(S)[i], Ascending(S)[j]>> \in R
    BY <1>2, <1>5, <1>8, InOrderSorts
  <2>2. QED
    BY <2>1, <1>1, <1>6
<1>9. QED
  BY <1>6, <1>7, <1>8

LEMMA UpTo == ASSUME NEW n \in Nat PROVE IsFiniteSet(1..n) /\ Cardinality(1..n) = n
BY FS_Interval

\* The indices at which Keep finds what it keeps.
KeptAt(s, T) == {i \in DOMAIN s : s[i] \in T}

LEMMA KeptAtFinite ==
    ASSUME NEW E, NEW s \in Seq(E), NEW T
    PROVE  /\ KeptAt(s, T) \in SUBSET Nat /\ IsFiniteSet(KeptAt(s, T))
           /\ Cardinality(KeptAt(s, T)) \in 0..Len(s)
<1>1. IsFiniteSet(1..Len(s)) /\ Cardinality(1..Len(s)) = Len(s)
  BY UpTo
<1>2. KeptAt(s, T) \subseteq 1..Len(s)
  BY DEF KeptAt
<1>3. IsFiniteSet(KeptAt(s, T)) /\ Cardinality(KeptAt(s, T)) <= Len(s)
  BY <1>1, <1>2, FS_Subset
<1>4. Cardinality(KeptAt(s, T)) \in Nat
  BY <1>3, FS_CardinalityType
<1>5. KeptAt(s, T) \subseteq Nat /\ Cardinality(KeptAt(s, T)) \in 0..Len(s)
  BY <1>2, <1>3, <1>4
<1>6. QED
  BY <1>3, <1>5

\* Keep returns a sequence of the elements in T, at rising positions of s and
\* without a gap.
LEMMA KeepFilters ==
    ASSUME NEW E, NEW s \in Seq(E), NEW T
    PROVE  LET n == Cardinality(KeptAt(s, T)) IN
           /\ Keep(s, T) \in [1..n -> E \cap T] /\ Keep(s, T) \in Seq(E) /\ Len(Keep(s, T)) = n
           /\ \A i \in KeptAt(s, T) :
                 /\ 1 + Cardinality({j \in KeptAt(s, T) : j < i}) \in 1..n
                 /\ Keep(s, T)[1 + Cardinality({j \in KeptAt(s, T) : j < i})] = s[i]
           /\ \E at \in [1..n -> 1..Len(s)] :
                 /\ \A i \in 1..n : Keep(s, T)[i] = s[at[i]]
                 /\ \A i, j \in 1..n : i < j => at[i] < at[j]
<1> DEFINE K == KeptAt(s, T)
           n == Cardinality(K)
           at == Ascending(K)
<1>1. K \in SUBSET Nat /\ IsFiniteSet(K) /\ n \in 0..Len(s)
  BY KeptAtFinite
<1>2. \A i \in K : i \in 1..Len(s) /\ s[i] \in E \cap T
  BY DEF KeptAt
<1>3. Keep(s, T) = [j \in DOMAIN at |-> s[at[j]]]
  BY DEF Keep, KeptAt
<1> HIDE DEF K
<1>4. at \in [1..n -> K]
  BY <1>1, AscendingSorts
<1>5. \A i \in K : /\ 1 + Cardinality({j \in K : j < i}) \in 1..n
                   /\ at[1 + Cardinality({j \in K : j < i})] = i
  BY <1>1, AscendingSorts
<1>6. \A i, j \in 1..n : i < j => at[i] < at[j]
  BY <1>1, AscendingSorts
<1> HIDE DEF n, at
<1>7. Keep(s, T) \in [1..n -> E \cap T]
  BY <1>2, <1>3, <1>4
<1>8. Keep(s, T) \in Seq(E) /\ Len(Keep(s, T)) = n
  BY <1>1, <1>7
<1>9. \A i \in K : Keep(s, T)[1 + Cardinality({j \in K : j < i})] = s[i]
  BY <1>3, <1>4, <1>5
<1>10. at \in [1..n -> 1..Len(s)] /\ \A i \in 1..n : Keep(s, T)[i] = s[at[i]]
  BY <1>2, <1>3, <1>4
<1>11. QED
  BY <1>5, <1>6, <1>7, <1>8, <1>9, <1>10 DEF n, K

\* The elements of a sequence are finitely many.
LEMMA ToSetFinite ==
    ASSUME NEW E, NEW s \in Seq(E)
    PROVE  /\ IsFiniteSet(ToSet(s)) /\ ToSet(s) \subseteq E
           /\ Cardinality(ToSet(s)) \in 0..Len(s)
<1>1. IsFiniteSet(1..Len(s)) /\ Cardinality(1..Len(s)) = Len(s)
  BY UpTo
<1>2. s \in Surjection(1..Len(s), ToSet(s))
  BY DEF Surjection, ToSet
<1>3. IsFiniteSet(ToSet(s)) /\ Cardinality(ToSet(s)) <= Len(s)
  BY <1>1, <1>2, FS_Surjection DEF ExistsSurjection
<1>4. Cardinality(ToSet(s)) \in Nat
  BY <1>3, FS_CardinalityType
<1>5. ToSet(s) \subseteq E
  BY DEF ToSet
<1>6. QED
  BY <1>3, <1>4, <1>5

-----------------------------------------------------------------------------
(* Ranks and scores *)

\* Rank finds an element where it stands, and 0 stands for an element that is not there.
LEMMA RankFinds ==
    ASSUME NEW E, NEW s \in Seq(E), NEW c
    PROVE  /\ c \in ToSet(s) => Rank(c, s) \in 1..Len(s) /\ s[Rank(c, s)] = c
           /\ c \notin ToSet(s) => Rank(c, s) = 0
           /\ Rank(c, s) \in 0..Len(s)
<1>1. CASE c \in ToSet(s)
  <2>1. \E i \in DOMAIN s : s[i] = c
    BY <1>1 DEF ToSet
  <2>2. Rank(c, s) = CHOOSE i \in DOMAIN s : s[i] = c
    BY <1>1 DEF Rank
  <2>3. Rank(c, s) \in DOMAIN s /\ s[Rank(c, s)] = c
    BY <2>1, <2>2
  <2>4. QED
    BY <1>1, <2>3
<1>2. CASE c \notin ToSet(s)
  BY <1>2 DEF Rank
<1>3. QED
  BY <1>1, <1>2

LEMMA Division ==
    ASSUME NEW a \in Nat, NEW b \in Nat \ {0}
    PROVE  /\ a \div b \in Nat
           /\ b * (a \div b) <= a /\ a < b * (a \div b) + b
BY SMT

\* A rank contributes at most the sixty-first part of the unit.
LEMMA ContributionBounds ==
    ASSUME NEW r \in Nat
    PROVE  /\ Contribution(r) \in Nat /\ Contribution(r) <= 16393442
           /\ r = 0 => Contribution(r) = 0
           /\ 1 <= r /\ r <= 150 => Contribution(r) > 4000000
<1>1. CASE r = 0
  <2>1. Contribution(r) = 0
    BY <1>1 DEF Contribution
  <2>2. QED
    BY SMT, <1>1, <2>1
<1>2. CASE r # 0
  <2> DEFINE p == 60 + r
             x == 1000000000 \div p
  <2>1. Contribution(r) = x
    BY SMT, <1>2 DEF Contribution, RRF_K
  <2>2. x \in Nat /\ p * x <= 1000000000 /\ 1000000000 < p * x + p
    <3>1. 1000000000 \in Nat /\ p \in Nat \ {0}
      BY SMT
    <3> HIDE DEF p
    <3>2. QED
      BY SMT, <3>1, Division
  <2> HIDE DEF x
  <2>3. 61 * x <= p * x
    BY SMT, <1>2, <2>2
  <2>4. x <= 16393442
    BY SMT, <2>2, <2>3
  <2>5. 1 <= r /\ r <= 150 => x > 4000000
    <3> SUFFICES ASSUME 1 <= r, r <= 150, x <= 4000000 PROVE FALSE
      BY SMT, <2>2
    <3>1. p * x <= 210 * x
      BY SMT, <2>2
    <3>2. QED
      BY SMT, <3>1, <2>2
  <2>6. QED
    BY SMT, <1>2, <2>1, <2>2, <2>4, <2>5
<1>3. QED
  BY SMT, <1>1, <1>2

\* A better rank contributes more, rounded as the scores are, as long as there are
\* no more than 150 ranks.
LEMMA ContributionFalls ==
    ASSUME NEW r \in 1..150, NEW q \in 1..150, r < q
    PROVE  Contribution(r) > Contribution(q)
<1> DEFINE p == 60 + r
           z == 60 + q
           x == 1000000000 \div p
           y == 1000000000 \div z
<1>1. Contribution(r) = x /\ Contribution(q) = y
  BY SMT DEF Contribution, RRF_K
<1>2. /\ x \in Nat /\ p * x <= 1000000000 /\ 1000000000 < p * x + p
      /\ y \in Nat /\ z * y <= 1000000000
  <2>1. 1000000000 \in Nat /\ p \in Nat \ {0} /\ z \in Nat \ {0}
    BY SMT
  <2> HIDE DEF p, z
  <2>2. QED
    BY SMT, <2>1, Division
<1>3. x > 4000000
  BY SMT, <1>1, ContributionBounds
<1> HIDE DEF x, y
<1> SUFFICES ASSUME x <= y PROVE FALSE
  BY SMT, <1>1, <1>2
<1>4. (p + 1) * x <= z * y
  <2>1. (p + 1) * x <= z * x
    BY SMT, <1>2
  <2>2. z * x <= z * y
    BY SMT, <1>2
  <2>3. QED
    BY SMT, <2>1, <2>2, <1>2
<1>5. (p + 1) * x = p * x + x
  BY SMT, <1>2
<1>6. QED
  BY SMT, <1>2, <1>3, <1>4, <1>5

LEMMA HybridBounds ==
    ASSUME NEW E, NEW lexical \in Seq(E), NEW vector \in Seq(E), NEW c
    PROVE  /\ HybridScore(c, lexical, vector) \in Nat
           /\ ~(c \in ToSet(lexical) /\ c \in ToSet(vector)) =>
                 HybridScore(c, lexical, vector) <= 16393442
<1> DEFINE i == Rank(c, lexical)
           j == Rank(c, vector)
           a == Contribution(i)
           b == Contribution(j)
<1>1. /\ i \in Nat /\ (c \notin ToSet(lexical) => i = 0)
      /\ j \in Nat /\ (c \notin ToSet(vector) => j = 0)
  BY RankFinds
<1>2. HybridScore(c, lexical, vector) = a + b
  BY DEF HybridScore
<1> HIDE DEF i, j
<1>3. /\ a \in Nat /\ a <= 16393442 /\ (c \notin ToSet(lexical) => a = 0)
      /\ b \in Nat /\ b <= 16393442 /\ (c \notin ToSet(vector) => b = 0)
  <2>1. a \in Nat /\ a <= 16393442 /\ (i = 0 => a = 0)
    BY SMT, <1>1, ContributionBounds
  <2>2. b \in Nat /\ b <= 16393442 /\ (j = 0 => b = 0)
    BY SMT, <1>1, ContributionBounds
  <2>3. QED
    BY SMT, <1>1, <2>1, <2>2
<1> HIDE DEF a, b
<1>4. QED
  BY SMT, <1>2, <1>3

-----------------------------------------------------------------------------
(* The evidence band *)

\* Items that both channels found.
Agreed(items, lexical, vector) == ToSet(items) \cap ToSet(lexical) \cap ToSet(vector)

DocumentsOf(items, docs) == {docs[c] : c \in ToSet(items)}

LEMMA DocumentsFinite ==
    ASSUME NEW E, NEW items \in Seq(E), NEW docs
    PROVE  Cardinality(DocumentsOf(items, docs)) \in Nat
<1> DEFINE f == [c \in ToSet(items) |-> docs[c]]
<1>1. IsFiniteSet(ToSet(items))
  BY ToSetFinite
<1>2. f \in Surjection(ToSet(items), DocumentsOf(items, docs))
  BY DEF Surjection, DocumentsOf
<1>3. IsFiniteSet(DocumentsOf(items, docs))
  BY <1>1, <1>2, FS_Surjection
<1>4. QED
  BY <1>3, FS_CardinalityType

\* The weighted sum with no agreement and a first item that one channel found.
LEMMA WeightedSum ==
    ASSUME NEW top \in Nat, top <= 496770, NEW diversity \in Nat, diversity <= Unit,
           NEW breadth \in Nat, breadth <= Unit
    PROVE  LET score == (40 * top + 25 * diversity + 20 * 0 + 15 * breadth) \div 100
           IN  /\ score \in Nat /\ score < 700000
               /\ diversity <= 333333 => score < 450000
BY SMT DEF Unit

\* The penalty for suspicious items lowers a score.
LEMMA PenaltyLowers ==
    ASSUME NEW score \in Nat, NEW suspicious \in Nat, NEW n \in Nat \ {0}
    PROVE  /\ score - (score * suspicious) \div (5 * n) \in Int
           /\ score - (score * suspicious) \div (5 * n) <= score
<1>1. score * suspicious \in Nat /\ 5 * n \in Nat \ {0}
  BY SMT
<1>2. (score * suspicious) \div (5 * n) \in Nat
  BY <1>1, Division
<1>3. QED
  BY SMT, <1>2

\* Without an item that both channels found the score stays below the threshold of
\* the band high, and with a single document below that of medium.
LEMMA ScoreWithoutAgreement ==
    ASSUME NEW E, NEW items \in Seq(E), items # <<>>,
           NEW lexical \in Seq(E), NEW vector \in Seq(E), NEW docs, NEW flags,
           Agreed(items, lexical, vector) = {}
    PROVE  LET score == EvidenceScore(items, lexical, vector, docs, flags)
           IN  /\ score \in Int /\ score < 700000
               /\ Cardinality(DocumentsOf(items, docs)) <= 1 => score < 450000
<1> DEFINE n == Len(items)
           d == Cardinality(DocumentsOf(items, docs))
           both == {c \in ToSet(items) : c \in ToSet(lexical) /\ c \in ToSet(vector)}
           suspicious == Cardinality(ToSet(items) \cap flags)
           hybrid == HybridScore(items[1], lexical, vector)
           top == Least(hybrid \div 33, Unit)
           diversity == Least((d * Unit) \div 3, Unit)
           agreement == (Cardinality(both) * Unit) \div n
           breadth == Least((n * Unit) \div 5, Unit)
           score == (40 * top + 25 * diversity + 20 * agreement + 15 * breadth) \div 100
<1>1. EvidenceScore(items, lexical, vector, docs, flags)
        = score - (score * suspicious) \div (5 * n)
  BY DEF EvidenceScore, DocumentsOf
<1>2. n \in Nat \ {0} /\ 1 \in DOMAIN items
  OBVIOUS
<1>3. items[1] \in ToSet(items)
  BY <1>2 DEF ToSet
<1>4. hybrid \in Nat /\ hybrid <= 16393442
  <2>1. ~(items[1] \in ToSet(lexical) /\ items[1] \in ToSet(vector))
    BY <1>3 DEF Agreed
  <2>2. QED
    BY <2>1, HybridBounds
<1>5. d \in Nat
  BY DocumentsFinite
<1>6. suspicious \in Nat
  BY ToSetFinite, FS_Subset, FS_CardinalityType
<1>7. Cardinality(both) = 0
  <2>1. both = {}
    BY DEF Agreed
  <2>2. QED
    BY <2>1, FS_EmptySet
<1> HIDE DEF n, d, both, suspicious, hybrid
<1>8. top \in Nat /\ top <= 496770
  BY SMT, <1>4 DEF Least, Unit
<1>9. diversity \in Nat /\ diversity <= Unit /\ (d <= 1 => diversity <= 333333)
  BY SMT, <1>5 DEF Least, Unit
<1>10. agreement = 0
  <2>1. Cardinality(both) * Unit = 0
    BY SMT, <1>7 DEF Unit
  <2>2. 0 \div n \in Nat /\ n * (0 \div n) <= 0
    BY <1>2, Division
  <2>3. 0 \div n = 0
    BY SMT, <1>2, <2>2
  <2>4. QED
    BY <2>1, <2>3
<1>11. breadth \in Nat /\ breadth <= Unit
  BY SMT, <1>2 DEF Least, Unit
<1> HIDE DEF top, diversity, agreement, breadth
<1>12. score \in Nat /\ score < 700000 /\ (d <= 1 => score < 450000)
  BY SMT, <1>8, <1>9, <1>10, <1>11, WeightedSum
<1> HIDE DEF score
<1>13. /\ score - (score * suspicious) \div (5 * n) \in Int
       /\ score - (score * suspicious) \div (5 * n) <= score
  BY <1>12, <1>2, <1>6, PenaltyLowers
<1>14. QED
  BY SMT, <1>1, <1>12, <1>13 DEF d

\* The band follows: never high, and with a single document at most low.
LEMMA BandWithoutAgreement ==
    ASSUME NEW E, NEW items \in Seq(E), NEW lexical \in Seq(E), NEW vector \in Seq(E),
           NEW docs, NEW flags, Agreed(items, lexical, vector) = {}
    PROVE  LET band == Band(items, lexical, vector, docs, flags)
           IN  /\ band # "high"
               /\ Cardinality(DocumentsOf(items, docs)) <= 1 => band \in {"none", "low"}
<1>1. CASE items = <<>>
  BY <1>1 DEF Band
<1>2. CASE items # <<>>
  <2> DEFINE score == EvidenceScore(items, lexical, vector, docs, flags)
             few == Cardinality(DocumentsOf(items, docs)) <= 1
  <2>1. score \in Int /\ score < 700000 /\ (few => score < 450000)
    BY <1>2, ScoreWithoutAgreement
  <2>2. Band(items, lexical, vector, docs, flags)
          = IF score = 0 THEN "none" ELSE IF score < 450000 THEN "low"
            ELSE IF score < 700000 THEN "medium" ELSE "high"
    BY <1>2 DEF Band
  <2> HIDE DEF score, few
  <2>3. QED
    BY SMT, <2>1, <2>2 DEF few
<1>3. QED
  BY <1>1, <1>2

-----------------------------------------------------------------------------
(* Fusion *)

\* A rank that is better, a missing one being the worst.
Better(r, s) == r # 0 /\ (s = 0 \/ r < s)

LEMMA BetterContributes ==
    ASSUME NEW r \in 0..150, NEW s \in 0..150
    PROVE  /\ Better(r, s) => Contribution(r) > Contribution(s)
           /\ ~Better(s, r) => Contribution(r) >= Contribution(s)
<1>1. Contribution(r) \in Nat /\ Contribution(s) \in Nat
  BY ContributionBounds
<1>2. ASSUME NEW a \in 0..150, NEW b \in 0..150, Better(a, b)
      PROVE  Contribution(a) > Contribution(b)
  <2>1. CASE b = 0
    <3>1. 1 <= a /\ a <= 150 /\ a \in Nat
      BY <1>2 DEF Better
    <3>2. Contribution(a) > 4000000 /\ Contribution(a) \in Nat /\ Contribution(b) = 0
      BY SMT, <2>1, <3>1, ContributionBounds
    <3>3. QED
      BY SMT, <3>2
  <2>2. CASE b # 0
    BY <1>2, <2>2, ContributionFalls DEF Better
  <2>3. QED
    BY <2>1, <2>2
<1>3. ASSUME ~Better(s, r) PROVE Contribution(r) >= Contribution(s)
  <2>1. CASE s = 0
    <3>1. Contribution(s) = 0
      BY <2>1 DEF Contribution
    <3>2. QED
      BY <3>1, <1>1
  <2>2. CASE r = s
    BY <2>2, <1>1
  <2>3. CASE s # 0 /\ r # s
    <3>1. Better(r, s)
      BY <1>3, <2>3 DEF Better
    <3>2. Contribution(r) > Contribution(s)
      BY <3>1, <1>2
    <3>3. QED
      BY <3>2, <1>1
  <2>4. QED
    BY <2>1, <2>2, <2>3
<1>4. QED
  BY <1>2, <1>3

\* Fuse lists chunks of the two lists, none twice, and whatever scores more than a chunk
\* it lists before that chunk.
LEMMA FuseOrders ==
    ASSUME NEW E \in SUBSET Nat, NEW lexical \in Seq(E), NEW vector \in Seq(E), NEW limit \in Nat
    PROVE  LET all == ToSet(lexical) \cup ToSet(vector)
               results == Fuse(lexical, vector, limit)
           IN  /\ results \in Seq(all)
               /\ \A i, j \in DOMAIN results : results[i] = results[j] => i = j
               /\ \A j \in DOMAIN results : \A c \in all :
                     HybridScore(c, lexical, vector) > HybridScore(results[j], lexical, vector)
                        => \E i \in 1..(j - 1) : results[i] = c
<1> DEFINE all == ToSet(lexical) \cup ToSet(vector)
           n == Cardinality(all)
           score == [c \in all |-> HybridScore(c, lexical, vector)]
           R == {p \in all \X all : \/ score[p[1]] > score[p[2]]
                                    \/ (score[p[1]] = score[p[2]] /\ p[1] < p[2])}
           ordered == InOrder(all, R)
           m == Least(limit, Len(ordered))
           results == SubSeq(ordered, 1, m)
<1>1. Fuse(lexical, vector, limit) = results
  BY DEF Fuse
<1>2. IsFiniteSet(all) /\ all \subseteq Nat
  BY ToSetFinite, FS_Union
<1>3. \A c \in all : score[c] = HybridScore(c, lexical, vector) /\ score[c] \in Nat
  BY HybridBounds
<1>4. \A x, y \in all : <<x, y>> \in R <=> score[x] > score[y] \/ (score[x] = score[y] /\ x < y)
  OBVIOUS
<1> HIDE DEF all, score, R
<1>5. StrictTotal(all, R)
  <2>1. \A x \in all : <<x, x>> \notin R
    BY <1>2, <1>3, <1>4
  <2>2. ASSUME NEW x \in all, NEW y \in all, NEW z \in all, <<x, y>> \in R, <<y, z>> \in R
        PROVE  <<x, z>> \in R
    <3>1. score[x] > score[y] \/ (score[x] = score[y] /\ x < y)
      BY <2>2, <1>4
    <3>2. score[y] > score[z] \/ (score[y] = score[z] /\ y < z)
      BY <2>2, <1>4
    <3>3. score[x] > score[z] \/ (score[x] = score[z] /\ x < z)
      BY <3>1, <3>2, <1>2, <1>3
    <3>4. QED
      BY <3>3, <1>4
  <2>3. ASSUME NEW x \in all, NEW y \in all, x # y PROVE <<x, y>> \in R \/ <<y, x>> \in R
    BY <2>3, <1>2, <1>3, <1>4
  <2>4. QED
    BY <2>1, <2>2, <2>3 DEF StrictTotal
<1>6. /\ n \in Nat /\ ordered \in [1..n -> all]
      /\ \A x \in all : \E i \in 1..n : ordered[i] = x
      /\ \A i, j \in 1..n : i < j => <<ordered[i], ordered[j]>> \in R
  BY <1>2, <1>5, InOrderSorts
<1> HIDE DEF n, ordered
<1>7. ordered \in Seq(all) /\ Len(ordered) = n
  BY <1>6
<1>8. m \in 0..n
  BY <1>6, <1>7 DEF Least
<1> HIDE DEF m
<1>9. results \in Seq(all) /\ DOMAIN results = 1..m /\ \A i \in 1..m : results[i] = ordered[i]
  BY <1>7, <1>8, <1>6
<1> HIDE DEF results
<1>10. \A i, j \in 1..m : results[i] = results[j] => i = j
  <2> SUFFICES ASSUME NEW i \in 1..m, NEW j \in 1..m, results[i] = results[j], i # j
               PROVE  FALSE
    OBVIOUS
  <2>1. i \in 1..n /\ j \in 1..n /\ ordered[i] = ordered[j] /\ ordered[i] \in all
    BY <1>6, <1>8, <1>9
  <2>2. <<ordered[i], ordered[j]>> \in R \/ <<ordered[j], ordered[i]>> \in R
    BY <2>1, <1>6
  <2>3. QED
    BY <2>1, <2>2, <1>5 DEF StrictTotal
<1>11. ASSUME NEW j \in 1..m, NEW c \in all, score[c] > score[results[j]]
       PROVE  \E i \in 1..(j - 1) : results[i] = c
  <2>1. results[j] = ordered[j] /\ ordered[j] \in all /\ j \in 1..n
    BY <1>6, <1>8, <1>9
  <2>2. PICK i \in 1..n : ordered[i] = c
    BY <1>6
  <2>3. <<c, ordered[j]>> \in R /\ <<ordered[j], c>> \notin R
    BY <1>11, <1>3, <1>4, <2>1
  <2>4. i # j /\ ~(j < i)
    BY <2>1, <2>2, <2>3, <1>5, <1>6 DEF StrictTotal
  <2>5. i \in 1..(j - 1) /\ i \in 1..m
    BY <2>1, <2>4, <1>6, <1>8
  <2>6. QED
    BY <2>2, <2>5, <1>9
<1>12. \A j \in 1..m : \A c \in all :
          HybridScore(c, lexical, vector) > HybridScore(results[j], lexical, vector)
             => \E i \in 1..(j - 1) : results[i] = c
  <2> SUFFICES ASSUME NEW j \in 1..m, NEW c \in all,
                      HybridScore(c, lexical, vector) > HybridScore(results[j], lexical, vector)
               PROVE  \E i \in 1..(j - 1) : results[i] = c
    OBVIOUS
  <2>1. results[j] \in all
    BY <1>6, <1>8, <1>9
  <2>2. /\ score[c] = HybridScore(c, lexical, vector)
        /\ score[results[j]] = HybridScore(results[j], lexical, vector)
    BY <2>1, <1>3
  <2>3. score[c] > score[results[j]]
    BY <2>2
  <2>4. QED
    BY <2>3, <1>11
<1>13. QED
  BY <1>1, <1>9, <1>10, <1>12 DEF all

-----------------------------------------------------------------------------
(* Lists of chunks *)

\* Chunks are numbered from 1.
LEMMA ChunkFacts ==
    /\ IsFiniteSet(Chunks) /\ Cardinality(Chunks) \in Nat /\ Chunks = 1..Cardinality(Chunks)
    /\ Chunks \in SUBSET Nat
<1>1. IsFiniteSet(Chunks) /\ Chunks = 1..Cardinality(Chunks)
  BY AnsweringAssumption
<1>2. Cardinality(Chunks) \in Nat
  BY <1>1, FS_CardinalityType
<1>3. \A n \in Nat : 1..n \subseteq Nat
  OBVIOUS
<1>4. QED
  BY <1>1, <1>2, <1>3

NoneTwice(s) == \A i, j \in DOMAIN s : s[i] = s[j] => i = j

\* The lists are the sequences of chunks without repetition.
LEMMA ListsAre ==
    ASSUME NEW s
    PROVE  s \in Lists <=> s \in Seq(Chunks) /\ NoneTwice(s)
<1>1. ASSUME s \in Lists PROVE s \in Seq(Chunks) /\ NoneTwice(s)
  <2>1. PICK S \in SUBSET Chunks : s \in SetToSeqs(S)
    BY <1>1 DEF Lists, SetToAllKPermutations
  <2>2. Cardinality(S) \in Nat
    BY ChunkFacts, FS_Subset, FS_CardinalityType
  <2>3. /\ s \in [1..Cardinality(S) -> S]
        /\ \A i, j \in 1..Cardinality(S) : i # j => s[i] # s[j]
    BY <2>1 DEF SetToSeqs
  <2>4. s \in Seq(Chunks)
    BY <2>2, <2>3
  <2>5. NoneTwice(s)
    BY <2>3 DEF NoneTwice
  <2>6. QED
    BY <2>4, <2>5
<1>2. ASSUME s \in Seq(Chunks), NoneTwice(s) PROVE s \in Lists
  <2> DEFINE S == ToSet(s)
  <2>1. S \in SUBSET Chunks
    BY <1>2, ToSetFinite
  <2>2. s \in Bijection(1..Len(s), S)
    BY <1>2 DEF Bijection, Injection, Surjection, IsInjective, NoneTwice, ToSet
  <2>3. Cardinality(S) = Len(s)
    BY <1>2, <2>2, FS_CountingElements DEF ExistsBijection
  <2>4. s \in [1..Len(s) -> S] /\ \A i, j \in 1..Len(s) : i # j => s[i] # s[j]
    BY <1>2 DEF NoneTwice, ToSet
  <2> HIDE DEF S
  <2>5. s \in SetToSeqs(S)
    BY <2>3, <2>4 DEF SetToSeqs
  <2>6. QED
    BY <2>1, <2>5 DEF Lists, SetToAllKPermutations
<1>3. QED
  BY <1>1, <1>2

LEMMA EmptyList == <<>> \in Lists /\ ToSet(<<>>) = {}
<1>1. <<>> \in Seq(Chunks) /\ NoneTwice(<<>>) /\ ToSet(<<>>) = {}
  BY DEF NoneTwice, ToSet
<1>2. QED
  BY <1>1, ListsAre

\* A list is no longer than there are chunks.
LEMMA ListLength == ASSUME NEW s \in Lists PROVE Len(s) \in 0..Cardinality(Chunks)
<1>1. s \in Seq(Chunks) /\ NoneTwice(s)
  BY ListsAre
<1>2. s \in Injection(1..Len(s), Chunks)
  BY <1>1 DEF Injection, IsInjective, NoneTwice
<1>3. Cardinality(1..Len(s)) <= Cardinality(Chunks)
  BY <1>2, ChunkFacts, FS_Injection
<1>4. Cardinality(1..Len(s)) = Len(s)
  BY <1>1, UpTo
<1>5. QED
  BY <1>1, <1>3, <1>4, ChunkFacts

\* The fused list and the evidence packet are lists of chunks that were found.
LEMMA ResultsAreFound ==
    ASSUME NEW lexical \in Lists, NEW vector \in Lists, NEW limit \in Nat
    PROVE  /\ Fuse(lexical, vector, limit) \in Lists
           /\ ToSet(Fuse(lexical, vector, limit)) \subseteq ToSet(lexical) \cup ToSet(vector)
<1> DEFINE all == ToSet(lexical) \cup ToSet(vector)
           results == Fuse(lexical, vector, limit)
<1>1. lexical \in Seq(Chunks) /\ vector \in Seq(Chunks)
  BY ListsAre
<1>2. results \in Seq(all) /\ NoneTwice(results)
  BY <1>1, ChunkFacts, FuseOrders DEF NoneTwice
<1>3. all \subseteq Chunks
  BY <1>1, ToSetFinite
<1> HIDE DEF all, results
<1>4. results \in Seq(Chunks) /\ ToSet(results) \subseteq all
  BY <1>2, <1>3, ToSetFinite
<1>5. QED
  BY <1>2, <1>4, ListsAre DEF all, results

LEMMA ItemsAreFound ==
    ASSUME NEW lexical \in Lists, NEW vector \in Lists, NEW results \in Lists
    PROVE  LET items == Items(results, lexical, vector, MinScore, MaxItems)
           IN  items \in Lists /\ ToSet(items) \subseteq ToSet(results)
<1> DEFINE T == {c \in ToSet(results) : HybridScore(c, lexical, vector) >= MinScore}
           eligible == Keep(results, T)
           n == Cardinality(KeptAt(results, T))
           m == Least(MaxItems, Len(eligible))
           items == SubSeq(eligible, 1, m)
<1>1. results \in Seq(Chunks) /\ NoneTwice(results)
  BY ListsAre
<1>2. /\ eligible \in Seq(Chunks) /\ Len(eligible) = n
      /\ \E at \in [1..n -> 1..Len(results)] :
            /\ \A i \in 1..n : eligible[i] = results[at[i]]
            /\ \A i, j \in 1..n : i < j => at[i] < at[j]
  BY <1>1, KeepFilters
<1>3. Items(results, lexical, vector, MinScore, MaxItems) = items
  BY DEF Items
<1>4. PICK at \in [1..n -> 1..Len(results)] :
            /\ \A i \in 1..n : eligible[i] = results[at[i]]
            /\ \A i, j \in 1..n : i < j => at[i] < at[j]
  BY <1>2
<1> HIDE DEF n, eligible
<1>5. n \in Nat /\ m \in 0..n
  BY <1>2, AnsweringAssumption DEF Least
<1> HIDE DEF m
<1>6. items \in Seq(Chunks) /\ DOMAIN items = 1..m /\ \A i \in 1..m : items[i] = eligible[i]
  BY <1>2, <1>5
<1> HIDE DEF items
<1>7. \A i \in 1..m : i \in 1..n /\ at[i] \in DOMAIN results /\ items[i] = results[at[i]]
  BY <1>1, <1>4, <1>5, <1>6
<1>8. NoneTwice(items)
  <2> SUFFICES ASSUME NEW i \in 1..m, NEW j \in 1..m, items[i] = items[j], i < j PROVE FALSE
    BY <1>5, <1>6 DEF NoneTwice
  <2>1. at[i] = at[j]
    BY <1>1, <1>7 DEF NoneTwice
  <2>2. QED
    BY <2>1, <1>4, <1>7
<1>9. ToSet(items) \subseteq ToSet(results)
  BY <1>6, <1>7 DEF ToSet
<1>10. QED
  BY <1>3, <1>6, <1>8, <1>9, ListsAre

-----------------------------------------------------------------------------
(* Citations *)

\* The citations are known evidence ids, each once.
LEMMA ValidateKnows ==
    ASSUME NEW items \in Lists, NEW ids
    PROVE  /\ Validate(ids, items) \in Lists
           /\ ToSet(Validate(ids, items)) \subseteq 1..Len(items)
<1>1. CASE ~(ids \subseteq 1..Len(items))
  BY <1>1, EmptyList DEF Validate
<1>2. CASE ids \subseteq 1..Len(items)
  <2> DEFINE s == Ascending(ids)
             n == Cardinality(ids)
  <2>1. Len(items) \in Nat /\ 1..Len(items) \subseteq Chunks
    BY ListLength, ChunkFacts
  <2>2. IsFiniteSet(ids) /\ ids \in SUBSET Nat
    <3>1. IsFiniteSet(1..Len(items))
      BY <2>1, UpTo
    <3>2. IsFiniteSet(ids)
      BY <1>2, <3>1, FS_Subset
    <3>3. QED
      BY <1>2, <2>1, <3>2, ChunkFacts
  <2>3. n \in Nat /\ s \in [1..n -> ids] /\ \A i, j \in 1..n : i < j => s[i] < s[j]
    BY <2>2, AscendingSorts
  <2>4. Validate(ids, items) = s
    BY <1>2 DEF Validate
  <2> HIDE DEF s, n
  <2>5. s \in Seq(Chunks) /\ DOMAIN s = 1..n
    <3>1. s \in [1..n -> Chunks]
      BY <1>2, <2>1, <2>3
    <3>2. QED
      BY <2>3, <3>1
  <2>6. NoneTwice(s)
    <3> SUFFICES ASSUME NEW i \in 1..n, NEW j \in 1..n, s[i] = s[j], i # j PROVE FALSE
      BY <2>5 DEF NoneTwice
    <3>1. s[i] < s[j] \/ s[j] < s[i]
      BY <2>3
    <3>2. s[i] \in Nat /\ s[j] \in Nat
      BY <2>2, <2>3
    <3>3. QED
      BY <3>1, <3>2
  <2>7. ToSet(s) \subseteq 1..Len(items)
    BY <1>2, <2>3, <2>5 DEF ToSet
  <2>8. QED
    BY <2>4, <2>5, <2>6, <2>7, ListsAre
<1>3. QED
  BY <1>1, <1>2

\* The label of the n-th marker that is kept is the position of its citation.
LEMMA RewriteLabels ==
    ASSUME NEW E, NEW text \in Seq(E), NEW citations \in Lists
    PROVE  LET kept == KeptAt(text, ToSet(citations))
               labels == Rewrite(text, citations)
           IN  /\ labels \in [1..Cardinality(kept) -> 1..Len(citations)]
               /\ Cardinality(kept) \in 0..Len(text)
               /\ \A i \in kept :
                     LET nth == Cardinality({j \in kept : j <= i})
                     IN  nth \in DOMAIN labels /\ citations[labels[nth]] = text[i]
<1> DEFINE T == ToSet(citations)
           kept == KeptAt(text, T)
           known == Keep(text, T)
           n == Cardinality(kept)
           labels == Rewrite(text, citations)
<1>1. kept \in SUBSET Nat /\ IsFiniteSet(kept) /\ n \in 0..Len(text)
  BY KeptAtFinite
<1>2. /\ known \in [1..n -> E \cap T]
      /\ \A i \in kept : /\ 1 + Cardinality({j \in kept : j < i}) \in 1..n
                         /\ known[1 + Cardinality({j \in kept : j < i})] = text[i]
  BY KeepFilters
<1>3. labels = [i \in DOMAIN known |-> Rank(known[i], citations)]
  BY DEF Rewrite
<1>4. \A c \in T : Rank(c, citations) \in 1..Len(citations) /\ citations[Rank(c, citations)] = c
  BY ListsAre, RankFinds
<1> HIDE DEF T, kept, known, n, labels
<1>5. /\ labels \in [1..n -> 1..Len(citations)]
      /\ \A i \in 1..n : citations[labels[i]] = known[i]
  BY <1>2, <1>3, <1>4
<1>6. ASSUME NEW i \in kept
      PROVE  Cardinality({j \in kept : j <= i}) = 1 + Cardinality({j \in kept : j < i})
  <2> DEFINE A == {j \in kept : j <= i}
             B == {j \in kept : j < i}
  <2>1. A = B \cup {i}
    <3>1. \A j \in kept : j <= i <=> j < i \/ j = i
      BY <1>1
    <3>2. QED
      BY <3>1
  <2>2. IsFiniteSet(B) /\ i \notin B
    BY <1>1, FS_Subset
  <2>3. Cardinality(B) \in Nat
    BY <2>2, FS_CardinalityType
  <2> HIDE DEF A, B
  <2>4. Cardinality(B \cup {i}) = Cardinality(B) + 1
    BY <2>2, FS_AddElement
  <2>5. Cardinality(A) = 1 + Cardinality(B)
    BY <2>1, <2>3, <2>4
  <2>6. QED
    BY <2>5 DEF A, B
<1>7. ASSUME NEW i \in kept
      PROVE  LET nth == Cardinality({j \in kept : j <= i})
             IN  nth \in DOMAIN labels /\ citations[labels[nth]] = text[i]
  BY <1>2, <1>5, <1>6
<1>8. QED
  BY <1>1, <1>5, <1>7 DEF T, kept, n, labels

-----------------------------------------------------------------------------
(* The invariant *)

\* What an answer may be made from was searchable at some moment of the request.
FoundInv ==
    /\ Len(req.lexical) <= 150 /\ Len(req.vector) <= 150
    /\ req.pc \in {"packet", "provider"} =>
          ToSet(req.items) \subseteq ToSet(req.lexical) \cup ToSet(req.vector)
    /\ req.withArchived => req.kind = "search"
    /\ req.pc # "idle" => active \ archived \subseteq seen
    /\ req.kind = "answer" =>
          \A c \in ToSet(req.lexical) \cup ToSet(req.vector) : docOf[c] \in seen

\* The band is that of the packet, and the provider is called when the policy lets it.
PacketInv ==
    /\ req.pc \in {"packet", "provider"} =>
          /\ req.kind = "answer"
          /\ req.band = Band(req.items, req.lexical, req.vector, docOf, flagged)
    /\ req.pc = "provider" => Outcome = "answer"

IInv == TypeOK /\ FoundInv /\ PacketInv /\ LabelsNameTheirSource /\ CitedWasSearchable

Statuses == {"none", "results", "answer", "abstain_no_evidence",
             "abstain_weak_evidence", "provider_failure", "error"}

LEMMA BandTyped ==
    ASSUME NEW items, NEW lexical, NEW vector, NEW docs, NEW flags
    PROVE  Band(items, lexical, vector, docs, flags) \in Bands
BY SMT DEF Band, Bands

LEMMA BoundedSequences ==
    ASSUME NEW S, NEW n \in Nat, NEW s
    PROVE  s \in BoundedSeq(S, n) <=> \E m \in 0..n : s \in [1..m -> S]
BY DEF BoundedSeq, SeqOf

LEMMA EmptyBounded == ASSUME NEW S, NEW n \in Nat PROVE <<>> \in BoundedSeq(S, n)
<1>1. <<>> \in [1..0 -> S] /\ 0 \in 0..n
  OBVIOUS
<1>2. QED
  BY <1>1, BoundedSequences

LEMMA IdleTyped == IdleRequest \in RequestStates
<1>1. (CHOOSE k \in TopKs : TRUE) \in TopKs
  BY AnsweringAssumption
<1>2. 0 \in 0..MaxRetries /\ "none" \in Bands
  BY AnsweringAssumption DEF Bands
<1>3. QED
  BY <1>1, <1>2, EmptyList DEF IdleRequest, RequestStates

LEMMA PlainTyped == ASSUME NEW status \in Statuses PROVE Plain(status) \in Responses
<1>1. <<>> \in Texts(Cardinality(Chunks)) /\ <<>> \in BoundedSeq(Chunks, MaxMarkers)
  BY EmptyBounded, AnsweringAssumption DEF Texts
<1>2. QED
  BY <1>1, EmptyList DEF Plain, Responses, Statuses

\* A request with something found for each of its fields.
LEMMA RequestFacts ==
    ASSUME TypeOK
    PROVE  /\ req.lexical \in Lists /\ req.vector \in Lists /\ req.items \in Lists
           /\ req.k \in TopKs /\ req.k \in Nat /\ req.band \in Bands
           /\ req.attempt \in 0..MaxRetries /\ req.kind \in {"search", "answer"}
<1>1. req \in RequestStates
  BY DEF TypeOK
<1>2. /\ req.lexical \in Lists /\ req.vector \in Lists /\ req.items \in Lists
      /\ req.k \in TopKs /\ req.band \in Bands
      /\ req.attempt \in 0..MaxRetries /\ req.kind \in {"search", "answer"}
  BY <1>1 DEF RequestStates
<1>3. req.k \in Nat
  <2>1. req.k \in 1..50
    BY <1>2, AnsweringAssumption, Zenon
  <2>2. \A x \in 1..50 : x \in Nat
    BY SMT
  <2>3. QED
    BY <2>1, <2>2, Zenon
<1>4. QED
  BY <1>2, <1>3

\* A response that is no answer meets what is said of answers.
LEMMA RespondIInv ==
    ASSUME IInv, NEW resp \in Responses, Respond(resp),
           resp.status = "answer" => (LabelsNameTheirSource /\ CitedWasSearchable)'
    PROVE  IInv'
<1>1. response' = resp /\ req' = IdleRequest /\ UNCHANGED <<docOf, flagged, archived, active, changes, seen>>
  BY DEF Respond, store
<1>2. TypeOK'
  BY <1>1, IdleTyped DEF IInv, TypeOK, Documents
<1>3. FoundInv'
  BY <1>1, EmptyList DEF FoundInv, IdleRequest
<1>4. PacketInv'
  BY <1>1 DEF PacketInv, IdleRequest
<1>5. (LabelsNameTheirSource /\ CitedWasSearchable)'
  BY <1>1 DEF LabelsNameTheirSource, CitedWasSearchable
<1>6. QED
  BY <1>2, <1>3, <1>4, <1>5 DEF IInv

\* Steps of the request that leave the store and the last response alone.
LEMMA ProgressIInv ==
    ASSUME IInv, UNCHANGED <<store, seen, response>>, req' \in RequestStates, FoundInv', PacketInv'
    PROVE  IInv'
<1>1. UNCHANGED <<docOf, flagged, archived, active, changes, seen, response>>
  BY DEF store
<1>2. TypeOK'
  BY <1>1 DEF IInv, TypeOK, Documents
<1>3. (LabelsNameTheirSource /\ CitedWasSearchable)'
  BY <1>1 DEF IInv, LabelsNameTheirSource, CitedWasSearchable
<1>4. QED
  BY <1>2, <1>3 DEF IInv

LEMMA InitIInv == Init => IInv
<1> SUFFICES ASSUME Init PROVE IInv
  OBVIOUS
<1>1. TypeOK
  BY IdleTyped, PlainTyped, AnsweringAssumption DEF Init, TypeOK, Statuses
<1>2. FoundInv
  BY EmptyList DEF Init, FoundInv, IdleRequest
<1>3. PacketInv
  BY DEF Init, PacketInv, IdleRequest
<1>4. LabelsNameTheirSource /\ CitedWasSearchable
  BY DEF Init, Plain, LabelsNameTheirSource, CitedWasSearchable
<1>5. QED
  BY <1>1, <1>2, <1>3, <1>4 DEF IInv

LEMMA AskIInv ==
    ASSUME IInv, NEW kind \in {"search", "answer"}, NEW k \in TopKs, NEW withArchived \in BOOLEAN,
           Ask(kind, k, withArchived)
    PROVE  IInv'
<1>1. /\ req' = [IdleRequest EXCEPT !.pc = "embed", !.kind = kind, !.k = k,
                                    !.withArchived = withArchived]
      /\ seen' = active \ archived /\ response' = Plain("none")
      /\ UNCHANGED <<docOf, flagged, archived, active, changes>>
      /\ withArchived => kind = "search"
  BY DEF Ask, store
<1>2. req' \in RequestStates
  BY <1>1, IdleTyped DEF RequestStates
<1>3. TypeOK'
  BY <1>1, <1>2, PlainTyped DEF IInv, TypeOK, Documents, Statuses
<1>4. FoundInv'
  BY <1>1, EmptyList DEF FoundInv, IdleRequest
<1>5. PacketInv'
  BY <1>1 DEF PacketInv, IdleRequest
<1>6. (LabelsNameTheirSource /\ CitedWasSearchable)'
  BY <1>1 DEF Plain, LabelsNameTheirSource, CitedWasSearchable
<1>7. QED
  BY <1>3, <1>4, <1>5, <1>6 DEF IInv

\* Responses that need no more than their type.
LEMMA QuietIInv ==
    ASSUME IInv, NEW status \in Statuses \ {"answer"}, NEW items \in Lists,
           Respond([Plain(status) EXCEPT !.items = items])
    PROVE  IInv'
<1>1. [Plain(status) EXCEPT !.items = items] \in Responses
  BY PlainTyped DEF Responses
<1>2. [Plain(status) EXCEPT !.items = items].status # "answer"
  BY DEF Plain
<1>3. QED
  BY <1>1, <1>2, RespondIInv

LEMMA ErrorIInv ==
    ASSUME IInv, NEW status \in Statuses \ {"answer"}, Respond(Plain(status))
    PROVE  IInv'
<1>1. Plain(status).status # "answer"
  BY DEF Plain
<1>2. QED
  BY <1>1, PlainTyped, RespondIInv

LEMMA EmbedIInv == ASSUME IInv, NEW ok \in BOOLEAN, Embed(ok) PROVE IInv'
<1>1. req \in RequestStates /\ req.pc = "embed"
  BY DEF Embed, IInv, TypeOK
<1>2. req' = [req EXCEPT !.pc = "lexical", !.embedded = ok] /\ UNCHANGED <<store, seen, response>>
  BY DEF Embed
<1>3. req' \in RequestStates
  BY <1>1, <1>2 DEF RequestStates
<1>4. FoundInv'
  BY <1>1, <1>2 DEF IInv, FoundInv, RequestStates, store
<1>5. PacketInv'
  BY <1>1, <1>2 DEF PacketInv, RequestStates
<1>6. QED
  BY <1>2, <1>3, <1>4, <1>5, ProgressIInv

\* What a search returns to an answer is searchable now, and now is a moment of the request.
LEMMA SearchIInv ==
    ASSUME IInv, NEW list \in ListsOf(Candidates), LexicalSearch(list) \/ VectorSearch(list)
    PROVE  IInv'
<1>1. /\ req \in RequestStates /\ req.pc \in {"lexical", "vector"}
      /\ Len(list) <= FetchLimit /\ UNCHANGED <<store, seen, response>>
      /\ \/ req' = [req EXCEPT !.pc = "vector", !.lexical = list]
         \/ req' = [req EXCEPT !.pc = "fuse", !.vector = list]
  BY DEF LexicalSearch, VectorSearch, IInv, TypeOK
<1>2. list \in Lists /\ ToSet(list) \subseteq Candidates
  BY DEF ListsOf
<1>3. req' \in RequestStates
  BY <1>1, <1>2 DEF RequestStates
<1>4. Len(list) <= 150
  <2>1. FetchLimit \in Nat /\ FetchLimit <= 150
    BY RequestFacts DEF IInv, FetchLimit, Least
  <2>2. QED
    BY <1>1, <1>2, <2>1, ListLength
<1>5. ASSUME req.kind = "answer", NEW c \in ToSet(list) PROVE docOf[c] \in seen
  BY <1>1, <1>2, <1>5 DEF Candidates, IInv, FoundInv
<1>6. /\ req'.kind = req.kind /\ req'.withArchived = req.withArchived /\ req'.items = req.items
      /\ req'.lexical \in {req.lexical, list} /\ req'.vector \in {req.vector, list}
      /\ req'.pc \notin {"idle", "packet", "provider"}
  BY <1>1 DEF RequestStates
<1>7. FoundInv'
  <2>1. UNCHANGED <<docOf, active, archived, seen>>
    BY <1>1 DEF store
  <2>2. req.pc # "idle"
    BY <1>1
  <2>3. \A c \in ToSet(req'.lexical) \cup ToSet(req'.vector) :
           c \in ToSet(req.lexical) \cup ToSet(req.vector) \cup ToSet(list)
    BY <1>6
  <2>4. req'.kind = "answer" =>
           \A c \in ToSet(req'.lexical) \cup ToSet(req'.vector) : docOf'[c] \in seen'
    BY <1>5, <1>6, <2>1, <2>3 DEF IInv, FoundInv
  <2>5. Len(req'.lexical) <= 150 /\ Len(req'.vector) <= 150
    BY <1>4, <1>6 DEF IInv, FoundInv
  <2>6. QED
    BY <1>6, <2>1, <2>2, <2>4, <2>5 DEF IInv, FoundInv
<1>8. PacketInv'
  BY <1>6 DEF PacketInv
<1>9. QED
  BY <1>1, <1>3, <1>7, <1>8, ProgressIInv

LEMMA BuildPacketIInv == ASSUME IInv, BuildPacket PROVE IInv'
<1> DEFINE items == Items(Results, req.lexical, req.vector, MinScore, MaxItems)
           band == Band(items, req.lexical, req.vector, docOf, flagged)
<1>1. /\ req \in RequestStates /\ req.pc = "fuse" /\ req.kind = "answer"
      /\ req' = [req EXCEPT !.pc = "packet", !.items = items, !.band = band]
      /\ UNCHANGED <<store, seen, response>>
  BY DEF BuildPacket, IInv, TypeOK
<1>2. Results \in Lists /\ ToSet(Results) \subseteq ToSet(req.lexical) \cup ToSet(req.vector)
  BY RequestFacts, ResultsAreFound DEF IInv, Results
<1>3. items \in Lists /\ ToSet(items) \subseteq ToSet(req.lexical) \cup ToSet(req.vector)
  BY <1>2, RequestFacts, ItemsAreFound DEF IInv
<1>4. band \in Bands
  BY BandTyped
<1>5. UNCHANGED <<docOf, flagged, active, archived, seen>>
  BY <1>1 DEF store
<1>6. /\ req'.pc = "packet" /\ req'.items = items /\ req'.band = band /\ req'.kind = "answer"
      /\ req'.lexical = req.lexical /\ req'.vector = req.vector
      /\ req'.withArchived = req.withArchived
  BY <1>1 DEF RequestStates
<1>7. PacketInv'
  BY <1>5, <1>6 DEF PacketInv
<1> HIDE DEF items, band
<1>8. req' \in RequestStates
  BY <1>1, <1>3, <1>4 DEF RequestStates
<1>9. FoundInv'
  BY <1>1, <1>3, <1>5, <1>6 DEF IInv, FoundInv
<1>10. QED
  BY <1>1, <1>7, <1>8, <1>9, ProgressIInv

\* The calls of the provider change the point reached and the number of the attempt.
LEMMA CallIInv ==
    ASSUME IInv, UNCHANGED <<store, seen, response>>,
           \/ /\ req.pc = "packet" /\ Outcome = "answer"
              /\ req' = [req EXCEPT !.pc = "provider"]
           \/ /\ req.pc = "provider" /\ req.attempt < MaxRetries
              /\ req' = [req EXCEPT !.attempt = @ + 1]
    PROVE  IInv'
<1>1. req \in RequestStates /\ UNCHANGED <<docOf, flagged, active, archived, seen>>
  BY DEF IInv, TypeOK, store
<1>2. /\ req.pc \in {"packet", "provider"} /\ req'.pc = "provider" /\ Outcome = "answer"
      /\ req'.items = req.items /\ req'.band = req.band /\ req'.kind = req.kind
      /\ req'.lexical = req.lexical /\ req'.vector = req.vector
      /\ req'.withArchived = req.withArchived
  BY <1>1 DEF RequestStates, IInv, PacketInv
<1>3. req' \in RequestStates
  <2>1. CASE req' = [req EXCEPT !.pc = "provider"]
    BY <1>1, <2>1 DEF RequestStates
  <2>2. CASE req' = [req EXCEPT !.attempt = @ + 1] /\ req.attempt < MaxRetries
    <3>1. req.attempt + 1 \in 0..MaxRetries
      BY <1>1, <2>2, AnsweringAssumption DEF RequestStates
    <3>2. QED
      BY <1>1, <2>2, <3>1 DEF RequestStates
  <2>3. QED
    BY <2>1, <2>2
<1>4. FoundInv'
  BY <1>1, <1>2 DEF IInv, FoundInv
<1>5. PacketInv'
  BY <1>1, <1>2 DEF IInv, PacketInv, Outcome
<1>6. QED
  BY <1>3, <1>4, <1>5, ProgressIInv

\* The answer: its numbers are labels of the citations of what the markers named, and
\* what it cites is an item of the packet.
LEMMA AnswerIInv ==
    ASSUME IInv, NEW text \in Texts(Len(req.items)), NEW ids, CallAnswers(text, ids)
    PROVE  IInv'
<1> DEFINE citations == Validate(ids, req.items)
           labels == Rewrite(text, citations)
           n == Cardinality(Chunks)
           resp == [status |-> "answer", items |-> req.items, text |-> text,
                    citations |-> citations, labels |-> labels]
           kept == KeptAt(text, ToSet(citations))
<1>1. req.pc = "provider" /\ Respond(resp)
  BY DEF CallAnswers
<1>2. req.items \in Lists /\ Len(req.items) \in 0..n /\ n \in Nat
  BY RequestFacts, ListLength, ChunkFacts DEF IInv
<1>3. citations \in Lists /\ ToSet(citations) \subseteq 1..Len(req.items)
  BY <1>2, ValidateKnows
<1>4. MaxMarkers \in Nat
  BY AnsweringAssumption
<1>5. PICK m \in 0..MaxMarkers : text \in [1..m -> 1..(Len(req.items) + 1)]
  BY <1>4, BoundedSequences DEF Texts
<1> HIDE DEF citations, n
<1>6. text \in Seq(1..(Len(req.items) + 1)) /\ Len(text) = m
  BY <1>4, <1>5
<1>7. text \in Texts(n)
  <2>1. 1..(Len(req.items) + 1) \subseteq 1..(n + 1)
    BY <1>2
  <2>2. text \in [1..m -> 1..(n + 1)]
    BY <1>5, <2>1
  <2>3. QED
    BY <1>4, <2>2, BoundedSequences DEF Texts
<1>8. /\ labels \in [1..Cardinality(kept) -> 1..Len(citations)]
      /\ Cardinality(kept) \in 0..m
      /\ \A i \in kept : LET nth == Cardinality({j \in kept : j <= i})
                         IN  nth \in DOMAIN labels /\ citations[labels[nth]] = text[i]
  BY <1>3, <1>6, RewriteLabels
<1> HIDE DEF labels
<1>9. labels \in BoundedSeq(Chunks, MaxMarkers)
  <2>1. 1..Len(citations) \subseteq Chunks
    BY <1>3, ListLength, ChunkFacts
  <2>2. labels \in [1..Cardinality(kept) -> Chunks] /\ Cardinality(kept) \in 0..MaxMarkers
    BY <1>4, <1>8, <2>1
  <2>3. QED
    BY <1>4, <2>2, BoundedSequences
<1>10. resp \in Responses
  BY <1>2, <1>3, <1>7, <1>9 DEF Responses, n
<1>11. response' = resp /\ UNCHANGED <<docOf, seen>>
  BY <1>1 DEF Respond, store
<1>12. LabelsNameTheirSource'
  <2>1. {i \in DOMAIN text : text[i] \in ToSet(citations)} = kept
    BY DEF KeptAt
  <2> HIDE DEF kept
  <2>2. Len(labels) = Cardinality(kept) /\ DOMAIN citations = 1..Len(citations)
    BY <1>3, <1>4, <1>8, ListsAre
  <2>3. \A i \in kept :
           LET nth == Cardinality({j \in kept : j <= i})
           IN  /\ labels[nth] \in DOMAIN citations
               /\ req.items[citations[labels[nth]]] = req.items[text[i]]
    BY <1>8, <2>2
  <2>4. /\ response'.text = text /\ response'.citations = citations
        /\ response'.labels = labels /\ response'.items = req.items
    BY <1>11
  <2> HIDE DEF citations, resp
  <2>5. {i \in DOMAIN response'.text : response'.text[i] \in ToSet(response'.citations)} = kept
    BY <2>1, <2>4
  <2>6. QED
    BY <2>2, <2>3, <2>4, <2>5 DEF LabelsNameTheirSource
<1>13. CitedWasSearchable'
  <2>1. \A c \in ToSet(req.items) : docOf[c] \in seen
    BY <1>1 DEF IInv, FoundInv, PacketInv
  <2>2. \A i \in 1..Len(req.items) : req.items[i] \in ToSet(req.items)
    BY <1>2, ListsAre DEF ToSet
  <2>3. \A i \in ToSet(citations) : docOf[req.items[i]] \in seen
    BY <1>3, <2>1, <2>2
  <2>4. QED
    BY <1>11, <2>3 DEF CitedWasSearchable
<1>14. QED
  BY <1>1, <1>10, <1>12, <1>13, RespondIInv

\* Changes to the store add to what was searchable during the request.
LEMMA StoreIInv ==
    ASSUME IInv, NEW newArchived \in SUBSET Documents, NEW newActive \in SUBSET Documents,
           StoreChanges(newArchived, newActive)
    PROVE  IInv'
<1>1. /\ UNCHANGED <<docOf, flagged, req, response>> /\ changes' = changes + 1
      /\ changes < MaxChanges /\ archived' = newArchived /\ active' = newActive
      /\ seen' = IF req.pc = "idle" THEN seen ELSE seen \cup (newActive \ newArchived)
  BY DEF StoreChanges
<1>2. seen \subseteq seen' /\ seen' \subseteq Documents /\ Documents' = Documents
  BY <1>1 DEF IInv, TypeOK, Documents
<1>3. changes' \in 0..MaxChanges
  BY <1>1, AnsweringAssumption DEF IInv, TypeOK
<1>4. TypeOK'
  BY <1>1, <1>2, <1>3 DEF IInv, TypeOK
<1>5. FoundInv'
  BY <1>1, <1>2 DEF IInv, FoundInv
<1>6. PacketInv'
  BY <1>1 DEF IInv, PacketInv, Outcome
<1>7. LabelsNameTheirSource'
  BY <1>1 DEF IInv, LabelsNameTheirSource
<1>8. CitedWasSearchable'
  BY <1>1, <1>2 DEF IInv, CitedWasSearchable
<1>9. QED
  BY <1>4, <1>5, <1>6, <1>7, <1>8 DEF IInv

LEMMA NextIInv == IInv /\ [Next]_vars => IInv'
<1> SUFFICES ASSUME IInv, [Next]_vars PROVE IInv'
  OBVIOUS
<1>1. ASSUME NEW kind \in {"search", "answer"}, NEW k \in TopKs, NEW withArchived \in BOOLEAN,
             Ask(kind, k, withArchived)
      PROVE  IInv'
  BY <1>1, AskIInv
<1>2. ASSUME NEW kind \in {"search", "answer"}, AskBlank(kind) PROVE IInv'
  <2>1. Respond(Plain("abstain_no_evidence")) \/ Respond(Plain("error"))
    BY <1>2 DEF AskBlank
  <2>2. QED
    BY <2>1, ErrorIInv DEF Statuses
<1>3. ASSUME NEW ok \in BOOLEAN, Embed(ok) PROVE IInv'
  BY <1>3, EmbedIInv
<1>4. ASSUME NEW list \in ListsOf(Candidates), LexicalSearch(list) \/ VectorSearch(list)
      PROVE  IInv'
  BY <1>4, SearchIInv
<1>5. CASE DatabaseFails
  BY <1>5, ErrorIInv DEF DatabaseFails, Statuses
<1>6. CASE SearchResponds
  <2>1. Results \in Lists
    BY RequestFacts, ResultsAreFound DEF IInv, Results
  <2>2. QED
    BY <1>6, <2>1, QuietIInv DEF SearchResponds, Statuses
<1>7. CASE BuildPacket
  BY <1>7, BuildPacketIInv
<1>8. req.items \in Lists
  BY RequestFacts DEF IInv
<1>9. CASE Abstain
  <2>1. Outcome \in Statuses \ {"answer"}
    BY <1>9 DEF Abstain, Outcome, Assess, Statuses
  <2>2. QED
    BY <1>8, <1>9, <2>1, QuietIInv DEF Abstain
<1>10. CASE CallProvider
  BY <1>10, CallIInv DEF CallProvider
<1>11. CASE CallFails \/ CallRejected
  <2>1. CASE Respond([Plain("provider_failure") EXCEPT !.items = req.items])
    BY <1>8, <2>1, QuietIInv DEF Statuses
  <2>2. CASE ~Respond([Plain("provider_failure") EXCEPT !.items = req.items])
    BY <1>11, <2>2, CallIInv DEF CallFails, CallRejected
  <2>3. QED
    BY <2>1, <2>2
<1>12. ASSUME NEW text \in Texts(Len(req.items)), NEW ids, CallAnswers(text, ids) PROVE IInv'
  BY <1>12, AnswerIInv
<1>13. ASSUME NEW d \in Documents, Archive(d) \/ SwitchSource(d) PROVE IInv'
  <2>1. archived \subseteq Documents /\ active \subseteq Documents
    BY DEF IInv, TypeOK
  <2>2. CASE Archive(d)
    BY <2>1, <2>2, StoreIInv DEF Archive
  <2>3. CASE SwitchSource(d)
    <3> DEFINE now == IF d \in active THEN active \ {d} ELSE active \cup {d}
    <3>1. now \in SUBSET Documents
      BY <2>1
    <3>2. QED
      BY <2>1, <2>3, <3>1, StoreIInv DEF SwitchSource
  <2>4. QED
    BY <1>13, <2>2, <2>3
<1>14. CASE UNCHANGED vars
  <2>1. UNCHANGED <<docOf, flagged, archived, active, changes, seen, req, response>>
    BY <1>14 DEF vars, store
  <2>2. TypeOK'
    BY <2>1 DEF IInv, TypeOK, Documents
  <2>3. FoundInv'
    BY <2>1 DEF IInv, FoundInv
  <2>4. PacketInv'
    BY <2>1 DEF IInv, PacketInv, Outcome
  <2>5. LabelsNameTheirSource' /\ CitedWasSearchable'
    BY <2>1 DEF IInv, LabelsNameTheirSource, CitedWasSearchable
  <2>6. QED
    BY <2>2, <2>3, <2>4, <2>5 DEF IInv
<1>15. CASE Serve
  BY <1>3, <1>4, <1>5, <1>6, <1>7, <1>9, <1>10, <1>11, <1>12, <1>15, Zenon DEF Serve
<1>16. QED
  BY <1>1, <1>2, <1>13, <1>14, <1>15, Zenon DEF Next

-----------------------------------------------------------------------------
(* What the invariant says of the evidence and of the fused list *)

\* The policy and the thresholds of the band together: what the provider sees was
\* agreed on or comes from several documents.
LEMMA WeakEvidence == ASSUME IInv PROVE WeakEvidenceIsNotTrusted
<1> DEFINE docs == Cardinality(DocumentsOf(req.items, docOf))
           both == Agreed(req.items, req.lexical, req.vector)
           band == Band(req.items, req.lexical, req.vector, docOf, flagged)
<1>1. /\ req.items \in Seq(Chunks) /\ req.lexical \in Seq(Chunks) /\ req.vector \in Seq(Chunks)
  BY RequestFacts, ListsAre DEF IInv
<1>2. docs \in Nat
  BY <1>1, DocumentsFinite
<1>3. both = {} => band # "high" /\ (docs <= 1 => band \in {"none", "low"})
  BY <1>1, BandWithoutAgreement
<1>4. req.pc \in {"packet", "provider"} => req.band = band
  BY DEF IInv, PacketInv
<1>5. /\ DocumentsOf(req.items, docOf) = {docOf[c] : c \in ToSet(req.items)}
      /\ both = ToSet(req.items) \cap ToSet(req.lexical) \cap ToSet(req.vector)
  BY DEF DocumentsOf, Agreed
<1> HIDE DEF docs, both, band
<1>6. ASSUME RequireMedium, req.pc = "provider" PROVE docs > 1 \/ both # {}
  <2>1. req.band \notin {"none", "low"}
    BY <1>6 DEF IInv, PacketInv, Outcome, Assess
  <2>2. both = {} => ~(docs <= 1)
    BY <1>3, <1>4, <1>6, <2>1
  <2>3. QED
    BY <1>2, <2>2
<1>7. ASSUME req.pc = "packet", req.vector = <<>> PROVE req.band # "high"
  <2>1. ToSet(req.vector) = {}
    BY <1>7 DEF ToSet
  <2>2. QED
    BY <1>3, <1>4, <1>5, <1>7, <2>1
<1>8. QED
  BY <1>5, <1>6, <1>7 DEF WeakEvidenceIsNotTrusted, docs

\* Ranks of at most 150, from FetchLimit, tell any two places of a list apart.
LEMMA Dominance == ASSUME IInv PROVE DominanceRespected
<1> DEFINE score(c) == HybridScore(c, req.lexical, req.vector)
           all == ToSet(req.lexical) \cup ToSet(req.vector)
<1>1. /\ req.lexical \in Seq(Chunks) /\ req.vector \in Seq(Chunks) /\ req.k \in Nat
      /\ Len(req.lexical) <= 150 /\ Len(req.vector) <= 150
  BY RequestFacts, ListsAre DEF IInv, FoundInv
<1>2. \A s \in Seq(Chunks) : Len(s) <= 150 =>
         \A c : Rank(c, s) \in 0..150 /\ (Rank(c, s) # 0 => c \in ToSet(s))
  <2> SUFFICES ASSUME NEW s \in Seq(Chunks), Len(s) <= 150, NEW c
               PROVE  Rank(c, s) \in 0..150 /\ (Rank(c, s) # 0 => c \in ToSet(s))
    OBVIOUS
  <2>1. Rank(c, s) \in 0..Len(s) /\ (c \notin ToSet(s) => Rank(c, s) = 0)
    BY RankFinds
  <2>2. \A n, m \in Nat : n <= m => 0..n \subseteq 0..m
    OBVIOUS
  <2>3. Len(s) \in Nat /\ 150 \in Nat
    OBVIOUS
  <2>4. 0..Len(s) \subseteq 0..150
    BY <2>2, <2>3, Zenon
  <2>5. Rank(c, s) \in 0..150
    BY <2>1, <2>4, Zenon
  <2>6. QED
    BY <2>1, <2>5, Zenon
<1>3. \A j \in DOMAIN Results : \A c \in all :
         score(c) > score(Results[j]) => \E i \in 1..(j - 1) : Results[i] = c
  BY <1>1, ChunkFacts, FuseOrders DEF Results
<1>4. ASSUME NEW c, NEW d,
             \/ /\ Better(Rank(c, req.lexical), Rank(d, req.lexical))
                /\ ~Better(Rank(d, req.vector), Rank(c, req.vector))
             \/ /\ Better(Rank(c, req.vector), Rank(d, req.vector))
                /\ ~Better(Rank(d, req.lexical), Rank(c, req.lexical))
      PROVE  c \in all /\ score(c) > score(d)
  <2> DEFINE lc == Rank(c, req.lexical)
             ld == Rank(d, req.lexical)
             vc == Rank(c, req.vector)
             vd == Rank(d, req.vector)
  <2>1. lc \in 0..150 /\ ld \in 0..150 /\ vc \in 0..150 /\ vd \in 0..150
    BY <1>1, <1>2
  <2>2. c \in all
    BY <1>1, <1>2, <1>4 DEF Better
  <2>3. /\ Better(lc, ld) => Contribution(lc) > Contribution(ld)
        /\ ~Better(ld, lc) => Contribution(lc) >= Contribution(ld)
        /\ Better(vc, vd) => Contribution(vc) > Contribution(vd)
        /\ ~Better(vd, vc) => Contribution(vc) >= Contribution(vd)
    BY <2>1, BetterContributes
  <2>4. /\ Contribution(lc) \in Nat /\ Contribution(ld) \in Nat
        /\ Contribution(vc) \in Nat /\ Contribution(vd) \in Nat
    BY <2>1, ContributionBounds
  <2>5. score(c) = Contribution(lc) + Contribution(vc) /\ score(d) = Contribution(ld) + Contribution(vd)
    BY DEF HybridScore
  <2> HIDE DEF lc, ld, vc, vd
  <2>6. \/ Contribution(lc) > Contribution(ld) /\ Contribution(vc) >= Contribution(vd)
        \/ Contribution(vc) > Contribution(vd) /\ Contribution(lc) >= Contribution(ld)
    BY <1>4, <2>3 DEF lc, ld, vc, vd
  <2>7. score(c) > score(d)
    <3> HIDE DEF score
    <3>1. QED
      BY <2>4, <2>5, <2>6
  <2>8. QED
    BY <2>2, <2>7
<1> HIDE DEF score, all
<1>5. QED
  BY <1>3, <1>4 DEF DominanceRespected, Better

-----------------------------------------------------------------------------
(* The theorems *)

\* Every state of a request, from Ask to its response, satisfies the invariant:
\* retrieve and answer with archive_document and update_source between their awaits.
THEOREM SafetyInductive == Spec => []IInv
<1>1. Init => IInv
  BY InitIInv
<1>2. IInv /\ [Next]_vars => IInv'
  BY NextIInv
<1>3. QED
  BY <1>1, <1>2, PTL DEF Spec

\* The lists of a request and of its response hold chunks of the workspace, each at
\* most once, every label is a label of some citation list, and the retry loop of the
\* providers makes at most MaxRetries + 1 attempts (generate in provider.py).
THEOREM TypeCorrect == Spec => []TypeOK
<1>1. IInv => TypeOK
  BY DEF IInv
<1>2. QED
  BY <1>1, SafetyInductive, PTL

\* reciprocal_rank_fusion, cut off at the limit, puts a chunk before every other it
\* is ranked better than in one channel and not worse than in the other.
THEOREM FusionRespectsDominance == Spec => []DominanceRespected
<1>1. IInv => DominanceRespected
  BY Dominance
<1>2. QED
  BY <1>1, SafetyInductive, PTL

\* _calculate_evidence_band and EvidenceSufficiencyPolicy.assess together: with the
\* default policy no provider sees evidence from one document that the channels do not
\* agree on, and one channel alone never makes the band high, for any number of items.
THEOREM WeakIsNotTrusted == Spec => []WeakEvidenceIsNotTrusted
<1>1. IInv => WeakEvidenceIsNotTrusted
  BY WeakEvidence
<1>2. QED
  BY <1>1, SafetyInductive, PTL

\* validate and rewrite_citations_in_answer, for any text of markers: each number of
\* the answer is the label of the citation of the chunk that its marker named.
THEOREM LabelsAreRight == Spec => []LabelsNameTheirSource
<1>1. IInv => LabelsNameTheirSource
  BY DEF IInv
<1>2. QED
  BY <1>1, SafetyInductive, PTL

\* An answer cites only what was searchable at some moment of its request, whatever
\* archive_document and update_source do between the searches and the provider calls.
THEOREM CitationsWereSearchable == Spec => []CitedWasSearchable
<1>1. IInv => CitedWasSearchable
  BY DEF IInv
<1>2. QED
  BY <1>1, SafetyInductive, PTL
=============================================================================
