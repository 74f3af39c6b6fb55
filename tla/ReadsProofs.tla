----------------------------- MODULE ReadsProofs ------------------------------
(***************************************************************************)
(* Theorems about Reads and the demo's mirror of it.  First, what sorting  *)
(* a finite set by a strict order yields: that there is exactly one such   *)
(* sequence, and that an element's place in it is its rank.                *)
(***************************************************************************)
EXTENDS DemoStore, FiniteSetTheorems, SequenceTheorems, TLAPS

-------------------------------------------------------------------------------
(* Sorting.  A strict order is a set R of pairs, as the provers cannot be  *)
(* given an operator.                                                      *)

Orders(R, S) ==
  /\ \A x \in S : <<x, x>> \notin R
  /\ \A x, y \in S : x # y => <<x, y>> \in R \/ <<y, x>> \in R
  /\ \A x, y, z \in S : <<x, y>> \in R /\ <<y, z>> \in R => <<x, z>> \in R
Ordered(s, S, R) ==
  /\ s \in [1..Cardinality(S) -> S]
  /\ \A a, b \in 1..Cardinality(S) : a < b => <<s[a], s[b]>> \in R

\* An element and those ahead of it, and how many they are.
Upto(x, S, R) == {y \in S : y = x \/ <<y, x>> \in R}
Rank(x, S, R) == Cardinality(Upto(x, S, R))

LEMMA UptoFinite ==
    ASSUME NEW S, NEW R, IsFiniteSet(S), NEW x \in S
    PROVE  /\ Upto(x, S, R) \subseteq S /\ x \in Upto(x, S, R) /\ IsFiniteSet(Upto(x, S, R))
           /\ Rank(x, S, R) \in 1..Cardinality(S) /\ Rank(x, S, R) \in Nat
<1>1. Upto(x, S, R) \subseteq S /\ x \in Upto(x, S, R)
    BY DEF Upto
<1>2. /\ IsFiniteSet(Upto(x, S, R)) /\ Cardinality(Upto(x, S, R)) <= Cardinality(S)
      /\ Cardinality(S) \in Nat
    BY <1>1, FS_Subset, FS_CardinalityType
<1>3. Cardinality(Upto(x, S, R)) \in Nat /\ Cardinality(Upto(x, S, R)) # 0
    BY <1>1, <1>2, FS_CardinalityType, FS_EmptySet
<1> QED BY <1>1, <1>2, <1>3 DEF Rank

\* Who is ahead has the smaller rank.
LEMMA RankRises ==
    ASSUME NEW S, NEW R, IsFiniteSet(S), Orders(R, S), NEW x \in S, NEW y \in S, <<x, y>> \in R
    PROVE  Rank(x, S, R) < Rank(y, S, R)
<1>1. Upto(x, S, R) \subseteq Upto(y, S, R)
    BY DEF Upto, Orders
<1>2. y \in Upto(y, S, R) /\ y \notin Upto(x, S, R)
    BY DEF Upto, Orders
<1>3. IsFiniteSet(Upto(y, S, R)) /\ Rank(x, S, R) \in Int /\ Rank(y, S, R) \in Int
    BY UptoFinite
<1>4. Rank(x, S, R) <= Rank(y, S, R) /\ Rank(x, S, R) # Rank(y, S, R)
    BY <1>1, <1>2, <1>3, FS_Subset DEF Rank
<1> QED BY <1>3, <1>4

LEMMA RankTells ==
    ASSUME NEW S, NEW R, IsFiniteSet(S), Orders(R, S), NEW x \in S, NEW y \in S
    PROVE  /\ Rank(x, S, R) = Rank(y, S, R) => x = y
           /\ Rank(x, S, R) < Rank(y, S, R) => <<x, y>> \in R
<1>1. Rank(x, S, R) \in Int /\ Rank(y, S, R) \in Int
    BY UptoFinite
<1>2. x # y => <<x, y>> \in R \/ <<y, x>> \in R
    BY DEF Orders
<1>3. <<x, y>> \in R => Rank(x, S, R) < Rank(y, S, R)
    BY RankRises
<1>4. <<y, x>> \in R => Rank(y, S, R) < Rank(x, S, R)
    BY RankRises
<1> QED BY <1>1, <1>2, <1>3, <1>4

\* Every rank is somebody's.
LEMMA RanksAreTaken ==
    ASSUME NEW S, NEW R, IsFiniteSet(S), Orders(R, S), NEW k \in 1..Cardinality(S)
    PROVE  \E x \in S : Rank(x, S, R) = k
<1> DEFINE n == Cardinality(S)
           f == [x \in S |-> Rank(x, S, R)]
<1>1. n \in Nat
    BY FS_CardinalityType
<1>2. f \in [S -> 1..n]
    BY UptoFinite
<1>3. f \in Injection(S, 1..n)
    <2>1. \A x, y \in S : f[x] = f[y] => x = y
        BY RankTells
    <2> HIDE DEF f
    <2> QED BY <1>2, <2>1 DEF Injection, IsInjective
<1>4. IsFiniteSet(1..n) /\ Cardinality(1..n) = n
    BY <1>1, FS_Interval
<1>5. f \in Surjection(S, 1..n)
    <2> HIDE DEF f
    <2> QED BY <1>3, <1>4, FS_Injection
<1> QED BY <1>5 DEF Surjection

\* There is a sorted sequence.
LEMMA SortExists ==
    ASSUME NEW S, NEW R, IsFiniteSet(S), Orders(R, S)
    PROVE  \E s : Ordered(s, S, R)
<1> DEFINE n == Cardinality(S)
           s == [k \in 1..n |-> CHOOSE x \in S : Rank(x, S, R) = k]
<1>1. \A k \in 1..n : s[k] \in S /\ Rank(s[k], S, R) = k
    BY RanksAreTaken
<1>2. s \in [1..n -> S]
    BY <1>1
<1>3. ASSUME NEW a \in 1..n, NEW b \in 1..n, a < b PROVE <<s[a], s[b]>> \in R
    <2> HIDE DEF s
    <2> QED BY <1>1, <1>3, RankTells
<1> QED BY <1>2, <1>3 DEF Ordered

\* In a sorted sequence everybody is at the place of his rank.
LEMMA PlaceIsRank ==
    ASSUME NEW S, NEW R, IsFiniteSet(S), Orders(R, S), NEW s, Ordered(s, S, R)
    PROVE  /\ \A k \in 1..Cardinality(S) : s[k] \in S /\ Rank(s[k], S, R) = k
           /\ \A x \in S : s[Rank(x, S, R)] = x
<1> DEFINE n == Cardinality(S)
<1>1. n \in Nat /\ s \in [1..n -> S]
    BY FS_CardinalityType DEF Ordered
<1>2. \A a, b \in 1..n : a # b => s[a] # s[b]
    <2>1. TAKE a, b \in 1..n
    <2>2. a < b \/ b < a \/ a = b
        BY <1>1
    <2>3. s[a] \in S /\ s[b] \in S
        BY <1>1
    <2> QED BY <2>2, <2>3 DEF Ordered, Orders
<1>3. s \in Injection(1..n, S)
    BY <1>1, <1>2 DEF Injection, IsInjective
<1>4. s \in Surjection(1..n, S)
    <2>1. IsFiniteSet(1..n) /\ Cardinality(1..n) = n
        BY <1>1, FS_Interval
    <2> QED BY <1>3, <2>1, FS_Injection
<1>5. ASSUME NEW k \in 1..n PROVE Rank(s[k], S, R) = k
    <2> DEFINE U == Upto(s[k], S, R)
               f == [j \in 1..k |-> s[j]]
    <2>1. \A j \in 1..k : s[j] \in U
        <3>1. \A j \in 1..k : j \in 1..n /\ (j = k \/ j < k)
            BY <1>1
        <3> QED BY <1>1, <3>1 DEF Upto, Ordered
    <2>2. \A y \in U : \E j \in 1..k : s[j] = y
        <3>1. TAKE y \in U
        <3>2. PICK j \in 1..n : s[j] = y
            BY <1>4 DEF Upto, Surjection
        <3>3. ASSUME j > k PROVE FALSE
            <4>1. <<s[k], y>> \in R
                BY <3>2, <3>3 DEF Ordered
            <4>2. y \in S /\ (y = s[k] \/ <<y, s[k]>> \in R) /\ s[k] \in S
                BY <1>1 DEF Upto
            <4> QED BY <4>1, <4>2 DEF Orders
        <3> QED BY <3>2, <3>3, <1>1
    <2>3. f \in Injection(1..k, U)
        <3>1. f \in [1..k -> U]
            BY <2>1
        <3>2. \A i, j \in 1..k : f[i] = f[j] => i = j
            BY <1>2, <1>1
        <3> HIDE DEF f, U
        <3> QED BY <3>1, <3>2 DEF Injection, IsInjective
    <2>4. f \in Surjection(1..k, U)
        <3>1. f \in [1..k -> U]
            BY <2>1
        <3>2. \A y \in U : \E j \in 1..k : f[j] = y
            BY <2>2
        <3> HIDE DEF f, U
        <3> QED BY <3>1, <3>2 DEF Surjection
    <2>5. ExistsBijection(1..k, U)
        BY <2>3, <2>4 DEF ExistsBijection, Bijection
    <2>6. k \in Nat
        BY <1>1
    <2> HIDE DEF U
    <2>7. Cardinality(U) = k
        BY <2>5, <2>6, FS_CountingElements
    <2> QED BY <2>7 DEF Rank, U
<1>6. ASSUME NEW x \in S PROVE s[Rank(x, S, R)] = x
    <2>1. PICK k \in 1..n : s[k] = x
        BY <1>4 DEF Surjection
    <2> QED BY <2>1, <1>5
<1> QED BY <1>1, <1>5, <1>6

\* And there is one sorted sequence only.
LEMMA SortUnique ==
    ASSUME NEW S, NEW R, IsFiniteSet(S), Orders(R, S), NEW s, NEW t,
           Ordered(s, S, R), Ordered(t, S, R)
    PROVE  s = t
<1>1. \A k \in 1..Cardinality(S) : s[k] = t[k]
    <2>1. TAKE k \in 1..Cardinality(S)
    <2>2. s[k] \in S /\ Rank(s[k], S, R) = k
        BY PlaceIsRank
    <2>3. t[Rank(s[k], S, R)] = s[k]
        BY <2>2, PlaceIsRank
    <2> QED BY <2>2, <2>3
<1>2. s \in [1..Cardinality(S) -> S] /\ t \in [1..Cardinality(S) -> S]
    BY DEF Ordered
<1>3. /\ s = [k \in 1..Cardinality(S) |-> s[k]]
      /\ t = [k \in 1..Cardinality(S) |-> t[k]]
    BY <1>2
<1> QED BY <1>1, <1>3

\* The sequence is one in the sense of Sequences, and holds the set.
LEMMA OrderedIsASeq ==
    ASSUME NEW S, NEW R, IsFiniteSet(S), Orders(R, S), NEW s, Ordered(s, S, R)
    PROVE  /\ s \in Seq(S) /\ Len(s) = Cardinality(S) /\ Len(s) \in Nat /\ DOMAIN s = 1..Len(s)
           /\ ToSet(s) = S
<1>1. Cardinality(S) \in Nat /\ s \in [1..Cardinality(S) -> S]
    BY FS_CardinalityType DEF Ordered
<1>2. \A x \in S : Rank(x, S, R) \in 1..Cardinality(S) /\ s[Rank(x, S, R)] = x
    BY UptoFinite, PlaceIsRank
<1>3. ToSet(s) = S
    BY <1>1, <1>2 DEF ToSet
<1> QED BY <1>1, <1>3

\* Who joins may move others back, never forward.
LEMMA RankGrows ==
    ASSUME NEW S, NEW T, NEW R, NEW Q, IsFiniteSet(T), S \subseteq T, NEW x \in S,
           \A y \in S : <<y, x>> \in R => <<y, x>> \in Q
    PROVE  Rank(x, S, R) <= Rank(x, T, Q)
<1>1. Upto(x, S, R) \subseteq Upto(x, T, Q)
    BY DEF Upto
<1>2. IsFiniteSet(Upto(x, T, Q))
    BY UptoFinite
<1> QED BY <1>1, <1>2, FS_Subset DEF Rank

-------------------------------------------------------------------------------
(* What is sorted in Reads: entries, comments, users.                      *)

EntryOrder(c, ids, sort) ==
  {p \in ids \X ids : IF sort = "top" THEN Higher(c, p[1], p[2]) ELSE Newer(c, p[1], p[2])}
NumberOrder(ids) == {p \in ids \X ids : p[1] < p[2]}
AgeOrder(ids) == {p \in ids \X ids : Older(p[1], p[2])}

(* Data that can be sorted: ids, moments and numbers of votes. *)
Sortable(c, ids) ==
  /\ IsFiniteSet(ids) /\ ids \subseteq Int
  /\ \A i \in ids : c[i].created \in Int /\ c[i].votes \in Int

LEMMA EntryOrders ==
    ASSUME NEW c, NEW ids, NEW sort, Sortable(c, ids)
    PROVE  Orders(EntryOrder(c, ids, sort), ids)
<1> DEFINE R == EntryOrder(c, ids, sort)
<1>1. ASSUME NEW x \in ids, NEW y \in ids
      PROVE  <<x, y>> \in R <=> IF sort = "top" THEN Higher(c, x, y) ELSE Newer(c, x, y)
    BY DEF EntryOrder
<1>2. \A i \in ids : i \in Int /\ c[i].created \in Int /\ c[i].votes \in Int
    BY DEF Sortable
<1> HIDE DEF R
<1>3. \A x \in ids : <<x, x>> \notin R
    BY <1>1, <1>2 DEF Higher, Newer
<1>4. \A x, y \in ids : x # y => <<x, y>> \in R \/ <<y, x>> \in R
    BY <1>1, <1>2 DEF Higher, Newer
<1>5. \A x, y, z \in ids : <<x, y>> \in R /\ <<y, z>> \in R => <<x, z>> \in R
    BY <1>1, <1>2 DEF Higher, Newer
<1> QED BY <1>3, <1>4, <1>5 DEF Orders, R

\* The database's answer is sorted.
LEMMA SortedIsOrdered ==
    ASSUME NEW c, NEW ids, NEW sort, Sortable(c, ids)
    PROVE  Ordered(Sorted(c, ids, sort), ids, EntryOrder(c, ids, sort))
<1> DEFINE R == EntryOrder(c, ids, sort)
           n == Cardinality(ids)
           Ahead(i, j) == IF sort = "top" THEN Higher(c, i, j) ELSE Newer(c, i, j)
<1>1. PICK s : Ordered(s, ids, R)
    BY EntryOrders, SortExists DEF Sortable
<1>2. n \in Nat
    BY FS_CardinalityType DEF Sortable
<1>3. s \in [1..n -> ids] /\ \A a, b \in 1..n : a < b => Ahead(s[a], s[b])
    BY <1>1 DEF Ordered, EntryOrder
<1>4. /\ Sorted(c, ids, sort) \in [1..n -> ids]
      /\ \A a, b \in 1..n : a < b => Ahead(Sorted(c, ids, sort)[a], Sorted(c, ids, sort)[b])
    <2> HIDE DEF n
    <2> QED BY <1>3 DEF Sorted, InOrder, n
<1> QED BY <1>4 DEF Ordered, EntryOrder

LEMMA SortedHas ==
    ASSUME NEW c, NEW ids, NEW sort, Sortable(c, ids)
    PROVE  /\ Sorted(c, ids, sort) \in Seq(ids) /\ ToSet(Sorted(c, ids, sort)) = ids
           /\ Len(Sorted(c, ids, sort)) = Cardinality(ids)
<1>1. IsFiniteSet(ids)
    BY DEF Sortable
<1>2. Orders(EntryOrder(c, ids, sort), ids)
    BY EntryOrders
<1>3. Ordered(Sorted(c, ids, sort), ids, EntryOrder(c, ids, sort))
    BY SortedIsOrdered
<1> QED BY <1>1, <1>2, <1>3, OrderedIsASeq

Told(c, id, b) == {m \in DOMAIN c : c[m].entry = id /\ (c[m].internal => b)}

LEMMA CommentsListed ==
    ASSUME NEW c, NEW id, NEW b, IsFiniteSet(DOMAIN c), DOMAIN c \subseteq Int
    PROVE  ToSet(ListCommentsByEntryID(c, id, b)) = Told(c, id, b)
<1> DEFINE S == {m \in DOMAIN c : c[m].entry = id /\ (c[m].internal => b)}
           R == NumberOrder(S)
           n == Cardinality(S)
           l == ListCommentsByEntryID(c, id, b)
<1>1. IsFiniteSet(S) /\ S \subseteq Int
    BY FS_Subset
<1> HIDE DEF S
<1>2. Orders(R, S)
    BY <1>1 DEF Orders, NumberOrder
<1>3. PICK s : Ordered(s, S, R)
    BY <1>1, <1>2, SortExists
<1>4. s \in [1..n -> S] /\ \A i, j \in 1..n : i < j => s[i] < s[j]
    BY <1>3 DEF Ordered, NumberOrder
<1>5. l = CHOOSE t \in [1..n -> S] : \A i, j \in 1..n : i < j => t[i] < t[j]
    BY DEF ListCommentsByEntryID, InOrder, S
<1> HIDE DEF l, n
<1>6. l \in [1..n -> S] /\ \A i, j \in 1..n : i < j => l[i] < l[j]
    BY <1>4, <1>5
<1>7. Ordered(l, S, R)
    BY <1>6 DEF Ordered, NumberOrder, n
<1>8. ToSet(l) = S
    BY <1>1, <1>2, <1>7, OrderedIsASeq
<1> QED BY <1>8 DEF l, S, Told

AtMost(S, m) == \A x \in S : x <= m
\* A finite set of numbers has a smallest and a largest.
LEMMA Extremes ==
    ASSUME NEW S, IsFiniteSet(S), S \subseteq Int, S # {}
    PROVE  Min(S) \in S /\ Max(S) \in S /\ AtMost(S, Max(S))
<1> DEFINE R == NumberOrder(S)
           n == Cardinality(S)
<1>1. Orders(R, S)
    BY DEF Orders, NumberOrder
<1>2. PICK s : Ordered(s, S, R)
    BY <1>1, SortExists
<1>3. n \in Nat /\ n # 0
    BY FS_CardinalityType, FS_EmptySet
<1>4. s \in [1..n -> S] /\ \A i, j \in 1..n : i < j => s[i] < s[j]
    BY <1>2 DEF Ordered, NumberOrder
<1>5. \A x \in S : \E k \in 1..n : s[k] = x
    <2>1. TAKE x \in S
    <2>2. Rank(x, S, R) \in 1..n /\ s[Rank(x, S, R)] = x
        BY <1>1, <1>2, PlaceIsRank, UptoFinite
    <2> QED BY <2>2
<1> HIDE DEF n
<1>6. 1 \in 1..n /\ n \in 1..n /\ \A k \in 1..n : (1 < k \/ k = 1) /\ (k < n \/ k = n)
    BY <1>3
<1>7. \A k \in 1..n : s[k] \in S /\ s[k] \in Int
    BY <1>4
<1>8. \A k \in 1..n : s[1] <= s[k] /\ s[n] >= s[k]
    BY <1>4, <1>6, <1>7
<1>9. s[1] \in S /\ (\A x \in S : s[1] <= x) /\ s[n] \in S /\ (\A x \in S : s[n] >= x)
    BY <1>5, <1>6, <1>7, <1>8
<1> QED BY <1>9 DEF Min, Max, AtMost

-------------------------------------------------------------------------------
(* Pages. *)

LEMMA MinOfTwo ==
    ASSUME NEW a \in Int, NEW b \in Int
    PROVE  Min({a, b}) = IF a <= b THEN a ELSE b
BY DEF Min

LEMMA LimitsHold ==
    ASSUME NEW f, f.limit \in Int, f.page \in Nat
    PROVE  LimitOf(f) \in Nat \ {0} /\ PageOf(f) \in Nat \ {0}
BY ConstantsAssumption DEF LimitOf, PageOf

\* The numbers of a page: lo before it, hi with it.
LEMMA PageNumbers ==
    ASSUME NEW p \in Nat \ {0}, NEW l \in Nat \ {0}
    PROVE  /\ (p - 1) * l \in Nat /\ p * l \in Nat /\ p * l = (p - 1) * l + l
           /\ ((p + 1) - 1) * l = p * l
           /\ (1 - 1) * l = 0
OBVIOUS

\* Where a page ends.
End(s, p, l) == Min({p * l, Len(s)})

LEMMA EndIs ==
    ASSUME NEW T, NEW s \in Seq(T), NEW p \in Nat, NEW l \in Nat
    PROVE  End(s, p, l) = (IF p * l <= Len(s) THEN p * l ELSE Len(s)) /\ End(s, p, l) \in Nat
BY MinOfTwo, LenProperties DEF End

\* A page is what lies between.
Cut(t, s, T, lo, hi) ==
  /\ t \in Seq(T) /\ Len(t) = IF lo < hi THEN hi - lo ELSE 0
  /\ \A i \in 1..hi - lo : t[i] = s[lo + i]

LEMMA SliceIs ==
    ASSUME NEW T, NEW s \in Seq(T), NEW p \in Nat \ {0}, NEW l \in Nat \ {0}
    PROVE  Cut(Slice(s, p, l), s, T, (p - 1) * l, End(s, p, l))
<1> DEFINE lo == (p - 1) * l
           hi == Min({p * l, Len(s)})
<1>1. lo \in Nat /\ p * l \in Nat /\ Len(s) \in Nat
    BY PageNumbers, LenProperties
<1>2. hi \in Nat /\ hi <= Len(s)
    BY <1>1, MinOfTwo
<1>3. Slice(s, p, l) = SubSeq(s, lo + 1, hi)
    BY DEF Slice
<1> HIDE DEF lo, hi
<1>4. \A i \in (lo + 1)..hi : s[i] \in T
    BY <1>1, <1>2, ElementOfSeq
<1>5. /\ SubSeq(s, lo + 1, hi) \in Seq(T)
      /\ Len(SubSeq(s, lo + 1, hi)) = IF lo + 1 <= hi THEN hi - (lo + 1) + 1 ELSE 0
      /\ \A i \in 1..hi - (lo + 1) + 1 : SubSeq(s, lo + 1, hi)[i] = s[(lo + 1) + i - 1]
    BY <1>1, <1>2, <1>4, SubSeqProperties
<1>6. hi - (lo + 1) + 1 = hi - lo /\ (lo + 1 <= hi <=> lo < hi)
    BY <1>1, <1>2
<1>7. \A i \in 1..hi - lo : (lo + 1) + i - 1 = lo + i
    BY <1>1, <1>2
<1>8. /\ Slice(s, p, l) \in Seq(T)
      /\ Len(Slice(s, p, l)) = IF lo < hi THEN hi - lo ELSE 0
      /\ \A i \in 1..hi - lo : Slice(s, p, l)[i] = s[lo + i]
    BY <1>3, <1>5, <1>6, <1>7
<1>9. lo = (p - 1) * l /\ hi = End(s, p, l)
    BY DEF lo, hi, End
<1>10. Cut(Slice(s, p, l), s, T, lo, hi)
    BY <1>8 DEF Cut
<1> QED BY <1>9, <1>10

\* Whoever is at a place of the page is on it, and is in the sequence.
LEMMA SliceHas ==
    ASSUME NEW T, NEW s \in Seq(T), NEW p \in Nat \ {0}, NEW l \in Nat \ {0}
    PROVE  /\ ToSet(Slice(s, p, l)) \subseteq ToSet(s)
           /\ \A k \in 1..Len(s) : (p - 1) * l < k /\ k <= p * l => s[k] \in ToSet(Slice(s, p, l))
<1> DEFINE t == Slice(s, p, l)
           lo == (p - 1) * l
           hi == End(s, p, l)
<1>3. Cut(t, s, T, lo, hi)
    BY SliceIs
<1>1. lo \in Nat /\ p * l \in Nat /\ Len(s) \in Nat
    BY PageNumbers, LenProperties
<1>2. hi \in Nat /\ hi <= Len(s) /\ \A k \in 1..Len(s) : k <= p * l => k <= hi
    <2>1. hi = (IF p * l <= Len(s) THEN p * l ELSE Len(s))
        <3>1. p \in Nat /\ l \in Nat
            OBVIOUS
        <3> QED BY <3>1, EndIs
    <2> DEFINE q == p * l
               n == Len(s)
    <2>2. q \in Nat /\ n \in Nat /\ hi = (IF q <= n THEN q ELSE n)
        BY <1>1, <2>1
    <2> HIDE DEF q, n, hi
    <2>3. hi \in Nat /\ hi <= n /\ \A k \in 1..n : k <= q => k <= hi
        BY <2>2
    <2> QED BY <2>3 DEF q, n
<1>4. DOMAIN t = 1..Len(t) /\ DOMAIN s = 1..Len(s)
    BY <1>3 DEF Cut
<1> HIDE DEF t, lo, hi
<1>5. ASSUME NEW i \in DOMAIN t PROVE t[i] \in ToSet(s)
    <2>1. i \in 1..hi - lo /\ lo + i \in DOMAIN s
        BY <1>1, <1>2, <1>3, <1>4 DEF Cut
    <2> QED BY <2>1, <1>3 DEF ToSet, Cut
<1>6. ASSUME NEW k \in 1..Len(s), lo < k, k <= p * l PROVE s[k] \in ToSet(t)
    <2>1. k - lo \in 1..hi - lo /\ lo + (k - lo) = k /\ k - lo \in DOMAIN t
        BY <1>1, <1>2, <1>3, <1>4, <1>6 DEF Cut
    <2>2. t[k - lo] = s[k]
        BY <1>3, <2>1 DEF Cut
    <2> QED BY <2>1, <2>2 DEF ToSet
<1> QED BY <1>5, <1>6 DEF ToSet, t, lo

\* Page after page gives the sequence from its start.
LEMMA PagesJoin ==
    ASSUME NEW T, NEW s \in Seq(T), NEW p \in Nat \ {0}, NEW l \in Nat \ {0}
    PROVE  SubSeq(s, 1, End(s, p - 1, l)) \o Slice(s, p, l) = SubSeq(s, 1, End(s, p, l))
<1> DEFINE lo == (p - 1) * l
           hi == p * l
           n == Len(s)
<1>1. lo \in Nat /\ hi \in Nat /\ n \in Nat /\ lo < hi
    BY PageNumbers, LenProperties
<1>2. Min({lo, n}) = (IF lo <= n THEN lo ELSE n) /\ Min({hi, n}) = (IF hi <= n THEN hi ELSE n)
    BY <1>1, MinOfTwo
<1>3. Slice(s, p, l) = SubSeq(s, lo + 1, Min({hi, n}))
    BY DEF Slice
<1> HIDE DEF lo, hi, n
<1>4. CASE lo <= n
    <2> DEFINE m == Min({hi, n})
    <2>1. 1 \in 1..n + 1 /\ lo \in (1 - 1)..n /\ m \in lo..n
        BY <1>1, <1>2, <1>4
    <2>2. SubSeq(s, 1, lo) \o SubSeq(s, lo + 1, m) = SubSeq(s, 1, m)
        <3> HIDE DEF m
        <3> QED BY <2>1, ConcatAdjacentSubSeq DEF n
    <2>3. Min({lo, n}) = lo
        BY <1>2, <1>4
    <2> QED BY <2>2, <2>3, <1>3 DEF lo, hi, n, End
<1>5. CASE ~(lo <= n)
    <2>1. Min({lo, n}) = n /\ Min({hi, n}) = n /\ n < lo + 1
        BY <1>1, <1>2, <1>5
    <2>2. SubSeq(s, lo + 1, n) = <<>>
        BY <1>1, <2>1, SubSeqEmpty
    <2>3. SubSeq(s, 1, n) = s /\ s \o <<>> = s
        BY SubSeqFull, ConcatEmptySeq DEF n
    <2> QED BY <2>1, <2>2, <2>3, <1>3 DEF lo, hi, n, End
<1> QED BY <1>4, <1>5

-------------------------------------------------------------------------------
(* Types, and what a reader holds at each place.                           *)

Listers == [op : {"listing"}, at : {"entries", "count", "done"},
            f : EntryListFilter, got : Seq(EntryIds)]
Rosterers == [op : {"users"}, at : {"users", "done"},
              f : UserListFilter, got : Seq(DOMAIN Accounts)]
EntryReaders == [op : {"entry"}, at : {"done"}, shown : SUBSET EntryIds]
CommentReaders == [op : {"comments"}, at : {"comments", "done"},
                   entry : EntryIds, told : SUBSET CommentIds]
ChangelogReaders == [op : {"changelog"}, at : {"releases", "done"},
                     left : SUBSET Releases, shown : SUBSET EntryIds]
SimilarReaders == [op : {"similar"}, at : {"model", "done"},
                   pool : SUBSET EntryIds, shown : SUBSET EntryIds]
Types == [NamedKinds \cup {"other"} -> Nat]
DashboardReaders == [op : {"dashboard"},
                     at : {"total", "internal", "closed", "types", "statuses", "done"},
                     total : Nat, internal : Nat, closed : Nat,
                     types : {<<>>} \cup Types, statuses : {<<>>} \cup [Statuses -> Nat]]
ReaderType == {Idle} \cup Listers \cup Rosterers \cup EntryReaders \cup CommentReaders
                \cup ChangelogReaders \cup SimilarReaders \cup DashboardReaders

Store(c) == /\ IsFiniteSet(DOMAIN c) /\ DOMAIN c # {} /\ DOMAIN c \subseteq EntryIds
            /\ c \in [DOMAIN c -> Entry]
CommentType == [CommentIds -> [entry : EntryIds, internal : BOOLEAN]]
Kinds == {"submitted", "published", "hidden", "closed", "voted", "comment"}
SinceType(s) == /\ DOMAIN s = {"entries", "comments", "whole", "writes"}
                /\ s.entries \in SUBSET EntryIds /\ s.comments \in SUBSET CommentIds
                /\ s.writes \in SUBSET Kinds

(* A walk has come to a page after the first one, and whoever walks in the *)
(* Portal sees what is public only.                                        *)
Fits(r) == /\ r.op \in {"listing", "users"} => r.f.page \in Nat
           /\ r.op = "listing" => (r.f.publicOnly => r.f.include = Empty)
           /\ r.op = "dashboard" =>
                /\ r.at \in {"statuses", "done"} => r.types \in Types
                /\ r.at = "done" => r.statuses \in [Statuses -> Nat]

TypeInv == /\ Store(entries)
           /\ comments \in CommentType
           /\ reader \in ReaderType
           /\ SinceType(since)
           /\ writes \in 0..MaxWrites
           /\ Fits(reader)

LEMMA EntriesSort ==
    ASSUME NEW c, Store(c), NEW ids, ids \subseteq DOMAIN c
    PROVE  Sortable(c, ids) /\ ids \subseteq EntryIds
BY FS_Subset, ConstantsAssumption DEF Sortable, Store, Entry

LEMMA ListingTyped ==
    ASSUME NEW c, Store(c), NEW f
    PROVE  /\ Found(c, f) \subseteq DOMAIN c /\ Sortable(c, Found(c, f))
           /\ IsFiniteSet(Found(c, f)) /\ CountEntries(c, f) \in Nat
           /\ Listing(c, f) \in Seq(EntryIds) /\ ToSet(Listing(c, f)) = Found(c, f)
           /\ Len(Listing(c, f)) = CountEntries(c, f)
<1>1. Found(c, f) \subseteq DOMAIN c
    BY DEF Found
<1>2. Sortable(c, Found(c, f)) /\ Found(c, f) \subseteq EntryIds
    BY <1>1, EntriesSort
<1>3. IsFiniteSet(Found(c, f)) /\ CountEntries(c, f) \in Nat
    BY <1>2, FS_CardinalityType DEF Sortable, CountEntries
<1>4. /\ Listing(c, f) \in Seq(Found(c, f)) /\ ToSet(Listing(c, f)) = Found(c, f)
      /\ Len(Listing(c, f)) = CountEntries(c, f)
    BY <1>2, SortedHas DEF Listing, CountEntries
<1>5. Listing(c, f) \in Seq(EntryIds)
    BY <1>2, <1>4, SeqMonotonic
<1> QED BY <1>1, <1>2, <1>3, <1>4, <1>5

LEMMA ListEntriesTyped ==
    ASSUME NEW c, Store(c), NEW f, f.limit \in Int, f.page \in Nat
    PROVE  /\ ListEntries(c, f) \in Seq(EntryIds)
           /\ ToSet(ListEntries(c, f)) \subseteq Found(c, f)
<1>1. LimitOf(f) \in Nat \ {0} /\ PageOf(f) \in Nat \ {0}
    BY LimitsHold
<1>2. Listing(c, f) \in Seq(EntryIds) /\ ToSet(Listing(c, f)) = Found(c, f)
    BY ListingTyped
<1>3. Slice(Listing(c, f), PageOf(f), LimitOf(f)) \in Seq(EntryIds)
    BY <1>1, <1>2, SliceIs DEF Cut
<1>4. ToSet(Slice(Listing(c, f), PageOf(f), LimitOf(f))) \subseteq Found(c, f)
    BY <1>1, <1>2, SliceHas
<1> QED BY <1>3, <1>4 DEF ListEntries

\* The other queries of the Portal give what is public.
LEMMA PortalQueries ==
    ASSUME NEW c, Store(c)
    PROVE  /\ \A r : ToSet(ListEntriesByReleaseID(c, r, TRUE)) \subseteq PublicEntries(c)
           /\ Candidates(c) = PublicEntries(c)
           /\ PublicEntries(c) \subseteq EntryIds
<1>1. ASSUME NEW r PROVE ToSet(ListEntriesByReleaseID(c, r, TRUE)) \subseteq PublicEntries(c)
    <2> DEFINE S == {i \in DOMAIN c : c[i].release = r /\ (TRUE => ~c[i].internal)}
    <2>1. Sortable(c, S)
        BY EntriesSort
    <2>2. ToSet(Sorted(c, S, "new")) = S
        <3> HIDE DEF S
        <3> QED BY <2>1, SortedHas
    <2> QED BY <2>2 DEF ListEntriesByReleaseID, PublicEntries
<1>2. Candidates(c) = PublicEntries(c)
    <2> DEFINE S == {i \in DOMAIN c : TRUE => ~c[i].internal}
    <2>1. Sortable(c, S)
        BY EntriesSort
    <2>2. ToSet(Sorted(c, S, "new")) = S
        <3> HIDE DEF S
        <3> QED BY <2>1, SortedHas
    <2> QED BY <2>2 DEF Candidates, ListEntriesForSimilarity, PublicEntries
<1>3. PublicEntries(c) \subseteq EntryIds
    BY DEF PublicEntries, Store
<1> QED BY <1>1, <1>2, <1>3

LEMMA CommentsPublic ==
    ASSUME comments \in CommentType, NEW id
    PROVE  ToSet(ListCommentsByEntryID(comments, id, FALSE))
             = {m \in CommentIds : comments[m].entry = id /\ ~comments[m].internal}
<1>1. DOMAIN comments = CommentIds /\ IsFiniteSet(CommentIds) /\ CommentIds \subseteq Int
    BY ConstantsAssumption DEF CommentType
<1>2. ToSet(ListCommentsByEntryID(comments, id, FALSE)) = Told(comments, id, FALSE)
    BY <1>1, CommentsListed
<1> QED BY <1>1, <1>2 DEF Told

LEMMA FiguresTyped ==
    ASSUME NEW c, Store(c)
    PROVE  /\ Cardinality(DOMAIN c) \in Nat /\ CountInternal(c) \in Nat /\ CountClosed(c) \in Nat
           /\ GroupByType(c) \in Types /\ GroupByStatus(c) \in [Statuses -> Nat]
<1>1. \A S \in SUBSET DOMAIN c : IsFiniteSet(S) /\ Cardinality(S) \in Nat
    BY FS_Subset, FS_CardinalityType DEF Store
<1>2. Cardinality(DOMAIN c) \in Nat /\ CountInternal(c) \in Nat /\ CountClosed(c) \in Nat
    BY <1>1 DEF CountInternal, CountClosed
<1>3. GroupByType(c) \in Types
    <2>1. \A b : Cardinality({i \in DOMAIN c : KindBucket(c[i].kind) = b}) \in Nat
        BY <1>1
    <2> QED BY <2>1 DEF GroupByType, ByKind, Types
<1>4. GroupByStatus(c) \in [Statuses -> Nat]
    <2>1. \A s : Cardinality({i \in DOMAIN c : StatusBucket(c[i].status) = s}) \in Nat
        BY <1>1
    <2> QED BY <2>1 DEF GroupByStatus
<1> QED BY <1>2, <1>3, <1>4

\* What a step of reading, or a write, has to see to.
LEMMA AskTyped ==
    ASSUME TypeInv, NEW r, NEW whole, Ask(r, whole), r \in ReaderType, Fits(r)
    PROVE  TypeInv'
<1>1. /\ reader' = r /\ UNCHANGED <<entries, comments, writes>>
      /\ since' = [entries |-> PublicEntries(entries), comments |-> PublicComments(comments),
                   whole |-> whole, writes |-> {}]
    BY DEF Ask
<1>2. PublicEntries(entries) \subseteq EntryIds
    BY DEF PublicEntries, TypeInv, Store
<1>3. PublicComments(comments) \subseteq CommentIds
    BY DEF PublicComments, TypeInv, CommentType
<1>4. SinceType(since')
    BY <1>1, <1>2, <1>3 DEF SinceType
<1>5. Store(entries') /\ comments' \in CommentType /\ writes' \in 0..MaxWrites
    BY <1>1 DEF TypeInv
<1>6. reader' \in ReaderType /\ Fits(reader')
    BY <1>1
<1> QED BY <1>4, <1>5, <1>6 DEF TypeInv, CommentType, SinceType, Store, Fits, ReaderType

LEMMA ContinueTyped ==
    ASSUME TypeInv, NEW r, Continue(r), r \in ReaderType, Fits(r)
    PROVE  TypeInv'
<1>1. reader' = r /\ UNCHANGED <<entries, comments, since, writes>>
    BY DEF Continue
<1> QED BY <1>1 DEF TypeInv, CommentType, SinceType, Store, Fits, ReaderType

LEMMA WrittenTyped ==
    ASSUME TypeInv, NEW kind \in Kinds, NEW readers, Written(kind, readers),
           Store(entries'), comments' \in CommentType
    PROVE  TypeInv'
<1>1. /\ writes < MaxWrites /\ writes' = writes + 1 /\ reader' = reader
      /\ since' = [since EXCEPT !.entries = @ \cup PublicEntries(entries'),
                                !.comments = @ \cup PublicComments(comments'),
                                !.writes = @ \cup {kind}]
    BY DEF Written
<1>2. PublicEntries(entries') \subseteq EntryIds
    BY DEF PublicEntries, Store
<1>3. PublicComments(comments') \subseteq CommentIds
    BY DEF PublicComments, CommentType
<1>4. SinceType(since')
    BY <1>1, <1>2, <1>3 DEF SinceType, TypeInv
<1>5. writes' \in 0..MaxWrites
    BY <1>1, ConstantsAssumption DEF TypeInv
<1>6. reader' \in ReaderType /\ Fits(reader')
    BY <1>1 DEF TypeInv
<1> QED BY <1>4, <1>5, <1>6 DEF TypeInv, CommentType, SinceType, Store, Fits, ReaderType

\* Who holds what.
LEMMA WhoReads ==
    ASSUME reader \in ReaderType
    PROVE  /\ reader.op = "listing" => reader \in Listers
           /\ reader.op = "users" => reader \in Rosterers
           /\ reader.op = "entry" => reader \in EntryReaders
           /\ reader.op = "comments" => reader \in CommentReaders
           /\ reader.op = "changelog" => reader \in ChangelogReaders
           /\ reader.op = "similar" => reader \in SimilarReaders
           /\ reader.op = "dashboard" => reader \in DashboardReaders
           /\ reader.op = "idle" => reader = Idle
BY DEF ReaderType, Listers, Rosterers, EntryReaders, CommentReaders, ChangelogReaders,
       SimilarReaders, DashboardReaders, Idle

-------------------------------------------------------------------------------
(* The rows of the user list: those that match, in the order of their      *)
(* insertion, and then sorted by their keys.                               *)

Matching(f) == {u \in DOMAIN Accounts : UserMatches(Accounts[u], f)}
Before(c, f, u, v) == IF Descending(f) THEN SortKey(c, v, f.sort) < SortKey(c, u, f.sort)
                                       ELSE SortKey(c, u, f.sort) < SortKey(c, v, f.sort)
RowOrder(c, f, s) ==
  {p \in (1..Len(s)) \X (1..Len(s)) :
     \/ Before(c, f, s[p[1]], s[p[2]])
     \/ ~Before(c, f, s[p[2]], s[p[1]]) /\ p[1] < p[2]}

LEMMA AllUsers ==
    ASSUME NEW f
    PROVE  /\ ListAllUsers(f) \in Seq(Matching(f)) /\ ToSet(ListAllUsers(f)) = Matching(f)
           /\ ListAllUsers(f) = InOrder(Matching(f), Older)
           /\ Matching(f) \subseteq DOMAIN Accounts
<1> DEFINE S == Matching(f)
           R == AgeOrder(S)
           n == Cardinality(S)
           l == ListAllUsers(f)
<1>1. S \subseteq DOMAIN Accounts /\ IsFiniteSet(S)
    BY ConstantsAssumption, FS_Subset DEF Matching
<1>2. \A u, v \in S : /\ Accounts[u].created \in Int
                      /\ Accounts[u].created = Accounts[v].created => u = v
    BY <1>1, ConstantsAssumption
<1>3. l = InOrder(S, Older)
    BY DEF ListAllUsers, Matching
<1> HIDE DEF S
<1>4. Orders(R, S)
    BY <1>2 DEF Orders, AgeOrder, Older
<1>5. PICK s : Ordered(s, S, R)
    BY <1>1, <1>4, SortExists
<1>6. s \in [1..n -> S] /\ \A i, j \in 1..n : i < j => Older(s[i], s[j])
    BY <1>5 DEF Ordered, AgeOrder
<1>7. l = CHOOSE t \in [1..n -> S] : \A i, j \in 1..n : i < j => Older(t[i], t[j])
    BY <1>3 DEF InOrder
<1> HIDE DEF l, n
<1>8. l \in [1..n -> S] /\ \A i, j \in 1..n : i < j => Older(l[i], l[j])
    BY <1>6, <1>7
<1>9. Ordered(l, S, R)
    BY <1>8 DEF Ordered, AgeOrder, n
<1>10. l \in Seq(S) /\ ToSet(l) = S
    BY <1>1, <1>4, <1>9, OrderedIsASeq
<1> QED BY <1>1, <1>3, <1>10 DEF l, S

LEMMA KeysAreNumbers ==
    ASSUME NEW c, Store(c), NEW u \in DOMAIN Accounts, NEW sort
    PROVE  SortKey(c, u, sort) \in Int
<1>1. Accounts[u].created \in Int
    BY ConstantsAssumption
<1>2. Cardinality({i \in DOMAIN c : c[i].user = u /\ KindBucket(c[i].kind) \in CountColumn(sort)}) \in Nat
    BY FS_Subset, FS_CardinalityType DEF Store
<1> QED BY <1>1, <1>2 DEF SortKey

\* The stable sort finds an order, the only one there is.
LEMMA RowsAreOrdered ==
    ASSUME NEW c, Store(c), NEW f, NEW s, s = ListAllUsers(f)
    PROVE  /\ Orders(RowOrder(c, f, s), 1..Len(s))
           /\ \E o : Ordered(o, 1..Len(s), RowOrder(c, f, s))
                       /\ UserRows(c, f) = [k \in DOMAIN s |-> s[o[k]]]
<1> DEFINE n == Len(s)
           S == 1..n
           R == RowOrder(c, f, s)
           key == [i \in S |-> SortKey(c, s[i], f.sort)]
           Ahead(i, j) == \/ Before(c, f, s[i], s[j])
                          \/ ~Before(c, f, s[j], s[i]) /\ i < j
<1>1. n \in Nat /\ DOMAIN s = S /\ \A i \in S : s[i] \in DOMAIN Accounts
    BY AllUsers, LenProperties, ElementOfSeq
<1>2. IsFiniteSet(S) /\ Cardinality(S) = n
    BY <1>1, FS_Interval
<1>3. \A i \in S : key[i] \in Int /\ key[i] = SortKey(c, s[i], f.sort)
    BY <1>1, KeysAreNumbers
<1>4. \A i, j \in S : <<i, j>> \in R <=> Ahead(i, j)
    BY DEF RowOrder
<1> HIDE DEF key
<1>5. \A i, j \in S : Before(c, f, s[i], s[j])
                        <=> IF Descending(f) THEN key[j] < key[i] ELSE key[i] < key[j]
    BY <1>3 DEF Before
<1>6. Orders(R, S)
    <2>1. \A i, j \in S : <<i, j>> \in R
             <=> \/ IF Descending(f) THEN key[j] < key[i] ELSE key[i] < key[j]
                 \/ key[i] = key[j] /\ i < j
        <3> HIDE DEF R
        <3>1. TAKE i, j \in S
        <3>2. i \in Int /\ j \in Int /\ key[i] \in Int /\ key[j] \in Int
            BY <1>1, <1>3
        <3> QED BY <3>2, <1>4, <1>5
    <2> HIDE DEF R
    <2>2. \A i \in S : i \in Int /\ key[i] \in Int
        BY <1>1, <1>3
    <2> HIDE DEF S
    <2>3. \A x \in S : <<x, x>> \notin R
        BY <2>1, <2>2
    <2>4. \A x, y \in S : x # y => <<x, y>> \in R \/ <<y, x>> \in R
        BY <2>1, <2>2
    <2>5. \A x, y, z \in S : <<x, y>> \in R /\ <<y, z>> \in R => <<x, z>> \in R
        BY <2>1, <2>2
    <2> QED BY <2>3, <2>4, <2>5 DEF Orders
<1>7. PICK t : Ordered(t, S, R)
    <2> HIDE DEF S, R
    <2> QED BY <1>2, <1>6, SortExists
<1> DEFINE o == CHOOSE q \in [1..Cardinality(DOMAIN s) -> DOMAIN s] :
                  \A a, b \in 1..Cardinality(DOMAIN s) : a < b => Ahead(q[a], q[b])
<1>8. o = CHOOSE q \in [1..n -> S] : \A a, b \in 1..n : a < b => Ahead(q[a], q[b])
    BY <1>1, <1>2
<1>9. t \in [1..n -> S] /\ \A a, b \in 1..n : a < b => Ahead(t[a], t[b])
    <2>1. t \in [1..n -> S] /\ \A a, b \in 1..n : a < b => <<t[a], t[b]>> \in R
        BY <1>7, <1>2 DEF Ordered
    <2> QED BY <2>1, <1>4
<1>10. o \in [1..n -> S] /\ \A a, b \in 1..n : a < b => Ahead(o[a], o[b])
    <2> HIDE DEF o, S, n
    <2> QED BY <1>8, <1>9
<1>11. Ordered(o, S, R)
    <2> HIDE DEF o
    <2>1. \A a, b \in 1..n : a < b => <<o[a], o[b]>> \in R
        BY <1>4, <1>10
    <2> QED BY <1>2, <1>10, <2>1 DEF Ordered
<1>12. UserRows(c, f) = [k \in DOMAIN s |-> s[o[k]]]
    BY DEF UserRows, StableSort, InOrder, Before
<1> HIDE DEF o
<1> QED BY <1>6, <1>11, <1>12

LEMMA RowsTyped ==
    ASSUME NEW c, Store(c), NEW f
    PROVE  UserRows(c, f) \in Seq(DOMAIN Accounts)
<1> DEFINE s == ListAllUsers(f)
           n == Len(s)
           R == RowOrder(c, f, s)
<1>1. n \in Nat /\ DOMAIN s = 1..n /\ \A i \in 1..n : s[i] \in DOMAIN Accounts
    BY AllUsers, LenProperties, ElementOfSeq
<1>2. PICK o : Ordered(o, 1..n, R) /\ UserRows(c, f) = [k \in DOMAIN s |-> s[o[k]]]
    BY RowsAreOrdered
<1>3. Cardinality(1..n) = n
    BY <1>1, FS_Interval
<1>4. o \in [1..n -> 1..n]
    BY <1>2, <1>3 DEF Ordered
<1> HIDE DEF s, n
<1>5. \A k \in 1..n : s[o[k]] \in DOMAIN Accounts
    BY <1>1, <1>4
<1>6. UserRows(c, f) \in [1..n -> DOMAIN Accounts]
    BY <1>1, <1>2, <1>5
<1> QED BY <1>1, <1>6

\* The rows hang on the filter, its page aside, and on the keys.
SameFilter(f, g) == /\ f.search = g.search /\ f.role = g.role /\ f.status = g.status
                    /\ f.sort = g.sort /\ f.direction = g.direction

LEMMA RowsKept ==
    ASSUME NEW c, Store(c), NEW d, Store(d), NEW f, NEW g, SameFilter(f, g),
           \A u \in DOMAIN Accounts : SortKey(c, u, f.sort) = SortKey(d, u, f.sort)
    PROVE  UserRows(c, f) = UserRows(d, g)
<1> DEFINE s == ListAllUsers(f)
           n == Len(s)
<1>1. n \in Nat /\ DOMAIN s = 1..n /\ \A i \in 1..n : s[i] \in DOMAIN Accounts
    BY AllUsers, LenProperties, ElementOfSeq
<1>2. ListAllUsers(g) = s
    <2>1. Matching(f) = Matching(g)
        BY DEF Matching, UserMatches, SameFilter
    <2>2. s = InOrder(Matching(f), Older) /\ ListAllUsers(g) = InOrder(Matching(g), Older)
        BY AllUsers
    <2> QED BY <2>1, <2>2
<1>3. PICK o : Ordered(o, 1..n, RowOrder(c, f, s)) /\ UserRows(c, f) = [k \in DOMAIN s |-> s[o[k]]]
    BY RowsAreOrdered
<1>4. PICK q : Ordered(q, 1..n, RowOrder(d, g, s)) /\ UserRows(d, g) = [k \in DOMAIN s |-> s[q[k]]]
    BY <1>2, RowsAreOrdered
<1>5. Orders(RowOrder(c, f, s), 1..n)
    BY RowsAreOrdered
<1> HIDE DEF s, n
<1>6. RowOrder(c, f, s) = RowOrder(d, g, s)
    <2>1. Descending(f) = Descending(g)
        BY DEF Descending, SameFilter
    <2>2. \A i, j \in 1..n : Before(c, f, s[i], s[j]) = Before(d, g, s[i], s[j])
        <3>1. TAKE i, j \in 1..n
        <3>2. /\ SortKey(c, s[i], f.sort) = SortKey(d, s[i], g.sort)
              /\ SortKey(c, s[j], f.sort) = SortKey(d, s[j], g.sort)
            BY <1>1 DEF SameFilter
        <3> QED BY <2>1, <3>2 DEF Before
    <2> QED BY <2>2 DEF RowOrder, n
<1>7. IsFiniteSet(1..n)
    BY <1>1, FS_Interval
<1>8. o = q
    BY <1>3, <1>4, <1>5, <1>6, <1>7, SortUnique
<1> QED BY <1>3, <1>4, <1>8

\* The filter of another page.
LEMMA EntryPageTurned ==
    ASSUME NEW f \in EntryListFilter, NEW n \in Nat
    PROVE  /\ [f EXCEPT !.page = n] \in EntryListFilter /\ [f EXCEPT !.page = n].page = n
           /\ [f EXCEPT !.page = n].publicOnly = f.publicOnly
           /\ [f EXCEPT !.page = n].include = f.include
           /\ [f EXCEPT !.page = n].limit = f.limit /\ [f EXCEPT !.page = n].sort = f.sort
BY DEF EntryListFilter
LEMMA UserPageTurned ==
    ASSUME NEW f \in UserListFilter, NEW n \in Nat
    PROVE  /\ [f EXCEPT !.page = n] \in UserListFilter /\ [f EXCEPT !.page = n].page = n
           /\ SameFilter(f, [f EXCEPT !.page = n]) /\ [f EXCEPT !.page = n].limit = f.limit
BY DEF UserListFilter, SameFilter

\* Who starts to walk, and who goes on.
LEMMA ListingRead ==
    ASSUME TypeInv, AskListing \/ ReadPage \/ CountPage
    PROVE  TypeInv'
<1>1. CASE AskListing
    <2>1. PICK f \in Walks :
            Ask([op |-> "listing", at |-> "entries", f |-> f, got |-> <<>>], Listing(entries, f))
        BY <1>1 DEF AskListing
    <2> DEFINE r == [op |-> "listing", at |-> "entries", f |-> f, got |-> <<>>]
    <2>2. f \in EntryListFilter /\ f.page \in Nat /\ (f.publicOnly => f.include = Empty)
        BY ConstantsAssumption
    <2>3. r \in Listers /\ Fits(r)
        BY <2>2 DEF Listers, Fits
    <2> HIDE DEF r
    <2> QED BY <2>1, <2>3, AskTyped DEF r, ReaderType
<1>2. CASE ReadPage
    <2> DEFINE r == [reader EXCEPT !.at = "count", !.got = @ \o ListEntries(entries, reader.f)]
    <2>1. reader \in Listers /\ Continue(r) /\ Fits(reader) /\ reader.f \in EntryListFilter
          /\ reader.op = "listing" /\ reader.got \in Seq(EntryIds)
        BY <1>2, WhoReads DEF ReadPage, TypeInv, Listers
    <2>2. ListEntries(entries, reader.f) \in Seq(EntryIds)
        <3>1. reader.f.limit \in Int /\ reader.f.page \in Nat
            BY <2>1 DEF Fits, EntryListFilter
        <3> QED BY <3>1, ListEntriesTyped DEF TypeInv
    <2>3. reader.got \o ListEntries(entries, reader.f) \in Seq(EntryIds)
        BY <2>1, <2>2, ConcatProperties
    <2>4. r \in Listers /\ Fits(r)
        BY <2>1, <2>3 DEF Listers, Fits
    <2> HIDE DEF r
    <2> QED BY <2>1, <2>4, ContinueTyped DEF ReaderType
<1>3. CASE CountPage
    <2> DEFINE r == [reader EXCEPT !.at = "entries", !.f.page = PageOf(reader.f) + 1]
               q == [reader EXCEPT !.at = "done"]
    <2>1. reader \in Listers /\ Fits(reader) /\ reader.f \in EntryListFilter /\ reader.op = "listing"
          /\ (Continue(r) \/ Continue(q))
        BY <1>3, WhoReads DEF CountPage, TypeInv, Listers
    <2>2. PageOf(reader.f) + 1 \in Nat
        <3>1. reader.f.limit \in Int /\ reader.f.page \in Nat
            BY <2>1 DEF Fits, EntryListFilter
        <3> QED BY <3>1, LimitsHold
    <2>3. r \in Listers /\ Fits(r)
        <3> DEFINE g == [reader.f EXCEPT !.page = PageOf(reader.f) + 1]
        <3>1. g \in EntryListFilter /\ g.page \in Nat
              /\ g.publicOnly = reader.f.publicOnly /\ g.include = reader.f.include
            BY <2>1, <2>2, EntryPageTurned
        <3>2. r = [reader EXCEPT !.at = "entries", !.f = g]
            BY <2>1 DEF Listers, EntryListFilter
        <3> HIDE DEF g, r
        <3> QED BY <2>1, <3>1, <3>2 DEF Listers, Fits
    <2>4. q \in Listers /\ Fits(q)
        BY <2>1 DEF Listers, Fits
    <2> HIDE DEF r, q
    <2> QED BY <2>1, <2>3, <2>4, ContinueTyped DEF ReaderType
<1> QED BY <1>1, <1>2, <1>3

LEMMA UsersRead ==
    ASSUME TypeInv, AskUsers \/ ReadUsers
    PROVE  TypeInv'
<1>1. CASE AskUsers
    <2>1. PICK f \in Rosters :
            Ask([op |-> "users", at |-> "users", f |-> f, got |-> <<>>], UserRows(entries, f))
        BY <1>1 DEF AskUsers
    <2> DEFINE r == [op |-> "users", at |-> "users", f |-> f, got |-> <<>>]
    <2>2. f \in UserListFilter /\ f.page \in Nat
        BY ConstantsAssumption
    <2>3. r \in Rosterers /\ Fits(r)
        BY <2>2 DEF Rosterers, Fits
    <2> HIDE DEF r
    <2> QED BY <2>1, <2>3, AskTyped DEF r, ReaderType
<1>2. CASE ReadUsers
    <2> DEFINE rows == UserRows(entries, reader.f)
               page == PageOf(reader.f)
               end == Min({page * LimitOf(reader.f), Len(rows)})
               r == [reader EXCEPT !.got = @ \o Slice(rows, page, LimitOf(reader.f)),
                                   !.at = IF end < Len(rows) THEN "users" ELSE "done",
                                   !.f.page = page + 1]
    <2>1. reader.op = "users" /\ Continue(r)
        BY <1>2 DEF ReadUsers
    <2>2. reader \in Rosterers /\ Fits(reader) /\ reader.f \in UserListFilter
          /\ reader.got \in Seq(DOMAIN Accounts)
        BY <2>1, WhoReads DEF TypeInv, Rosterers
    <2>3. LimitOf(reader.f) \in Nat \ {0} /\ page \in Nat \ {0}
        <3>1. reader.f.limit \in Int /\ reader.f.page \in Nat
            BY <2>1, <2>2 DEF Fits, UserListFilter
        <3> QED BY <3>1, LimitsHold
    <2>4. rows \in Seq(DOMAIN Accounts)
        BY RowsTyped DEF TypeInv
    <2>5. Slice(rows, page, LimitOf(reader.f)) \in Seq(DOMAIN Accounts)
        <3> HIDE DEF rows, page
        <3> QED BY <2>3, <2>4, SliceIs DEF Cut
    <2>6. reader.got \o Slice(rows, page, LimitOf(reader.f)) \in Seq(DOMAIN Accounts)
        BY <2>2, <2>5, ConcatProperties
    <2> HIDE DEF rows, page, end
    <2>7. r \in Rosterers /\ Fits(r)
        <3> DEFINE g == [reader.f EXCEPT !.page = page + 1]
                   b == reader.got \o Slice(rows, page, LimitOf(reader.f))
                   a == IF end < Len(rows) THEN "users" ELSE "done"
        <3>1. g \in UserListFilter /\ g.page \in Nat
            BY <2>2, <2>3, UserPageTurned
        <3>2. r = [reader EXCEPT !.got = b, !.at = a, !.f = g]
            BY <2>2 DEF Rosterers, UserListFilter
        <3>3. a \in {"users", "done"} /\ b \in Seq(DOMAIN Accounts)
            BY <2>6
        <3> HIDE DEF g, r, a, b
        <3> QED BY <2>1, <2>2, <3>1, <3>2, <3>3 DEF Rosterers, Fits
    <2> HIDE DEF r
    <2> QED BY <2>1, <2>7, ContinueTyped DEF ReaderType
<1> QED BY <1>1, <1>2

LEMMA OthersRead ==
    ASSUME TypeInv,
           AskEntry \/ AskComments \/ ReadComments \/ AskChangelog \/ AskRelease \/ ReadRelease
             \/ AskSimilar \/ AnswerSimilar
    PROVE  TypeInv'
<1>1. CASE AskEntry
    <2>1. PICK i \in DOMAIN entries :
            Ask([op |-> "entry", at |-> "done",
                 shown |-> IF entries[i].internal THEN {} ELSE {i}], <<>>)
        BY <1>1 DEF AskEntry
    <2> DEFINE r == [op |-> "entry", at |-> "done",
                     shown |-> IF entries[i].internal THEN {} ELSE {i}]
    <2>2. i \in EntryIds
        BY DEF TypeInv, Store
    <2>3. r \in EntryReaders /\ Fits(r)
        BY <2>2 DEF EntryReaders, Fits
    <2> HIDE DEF r
    <2> QED BY <2>1, <2>3, AskTyped DEF r, ReaderType
<1>2. CASE AskComments
    <2>1. PICK i \in DOMAIN entries :
            Ask([op |-> "comments", at |-> IF entries[i].internal THEN "done" ELSE "comments",
                 entry |-> i, told |-> {}], <<>>)
        BY <1>2 DEF AskComments
    <2> DEFINE r == [op |-> "comments", at |-> IF entries[i].internal THEN "done" ELSE "comments",
                     entry |-> i, told |-> {}]
    <2>2. i \in EntryIds
        BY DEF TypeInv, Store
    <2>3. r \in CommentReaders /\ Fits(r)
        BY <2>2 DEF CommentReaders, Fits
    <2> HIDE DEF r
    <2> QED BY <2>1, <2>3, AskTyped DEF r, ReaderType
<1>3. CASE ReadComments
    <2> DEFINE t == ToSet(ListCommentsByEntryID(comments, reader.entry, FALSE))
               r == [reader EXCEPT !.at = "done", !.told = t]
    <2>1. reader \in CommentReaders /\ reader.op = "comments" /\ Continue(r)
        BY <1>3, WhoReads DEF ReadComments, TypeInv
    <2>2. t \subseteq CommentIds
        BY CommentsPublic DEF TypeInv
    <2> HIDE DEF t
    <2>3. r \in CommentReaders /\ Fits(r)
        BY <2>1, <2>2 DEF CommentReaders, Fits
    <2> HIDE DEF r
    <2> QED BY <2>1, <2>3, ContinueTyped DEF ReaderType
<1>4. CASE AskChangelog \/ AskRelease
    <2>1. PICK R \in SUBSET Releases :
            Ask([op |-> "changelog", at |-> "releases", left |-> R, shown |-> {}], <<>>)
        BY <1>4 DEF AskChangelog, AskRelease
    <2> DEFINE r == [op |-> "changelog", at |-> "releases", left |-> R, shown |-> {}]
    <2>2. r \in ChangelogReaders /\ Fits(r)
        BY DEF ChangelogReaders, Fits
    <2> HIDE DEF r
    <2> QED BY <2>1, <2>2, AskTyped DEF r, ReaderType
<1>5. CASE ReadRelease
    <2>1. PICK l \in reader.left :
            Continue([reader EXCEPT !.left = @ \ {l},
                                    !.at = IF reader.left = {l} THEN "done" ELSE @,
                                    !.shown = @ \cup ToSet(ListEntriesByReleaseID(entries, l, TRUE))])
        BY <1>5 DEF ReadRelease
    <2> DEFINE t == ToSet(ListEntriesByReleaseID(entries, l, TRUE))
               r == [reader EXCEPT !.left = @ \ {l},
                                   !.at = IF reader.left = {l} THEN "done" ELSE @,
                                   !.shown = @ \cup t]
    <2>2. reader \in ChangelogReaders /\ reader.op = "changelog"
        BY <1>5, WhoReads DEF ReadRelease, TypeInv
    <2>3. t \subseteq EntryIds
        BY PortalQueries DEF TypeInv
    <2>4. Continue(r)
        BY <2>1
    <2> HIDE DEF t
    <2>5. r \in ChangelogReaders /\ Fits(r)
        BY <2>2, <2>3 DEF ChangelogReaders, Fits
    <2> HIDE DEF r
    <2> QED BY <2>4, <2>5, ContinueTyped DEF ReaderType
<1>6. CASE AskSimilar
    <2> DEFINE P == Candidates(entries)
               r == [op |-> "similar", at |-> IF P = {} THEN "done" ELSE "model",
                     pool |-> P, shown |-> {}]
    <2>1. Ask(r, <<>>)
        BY <1>6 DEF AskSimilar
    <2>2. P \subseteq EntryIds
        BY PortalQueries DEF TypeInv
    <2> HIDE DEF P
    <2>3. r \in SimilarReaders /\ Fits(r)
        BY <2>2 DEF SimilarReaders, Fits
    <2> HIDE DEF r
    <2> QED BY <2>1, <2>3, AskTyped DEF ReaderType
<1>7. CASE AnswerSimilar
    <2>1. PICK ids \in SUBSET EntryIds :
            Continue([reader EXCEPT !.at = "done", !.shown = ids \cap reader.pool])
        BY <1>7 DEF AnswerSimilar
    <2> DEFINE r == [reader EXCEPT !.at = "done", !.shown = ids \cap reader.pool]
    <2>2. reader \in SimilarReaders /\ reader.op = "similar"
        BY <1>7, WhoReads DEF AnswerSimilar, TypeInv
    <2>3. r \in SimilarReaders /\ Fits(r)
        BY <2>2 DEF SimilarReaders, Fits
    <2> HIDE DEF r
    <2> QED BY <2>1, <2>3, ContinueTyped DEF r, ReaderType
<1> QED BY <1>1, <1>2, <1>3, <1>4, <1>5, <1>6, <1>7

LEMMA DashboardRead ==
    ASSUME TypeInv, AskDashboard \/ ReadFigure
    PROVE  TypeInv'
<1>1. CASE AskDashboard
    <2> DEFINE r == [op |-> "dashboard", at |-> "total", total |-> 0, internal |-> 0, closed |-> 0,
                     types |-> <<>>, statuses |-> <<>>]
    <2>1. Ask(r, <<>>)
        BY <1>1 DEF AskDashboard
    <2>2. r \in DashboardReaders /\ Fits(r)
        BY DEF DashboardReaders, Fits
    <2> HIDE DEF r
    <2> QED BY <2>1, <2>2, AskTyped DEF ReaderType
<1>2. CASE ReadFigure
    <2> DEFINE T == GroupByType(entries)
               S == GroupByStatus(entries)
    <2>1. /\ Cardinality(DOMAIN entries) \in Nat /\ CountInternal(entries) \in Nat
          /\ CountClosed(entries) \in Nat /\ T \in Types /\ S \in [Statuses -> Nat]
        BY FiguresTyped DEF TypeInv
    <2>2. reader \in DashboardReaders /\ reader.op = "dashboard" /\ Fits(reader)
        BY <1>2, WhoReads DEF ReadFigure, TypeInv
    <2>3. ASSUME NEW r, Continue(r), r \in DashboardReaders, Fits(r) PROVE TypeInv'
        BY <2>3, ContinueTyped DEF ReaderType
    <2> HIDE DEF T, S
    <2>4. CASE /\ reader.at = "total"
               /\ Continue([reader EXCEPT !.at = "internal", !.total = Cardinality(DOMAIN entries)])
        <3> DEFINE r == [reader EXCEPT !.at = "internal", !.total = Cardinality(DOMAIN entries)]
        <3>1. r \in DashboardReaders /\ Fits(r)
            BY <2>1, <2>2 DEF DashboardReaders, Fits
        <3> QED BY <2>3, <2>4, <3>1
    <2>5. CASE /\ reader.at = "internal"
               /\ Continue([reader EXCEPT !.at = "closed", !.internal = CountInternal(entries)])
        <3> DEFINE r == [reader EXCEPT !.at = "closed", !.internal = CountInternal(entries)]
        <3>1. r \in DashboardReaders /\ Fits(r)
            BY <2>1, <2>2 DEF DashboardReaders, Fits
        <3> QED BY <2>3, <2>5, <3>1
    <2>6. CASE /\ reader.at = "closed"
               /\ Continue([reader EXCEPT !.at = "types", !.closed = CountClosed(entries)])
        <3> DEFINE r == [reader EXCEPT !.at = "types", !.closed = CountClosed(entries)]
        <3>1. r \in DashboardReaders /\ Fits(r)
            BY <2>1, <2>2 DEF DashboardReaders, Fits
        <3> QED BY <2>3, <2>6, <3>1
    <2>7. CASE reader.at = "types" /\ Continue([reader EXCEPT !.at = "statuses", !.types = T])
        <3> DEFINE r == [reader EXCEPT !.at = "statuses", !.types = T]
        <3>1. r \in DashboardReaders /\ Fits(r)
            BY <2>1, <2>2 DEF DashboardReaders, Fits
        <3> QED BY <2>3, <2>7, <3>1
    <2>8. CASE reader.at = "statuses" /\ Continue([reader EXCEPT !.at = "done", !.statuses = S])
        <3> DEFINE r == [reader EXCEPT !.at = "done", !.statuses = S]
        <3>1. reader.types \in Types /\ reader.at # "done"
            BY <2>2, <2>8 DEF Fits
        <3>2. r \in DashboardReaders /\ r.types = reader.types /\ r.op = "dashboard"
              /\ r.statuses \in [Statuses -> Nat]
            BY <2>1, <2>2 DEF DashboardReaders
        <3>3. Fits(r)
            <4> HIDE DEF r
            <4> QED BY <3>1, <3>2 DEF Fits
        <3> QED BY <2>3, <2>8, <3>2, <3>3
    <2> QED BY <1>2, <2>4, <2>5, <2>6, <2>7, <2>8 DEF ReadFigure, T, S
<1> QED BY <1>1, <1>2

\* What a submission adds, and what the other writes change.
LEMMA SubmitStores ==
    ASSUME TypeInv, Submit
    PROVE  /\ \E i \in EntryIds \ DOMAIN entries :
                /\ DOMAIN entries' = DOMAIN entries \cup {i}
                /\ \A j \in DOMAIN entries : entries'[j] = entries[j]
                /\ ~entries'[i].internal
                /\ \A j \in DOMAIN entries : entries[j].created <= entries'[i].created
           /\ Store(entries') /\ Change("submitted", Readers)
<1>1. PICK i \in EntryIds \ DOMAIN entries, d \in Drafts, later \in 0..1 :
        LET e == [user |-> d.user, kind |-> d.kind, words |-> d.words, status |-> "new",
                  internal |-> FALSE, votes |-> 0, topics |-> {}, release |-> Empty,
                  created |-> Max({entries[j].created : j \in DOMAIN entries}) + later]
        IN  /\ entries' = [j \in DOMAIN entries \cup {i} |-> IF j = i THEN e ELSE entries[j]]
            /\ Change("submitted", Readers)
    BY DEF Submit
<1> DEFINE M == {entries[j].created : j \in DOMAIN entries}
           m == Max(M) + later
           e == [user |-> d.user, kind |-> d.kind, words |-> d.words, status |-> "new",
                 internal |-> FALSE, votes |-> 0, topics |-> {}, release |-> Empty,
                 created |-> m]
<1>2. /\ entries' = [j \in DOMAIN entries \cup {i} |-> IF j = i THEN e ELSE entries[j]]
      /\ Change("submitted", Readers)
    BY <1>1
<1>3. Store(entries)
    BY DEF TypeInv
<1>4. M \subseteq Int /\ M # {}
    <2>1. \A j \in DOMAIN entries : entries[j].created \in Int
        BY <1>3 DEF Store, Entry
    <2>2. DOMAIN entries # {}
        BY <1>3 DEF Store
    <2> QED BY <2>1, <2>2
<1>5. IsFiniteSet(M)
    <2> DEFINE f == [j \in DOMAIN entries |-> entries[j].created]
    <2>1. f \in Surjection(DOMAIN entries, M)
        BY DEF Surjection
    <2> HIDE DEF f
    <2> QED BY <1>3, <2>1, FS_Surjection DEF Store
<1>6. Max(M) \in Int /\ \A x \in M : x <= Max(M)
    <2> HIDE DEF M
    <2>1. Max(M) \in M /\ AtMost(M, Max(M))
        BY <1>4, <1>5, Extremes
    <2> QED BY <1>4, <2>1 DEF AtMost
<1>7. m \in Int /\ \A j \in DOMAIN entries : entries[j].created <= m
    <2>1. \A j \in DOMAIN entries : entries[j].created \in M /\ entries[j].created \in Int
        BY <1>4
    <2>2. later \in {0, 1}
        OBVIOUS
    <2> HIDE DEF M
    <2> QED BY <1>6, <2>1, <2>2
<1> HIDE DEF m
<1>8. e \in Entry /\ ~e.internal /\ e.created = m
    <2>1. d \in [user : Names, kind : Names, words : SUBSET Names]
        BY ConstantsAssumption
    <2>2. d.user \in Names /\ d.kind \in Names /\ d.words \in SUBSET Names
        BY <2>1
    <2>3. "new" \in Names /\ Empty \in Names
        BY ConstantsAssumption DEF Statuses
    <2>4. m \in Int
        BY <1>7
    <2> QED BY <2>2, <2>3, <2>4 DEF Entry
<1> HIDE DEF e
<1>9. /\ DOMAIN entries' = DOMAIN entries \cup {i} /\ entries'[i] = e
      /\ \A j \in DOMAIN entries : entries'[j] = entries[j]
    BY <1>2
<1>10. Store(entries')
    <2>1. IsFiniteSet(DOMAIN entries')
        BY <1>3, <1>9, FS_AddElement DEF Store
    <2>2. \A j \in DOMAIN entries' : entries'[j] \in Entry
        BY <1>3, <1>8, <1>9 DEF Store
    <2>3. entries' = [j \in DOMAIN entries' |-> entries'[j]]
        BY <1>2
    <2> QED BY <1>3, <1>9, <2>1, <2>2, <2>3 DEF Store
<1> QED BY <1>2, <1>7, <1>8, <1>9, <1>10

\* The writes that change one entry leave the others and their number alone.
Same(c, d, i) == /\ DOMAIN d = DOMAIN c
                 /\ \A j \in DOMAIN c \ {i} : d[j] = c[j]
                 /\ d[i].user = c[i].user /\ d[i].kind = c[i].kind /\ d[i].words = c[i].words
                 /\ d[i].created = c[i].created /\ d[i].release = c[i].release
                 /\ d[i].topics = c[i].topics

LEMMA FlipStores ==
    ASSUME TypeInv, Flip
    PROVE  \E i \in DOMAIN entries :
             /\ Same(entries, entries', i) /\ Store(entries')
             /\ entries'[i].internal = ~entries[i].internal
             /\ entries'[i].status = entries[i].status /\ entries'[i].votes = entries[i].votes
             /\ Change(IF entries[i].internal THEN "published" ELSE "hidden", Readers)
<1>1. PICK i \in DOMAIN entries :
        /\ entries' = [entries EXCEPT ![i].internal = ~@]
        /\ Change(IF entries[i].internal THEN "published" ELSE "hidden", Readers)
    BY DEF Flip
<1>2. Store(entries)
    BY DEF TypeInv
<1>3. entries[i] \in Entry
    BY <1>2 DEF Store
<1>4. Same(entries, entries', i) /\ entries'[i] \in Entry
      /\ entries'[i].internal = ~entries[i].internal
      /\ entries'[i].status = entries[i].status /\ entries'[i].votes = entries[i].votes
    BY <1>1, <1>2, <1>3 DEF Same, Store, Entry
<1>5. Store(entries')
    BY <1>1, <1>2, <1>4 DEF Store, Same
<1> QED BY <1>1, <1>4, <1>5

LEMMA CloseStores ==
    ASSUME TypeInv, Close
    PROVE  \E i \in DOMAIN entries :
             /\ Same(entries, entries', i) /\ Store(entries')
             /\ entries[i].status \notin Closed /\ entries'[i].status = "completed"
             /\ entries'[i].internal = entries[i].internal /\ entries'[i].votes = entries[i].votes
             /\ Change("closed", {"listing", "dashboard"})
<1>1. PICK i \in DOMAIN entries :
        /\ entries[i].status \notin Closed /\ entries' = [entries EXCEPT ![i].status = "completed"]
        /\ Change("closed", {"listing", "dashboard"})
    BY DEF Close
<1>2. Store(entries)
    BY DEF TypeInv
<1>3. entries[i] \in Entry /\ "completed" \in Names
    BY <1>2, ConstantsAssumption DEF Store, Statuses
<1>4. Same(entries, entries', i) /\ entries'[i] \in Entry
      /\ entries'[i].internal = entries[i].internal
      /\ entries'[i].status = "completed" /\ entries'[i].votes = entries[i].votes
    BY <1>1, <1>2, <1>3 DEF Same, Store, Entry
<1>5. Store(entries')
    BY <1>1, <1>2, <1>4 DEF Store, Same
<1> QED BY <1>1, <1>4, <1>5

LEMMA VoteStores ==
    ASSUME TypeInv, Vote
    PROVE  \E i \in DOMAIN entries :
             /\ Same(entries, entries', i) /\ Store(entries')
             /\ entries'[i].status = entries[i].status
             /\ entries'[i].internal = entries[i].internal
             /\ Change("voted", {"listing"})
<1>1. PICK i \in DOMAIN entries :
        entries' = [entries EXCEPT ![i].votes = @ + 1] /\ Change("voted", {"listing"})
    BY DEF Vote
<1>2. Store(entries)
    BY DEF TypeInv
<1>3. entries[i] \in Entry /\ entries[i].votes + 1 \in Int
    BY <1>2 DEF Store, Entry
<1>4. Same(entries, entries', i) /\ entries'[i] \in Entry
      /\ entries'[i].internal = entries[i].internal
      /\ entries'[i].status = entries[i].status
    BY <1>1, <1>2, <1>3 DEF Same, Store, Entry
<1>5. Store(entries')
    BY <1>1, <1>2, <1>4 DEF Store, Same
<1> QED BY <1>1, <1>4, <1>5

LEMMA CommentStores ==
    ASSUME TypeInv, FlipComment
    PROVE  /\ comments' \in CommentType /\ UNCHANGED entries /\ Written("comment", {"comments"})
           /\ \A m \in CommentIds : comments'[m].entry = comments[m].entry
<1>1. PICK m \in DOMAIN comments :
        /\ comments' = [comments EXCEPT ![m].internal = ~@]
        /\ UNCHANGED entries /\ Written("comment", {"comments"})
    BY DEF FlipComment
<1>2. DOMAIN comments = CommentIds
      /\ comments \in [CommentIds -> [entry : EntryIds, internal : BOOLEAN]]
    BY DEF TypeInv, CommentType
<1>3. comments' \in [CommentIds -> [entry : EntryIds, internal : BOOLEAN]]
      /\ \A k \in CommentIds : comments'[k].entry = comments[k].entry
    <2>1. ASSUME NEW k \in CommentIds
          PROVE  /\ comments'[k] \in [entry : EntryIds, internal : BOOLEAN]
                 /\ comments'[k].entry = comments[k].entry
        <3>1. comments[k] \in [entry : EntryIds, internal : BOOLEAN]
            BY <1>2
        <3>2. comments'[k] = IF k = m THEN [comments[k] EXCEPT !.internal = ~@] ELSE comments[k]
            BY <1>1, <1>2
        <3> QED BY <3>1, <3>2
    <2>2. comments' = [k \in CommentIds |-> comments'[k]]
        BY <1>1, <1>2
    <2> QED BY <2>1, <2>2
<1> QED BY <1>1, <1>3 DEF CommentType

LEMMA WritingTyped ==
    ASSUME TypeInv, Writing
    PROVE  TypeInv'
<1>1. ASSUME NEW kind \in Kinds, NEW readers, Change(kind, readers), Store(entries')
      PROVE  TypeInv'
    <2>1. Written(kind, readers) /\ comments' \in CommentType
        BY <1>1 DEF Change, TypeInv, CommentType
    <2> QED BY <1>1, <2>1, WrittenTyped
<1>2. CASE Submit
    BY <1>1, <1>2, SubmitStores DEF Kinds
<1>3. CASE Flip
    BY <1>1, <1>3, FlipStores DEF Kinds
<1>4. CASE Close
    BY <1>1, <1>4, CloseStores DEF Kinds
<1>5. CASE Vote
    BY <1>1, <1>5, VoteStores DEF Kinds
<1>6. CASE FlipComment
    <2>1. Store(entries') /\ comments' \in CommentType /\ Written("comment", {"comments"})
        BY <1>6, CommentStores DEF TypeInv, Store
    <2> QED BY <2>1, WrittenTyped DEF Kinds
<1> QED BY <1>2, <1>3, <1>4, <1>5, <1>6 DEF Writing

LEMMA InitTyped == Init => TypeInv
<1> SUFFICES ASSUME Init PROVE TypeInv
    OBVIOUS
<1>1. PICK D \in (SUBSET EntryIds) \ {{}} : IsFiniteSet(D) /\ entries \in [D -> Stored]
    BY DEF Init
<1>2. Store(entries)
    <2>1. Stored \subseteq Entry
        BY ConstantsAssumption
    <2>2. DOMAIN entries = D /\ entries \in [D -> Entry] /\ D \subseteq EntryIds /\ D # {}
        BY <1>1, <2>1
    <2> QED BY <1>1, <2>2 DEF Store
<1>3. Min(DOMAIN entries) \in EntryIds
    <2>1. EntryIds \subseteq Int
        BY ConstantsAssumption
    <2>2. DOMAIN entries \subseteq Int /\ DOMAIN entries # {} /\ IsFiniteSet(DOMAIN entries)
        BY <1>2, <2>1 DEF Store
    <2>3. Min(DOMAIN entries) \in DOMAIN entries
        BY <2>2, Extremes
    <2> QED BY <1>2, <2>3 DEF Store
<1>4. comments \in CommentType
    BY <1>3 DEF Init, CommentType
<1>5. reader \in ReaderType /\ Fits(reader)
    BY DEF Init, ReaderType, Fits, Idle
<1>6. SinceType(since)
    BY DEF Init, SinceType
<1>7. writes \in 0..MaxWrites
    BY ConstantsAssumption DEF Init
<1> QED BY <1>2, <1>4, <1>5, <1>6, <1>7 DEF TypeInv

LEMMA NextTyped == TypeInv /\ [Next]_vars => TypeInv'
<1> SUFFICES ASSUME TypeInv, [Next]_vars PROVE TypeInv'
    OBVIOUS
<1>1. CASE Reading
    BY <1>1, ListingRead, UsersRead, OthersRead, DashboardRead DEF Reading
<1>2. CASE Writing
    BY <1>2, WritingTyped
<1>3. CASE UNCHANGED vars
    BY <1>3 DEF vars, TypeInv, CommentType, SinceType, Store, Fits, ReaderType
<1> QED BY <1>1, <1>2, <1>3 DEF Next

(* Nobody ever reads or holds anything but documents of the store and      *)
(* figures about them, whatever is written between the reads of a handler. *)
THEOREM ReadsTyped == Spec => []TypeInv
BY InitTyped, NextTyped, PTL DEF Spec

-------------------------------------------------------------------------------
(* What the Portal shows.  What is public now has been public since the    *)
(* reader asked; that goes for all he holds, and also for the entry whose  *)
(* comments he is about to read and for those put to the model.            *)

Seen(r, c, s) ==
  /\ r.op \in {"entry", "changelog", "similar"} => r.shown \subseteq s.entries
  /\ r.op = "similar" => r.pool \subseteq s.entries
  /\ r.op = "comments" =>
       /\ r.told \subseteq s.comments /\ \A m \in r.told : c[m].entry = r.entry
       /\ r.at = "comments" \/ r.told # {} => r.entry \in s.entries
  /\ r.op = "listing" => (r.f.publicOnly => ToSet(r.got) \subseteq s.entries)
Noted == reader # Idle => /\ PublicEntries(entries) \subseteq since.entries
                          /\ PublicComments(comments) \subseteq since.comments
ShownInv == Noted /\ Seen(reader, comments, since)

LEMMA ToSetConcat ==
    ASSUME NEW T, NEW s \in Seq(T), NEW t \in Seq(T)
    PROVE  ToSet(s \o t) = ToSet(s) \cup ToSet(t)
<1>1. /\ s \o t \in Seq(T) /\ Len(s \o t) = Len(s) + Len(t) /\ Len(s) \in Nat /\ Len(t) \in Nat
      /\ DOMAIN s = 1..Len(s) /\ DOMAIN t = 1..Len(t) /\ DOMAIN (s \o t) = 1..Len(s) + Len(t)
    BY ConcatProperties, LenProperties
<1>2. \A i \in 1..Len(s) + Len(t) : (s \o t)[i] = IF i <= Len(s) THEN s[i] ELSE t[i - Len(s)]
    BY ConcatProperties
<1> DEFINE u == s \o t
<1> HIDE DEF u
<1>3. ASSUME NEW x \in ToSet(u) PROVE x \in ToSet(s) \cup ToSet(t)
    <2>1. PICK i \in 1..Len(s) + Len(t) : u[i] = x
        BY <1>1 DEF ToSet, u
    <2>2. i \in 1..Len(s) \/ i - Len(s) \in 1..Len(t)
        BY <1>1
    <2>3. i \in 1..Len(s) => s[i] = x
        BY <1>1, <1>2, <2>1 DEF u
    <2>4. i \notin 1..Len(s) => t[i - Len(s)] = x
        BY <1>1, <1>2, <2>1 DEF u
    <2> QED BY <1>1, <2>2, <2>3, <2>4 DEF ToSet
<1>4. ASSUME NEW x \in ToSet(s) PROVE x \in ToSet(u)
    <2>1. PICK i \in 1..Len(s) : s[i] = x
        BY <1>1 DEF ToSet
    <2>2. i \in 1..Len(s) + Len(t) /\ u[i] = x
        BY <1>1, <1>2, <2>1 DEF u
    <2> QED BY <1>1, <2>2 DEF ToSet, u
<1>5. ASSUME NEW x \in ToSet(t) PROVE x \in ToSet(u)
    <2>1. PICK i \in 1..Len(t) : t[i] = x
        BY <1>1 DEF ToSet
    <2> DEFINE j == Len(s) + i
    <2>2. j \in 1..Len(s) + Len(t) /\ ~(j <= Len(s)) /\ j - Len(s) = i
        BY <1>1
    <2> HIDE DEF j
    <2>3. u[j] = x
        BY <1>2, <2>1, <2>2 DEF u
    <2> QED BY <1>1, <2>2, <2>3 DEF ToSet, u
<1> QED BY <1>3, <1>4, <1>5 DEF u

LEMMA AskSeen ==
    ASSUME TypeInv, NEW r, NEW whole, Ask(r, whole),
           Seen(r, comments, [entries |-> PublicEntries(entries),
                              comments |-> PublicComments(comments),
                              whole |-> whole, writes |-> {}])
    PROVE  ShownInv'
<1>1. /\ reader' = r /\ entries' = entries /\ comments' = comments
      /\ since' = [entries |-> PublicEntries(entries), comments |-> PublicComments(comments),
                   whole |-> whole, writes |-> {}]
    BY DEF Ask
<1>2. since'.entries = PublicEntries(entries) /\ since'.comments = PublicComments(comments)
    BY <1>1
<1>3. Seen(reader', comments', since')
    BY <1>1
<1>4. Noted'
    BY <1>1, <1>2 DEF Noted
<1> QED BY <1>3, <1>4 DEF ShownInv, Seen

LEMMA ContinueSeen ==
    ASSUME ShownInv, reader # Idle, NEW r, Continue(r), Seen(r, comments, since)
    PROVE  ShownInv'
BY DEF Continue, ShownInv, Noted, Seen, PublicEntries, PublicComments

LEMMA WrittenSeen ==
    ASSUME TypeInv, ShownInv, NEW kind, NEW readers, Written(kind, readers),
           \A m \in CommentIds : comments'[m].entry = comments[m].entry
    PROVE  ShownInv'
<1>1. /\ reader' = reader /\ reader.at # "done"
      /\ since' = [since EXCEPT !.entries = @ \cup PublicEntries(entries'),
                                !.comments = @ \cup PublicComments(comments'),
                                !.writes = @ \cup {kind}]
    BY DEF Written
<1>2. /\ since'.entries = since.entries \cup PublicEntries(entries')
      /\ since'.comments = since.comments \cup PublicComments(comments')
    BY <1>1 DEF TypeInv, SinceType
<1>3. Noted'
    BY <1>2 DEF Noted, PublicEntries, PublicComments
<1>4. reader.op = "comments" => reader.told \subseteq CommentIds
    BY WhoReads DEF TypeInv, CommentReaders
<1>5. Seen(reader', comments', since')
    <2>1. Seen(reader, comments, since)
        BY DEF ShownInv
    <2>2. since.entries \subseteq since'.entries /\ since.comments \subseteq since'.comments
        BY <1>2
    <2>3. reader.op = "comments" => \A m \in reader.told : comments'[m].entry = comments[m].entry
        BY <1>4
    <2> QED BY <1>1, <2>1, <2>2, <2>3 DEF Seen
<1> QED BY <1>3, <1>5 DEF ShownInv, Seen

LEMMA WritingSeen ==
    ASSUME TypeInv, ShownInv, Writing
    PROVE  ShownInv'
<1>1. ASSUME NEW kind, NEW readers, Change(kind, readers)
      PROVE  ShownInv'
    <2>1. Written(kind, readers) /\ comments' = comments
        BY <1>1 DEF Change
    <2>2. \A m \in CommentIds : comments'[m].entry = comments[m].entry
        BY <2>1
    <2> QED BY <2>1, <2>2, WrittenSeen
<1>2. CASE Submit \/ Flip \/ Close \/ Vote
    BY <1>1, <1>2 DEF Submit, Flip, Close, Vote
<1>3. CASE FlipComment
    <2>1. /\ Written("comment", {"comments"})
          /\ \A m \in CommentIds : comments'[m].entry = comments[m].entry
        BY <1>3, CommentStores
    <2> QED BY <2>1, WrittenSeen
<1> QED BY <1>2, <1>3 DEF Writing

LEMMA ListingSeen ==
    ASSUME TypeInv, ShownInv, AskListing \/ ReadPage \/ CountPage
    PROVE  ShownInv'
<1>1. CASE AskListing
    <2>1. PICK f \in Walks :
            Ask([op |-> "listing", at |-> "entries", f |-> f, got |-> <<>>], Listing(entries, f))
        BY <1>1 DEF AskListing
    <2>2. ToSet(<<>>) = {}
        BY DEF ToSet
    <2> QED BY <2>1, <2>2, AskSeen DEF Seen
<1>2. CASE ReadPage
    <2> DEFINE l == ListEntries(entries, reader.f)
               r == [reader EXCEPT !.at = "count", !.got = @ \o l]
    <2>1. reader \in Listers /\ Continue(r) /\ Fits(reader) /\ reader.op = "listing"
          /\ reader.got \in Seq(EntryIds) /\ reader.f \in EntryListFilter
        BY <1>2, WhoReads DEF ReadPage, TypeInv, Listers
    <2>2. l \in Seq(EntryIds) /\ ToSet(l) \subseteq Found(entries, reader.f)
        <3>1. reader.f.limit \in Int /\ reader.f.page \in Nat
            BY <2>1 DEF Fits, EntryListFilter
        <3> QED BY <3>1, ListEntriesTyped DEF TypeInv
    <2>3. reader.f.publicOnly => Found(entries, reader.f) \subseteq PublicEntries(entries)
        BY <2>1 DEF Fits, Found, Matches, PublicEntries
    <2>4. PublicEntries(entries) \subseteq since.entries
        BY <2>1 DEF ShownInv, Noted, Idle
    <2> HIDE DEF l
    <2>5. ToSet(reader.got \o l) = ToSet(reader.got) \cup ToSet(l)
        BY <2>1, <2>2, ToSetConcat
    <2>6. r.op = "listing" /\ r.f = reader.f /\ r.got = reader.got \o l
        BY <2>1 DEF Listers
    <2> HIDE DEF r
    <2>7. reader.f.publicOnly => ToSet(reader.got) \subseteq since.entries
        BY <2>1 DEF ShownInv, Seen
    <2>8. Seen(r, comments, since)
        BY <2>2, <2>3, <2>4, <2>5, <2>6, <2>7 DEF Seen
    <2> QED BY <2>1, <2>8, ContinueSeen DEF Idle
<1>3. CASE CountPage
    <2> DEFINE r == [reader EXCEPT !.at = "entries", !.f.page = PageOf(reader.f) + 1]
               q == [reader EXCEPT !.at = "done"]
    <2>1. reader \in Listers /\ reader.op = "listing" /\ reader.f \in EntryListFilter
          /\ (Continue(r) \/ Continue(q))
        BY <1>3, WhoReads DEF CountPage, TypeInv, Listers
    <2>2. r.op = "listing" /\ r.f.publicOnly = reader.f.publicOnly /\ r.got = reader.got
          /\ q.op = "listing" /\ q.f = reader.f /\ q.got = reader.got
        BY <2>1 DEF Listers, EntryListFilter
    <2> HIDE DEF r, q
    <2>3. Seen(r, comments, since) /\ Seen(q, comments, since)
        BY <2>1, <2>2 DEF ShownInv, Seen
    <2> QED BY <2>1, <2>3, ContinueSeen DEF Idle
<1> QED BY <1>1, <1>2, <1>3

LEMMA OthersSeen ==
    ASSUME TypeInv, ShownInv,
           AskUsers \/ ReadUsers \/ AskEntry \/ AskChangelog \/ AskRelease \/ ReadRelease
             \/ AskSimilar \/ AnswerSimilar \/ AskDashboard \/ ReadFigure
    PROVE  ShownInv'
<1>1. CASE AskUsers \/ AskDashboard
    BY <1>1, AskSeen DEF AskUsers, AskDashboard, Seen
<1>2. CASE ReadUsers
    <2> DEFINE rows == UserRows(entries, reader.f)
               page == PageOf(reader.f)
               end == Min({page * LimitOf(reader.f), Len(rows)})
               r == [reader EXCEPT !.got = @ \o Slice(rows, page, LimitOf(reader.f)),
                                   !.at = IF end < Len(rows) THEN "users" ELSE "done",
                                   !.f.page = page + 1]
    <2>1. reader \in Rosterers /\ reader.op = "users" /\ Continue(r)
        BY <1>2, WhoReads DEF ReadUsers, TypeInv
    <2>2. r.op = "users"
        BY <2>1 DEF Rosterers
    <2> HIDE DEF r
    <2> QED BY <2>1, <2>2, ContinueSeen DEF Seen, Idle
<1>3. CASE ReadFigure
    <2>1. PICK r : Continue(r) /\ r.op = "dashboard"
        <3>1. reader \in DashboardReaders
            BY <1>3, WhoReads DEF ReadFigure, TypeInv
        <3>2. reader'.op = "dashboard"
            BY <1>3, <3>1 DEF ReadFigure, DashboardReaders, Continue
        <3>3. Continue(reader')
            BY <1>3 DEF ReadFigure, Continue
        <3> QED BY <3>2, <3>3
    <2>2. reader # Idle
        BY <1>3 DEF ReadFigure, Idle
    <2> QED BY <2>1, <2>2, ContinueSeen DEF Seen
<1>4. CASE AskEntry
    <2>1. PICK i \in DOMAIN entries :
            Ask([op |-> "entry", at |-> "done",
                 shown |-> IF entries[i].internal THEN {} ELSE {i}], <<>>)
        BY <1>4 DEF AskEntry
    <2>2. (IF entries[i].internal THEN {} ELSE {i}) \subseteq PublicEntries(entries)
        BY DEF PublicEntries
    <2> QED BY <2>1, <2>2, AskSeen DEF Seen
<1>5. CASE AskChangelog \/ AskRelease
    <2>1. PICK R : Ask([op |-> "changelog", at |-> "releases", left |-> R, shown |-> {}], <<>>)
        BY <1>5 DEF AskChangelog, AskRelease
    <2> QED BY <2>1, AskSeen DEF Seen
<1>6. CASE ReadRelease
    <2>1. PICK l \in reader.left :
            Continue([reader EXCEPT !.left = @ \ {l},
                                    !.at = IF reader.left = {l} THEN "done" ELSE @,
                                    !.shown = @ \cup ToSet(ListEntriesByReleaseID(entries, l, TRUE))])
        BY <1>6 DEF ReadRelease
    <2> DEFINE t == ToSet(ListEntriesByReleaseID(entries, l, TRUE))
               r == [reader EXCEPT !.left = @ \ {l},
                                   !.at = IF reader.left = {l} THEN "done" ELSE @,
                                   !.shown = @ \cup t]
    <2>2. reader \in ChangelogReaders /\ reader.op = "changelog"
        BY <1>6, WhoReads DEF ReadRelease, TypeInv
    <2>3. t \subseteq PublicEntries(entries)
        BY PortalQueries DEF TypeInv
    <2>4. Continue(r)
        BY <2>1
    <2> HIDE DEF t
    <2>5. r.op = "changelog" /\ r.shown = reader.shown \cup t
        BY <2>2 DEF ChangelogReaders
    <2> HIDE DEF r
    <2>6. reader.shown \subseteq since.entries /\ PublicEntries(entries) \subseteq since.entries
        BY <2>2 DEF ShownInv, Seen, Noted, Idle
    <2>7. Seen(r, comments, since)
        BY <2>3, <2>5, <2>6 DEF Seen
    <2> QED BY <2>2, <2>4, <2>7, ContinueSeen DEF Idle
<1>7. CASE AskSimilar
    <2> DEFINE P == Candidates(entries)
    <2>1. Ask([op |-> "similar", at |-> IF P = {} THEN "done" ELSE "model",
               pool |-> P, shown |-> {}], <<>>)
        BY <1>7 DEF AskSimilar
    <2>2. P = PublicEntries(entries)
        BY PortalQueries DEF TypeInv
    <2> HIDE DEF P
    <2> QED BY <2>1, <2>2, AskSeen DEF Seen
<1>8. CASE AnswerSimilar
    <2>1. PICK ids \in SUBSET EntryIds :
            Continue([reader EXCEPT !.at = "done", !.shown = ids \cap reader.pool])
        BY <1>8 DEF AnswerSimilar
    <2> DEFINE r == [reader EXCEPT !.at = "done", !.shown = ids \cap reader.pool]
    <2>2. reader \in SimilarReaders /\ reader.op = "similar"
        BY <1>8, WhoReads DEF AnswerSimilar, TypeInv
    <2>3. r.op = "similar" /\ r.pool = reader.pool /\ r.shown = ids \cap reader.pool
        BY <2>2 DEF SimilarReaders
    <2>4. Continue(r)
        BY <2>1
    <2> HIDE DEF r
    <2>5. Seen(r, comments, since)
        BY <2>2, <2>3 DEF ShownInv, Seen
    <2> QED BY <2>2, <2>4, <2>5, ContinueSeen DEF Idle
<1> QED BY <1>1, <1>2, <1>3, <1>4, <1>5, <1>6, <1>7, <1>8

LEMMA CommentsSeen ==
    ASSUME TypeInv, ShownInv, AskComments \/ ReadComments
    PROVE  ShownInv'
<1>1. CASE AskComments
    <2>1. PICK i \in DOMAIN entries :
            Ask([op |-> "comments", at |-> IF entries[i].internal THEN "done" ELSE "comments",
                 entry |-> i, told |-> {}], <<>>)
        BY <1>1 DEF AskComments
    <2>2. ~entries[i].internal => i \in PublicEntries(entries)
        BY DEF PublicEntries
    <2> QED BY <2>1, <2>2, AskSeen DEF Seen
<1>2. CASE ReadComments
    <2> DEFINE t == ToSet(ListCommentsByEntryID(comments, reader.entry, FALSE))
               r == [reader EXCEPT !.at = "done", !.told = t]
    <2>1. reader \in CommentReaders /\ reader.op = "comments" /\ reader.at = "comments" /\ Continue(r)
        BY <1>2, WhoReads DEF ReadComments, TypeInv
    <2>2. t = {m \in CommentIds : comments[m].entry = reader.entry /\ ~comments[m].internal}
        BY CommentsPublic DEF TypeInv
    <2>3. DOMAIN comments = CommentIds
        BY DEF TypeInv, CommentType
    <2>4. t \subseteq PublicComments(comments) /\ \A m \in t : comments[m].entry = reader.entry
        BY <2>2, <2>3 DEF PublicComments
    <2> HIDE DEF t
    <2>5. r.op = "comments" /\ r.told = t /\ r.entry = reader.entry
        BY <2>1 DEF CommentReaders
    <2> HIDE DEF r
    <2>6. reader.entry \in since.entries /\ PublicComments(comments) \subseteq since.comments
        BY <2>1 DEF ShownInv, Seen, Noted, Idle
    <2>7. Seen(r, comments, since)
        BY <2>4, <2>5, <2>6 DEF Seen
    <2> QED BY <2>1, <2>7, ContinueSeen DEF Idle
<1> QED BY <1>1, <1>2

LEMMA InitShown == Init => ShownInv
BY DEF Init, ShownInv, Noted, Seen, Idle

LEMMA NextShown == TypeInv /\ ShownInv /\ [Next]_vars => ShownInv'
<1> SUFFICES ASSUME TypeInv, ShownInv, [Next]_vars PROVE ShownInv'
    OBVIOUS
<1>1. CASE Reading
    BY <1>1, ListingSeen, OthersSeen, CommentsSeen DEF Reading
<1>2. CASE Writing
    BY <1>2, WritingSeen
<1>3. CASE UNCHANGED vars
    BY <1>3 DEF vars, ShownInv, Noted, Seen, PublicEntries, PublicComments
<1> QED BY <1>1, <1>2, <1>3 DEF Next

(* However the flags of entries and comments are turned between the reads  *)
(* of a handler, and between the pages of a walk, the Portal shows nothing *)
(* but what was public at some moment since the visitor asked.             *)
THEOREM ThePortalShowsThePublic == Spec => []PortalShowsThePublic
<1>1. TypeInv /\ ShownInv => PortalShowsThePublic
    <2> SUFFICES ASSUME TypeInv, ShownInv PROVE PortalShowsThePublic
        OBVIOUS
    <2>1. reader.op = "comments" => {comments[m].entry : m \in reader.told} \subseteq since.entries
        BY DEF ShownInv, Seen
    <2> QED BY <2>1 DEF PortalShowsThePublic, Shown, ShownInv, Seen
<1> QED BY <1>1, InitShown, NextShown, ReadsTyped, PTL DEF Spec

-------------------------------------------------------------------------------
(* Walks.  An entry is at the place of its rank; writes that neither take  *)
(* it out nor move it can only move it back, to a page still to come.      *)

Served(s, k) == SubSeq(s, 1, Min({k, Len(s)}))

LEMMA ServedPages ==
    ASSUME NEW T, NEW s \in Seq(T), NEW p \in Nat \ {0}, NEW l \in Nat \ {0}
    PROVE  Served(s, (p - 1) * l) \o Slice(s, p, l) = Served(s, p * l)
BY PagesJoin DEF Served, End

LEMMA ServedEnds ==
    ASSUME NEW T, NEW s \in Seq(T)
    PROVE  /\ Served(s, 0) = <<>>
           /\ \A k \in Nat : Len(s) <= k => Served(s, k) = s
<1>1. Len(s) \in Nat
    BY LenProperties
<1>2. Served(s, 0) = <<>>
    <2>1. Min({0, Len(s)}) = 0
        BY <1>1, MinOfTwo
    <2>2. SubSeq(s, 1, 0) = <<>>
        BY SubSeqEmpty
    <2> QED BY <2>1, <2>2 DEF Served
<1>3. ASSUME NEW k \in Nat, Len(s) <= k PROVE Served(s, k) = s
    <2>1. Min({k, Len(s)}) = Len(s)
        BY <1>1, <1>3, MinOfTwo
    <2>2. SubSeq(s, 1, Len(s)) = s
        BY SubSeqFull
    <2> QED BY <2>1, <2>2 DEF Served
<1> QED BY <1>2, <1>3

\* The place of an entry in a listing.
Spot(c, f, i) == Rank(i, Found(c, f), EntryOrder(c, Found(c, f), f.sort))

LEMMA SpotIs ==
    ASSUME NEW c, Store(c), NEW f, NEW i \in Found(c, f)
    PROVE  Spot(c, f, i) \in 1..CountEntries(c, f) /\ Listing(c, f)[Spot(c, f, i)] = i
<1> DEFINE S == Found(c, f)
           R == EntryOrder(c, S, f.sort)
<1>1. Sortable(c, S) /\ IsFiniteSet(S)
    BY ListingTyped
<1> HIDE DEF S
<1>2. Orders(R, S) /\ Ordered(Sorted(c, S, f.sort), S, R)
    BY <1>1, EntryOrders, SortedIsOrdered
<1> HIDE DEF R
<1>3. Rank(i, S, R) \in 1..Cardinality(S) /\ Sorted(c, S, f.sort)[Rank(i, S, R)] = i
    BY <1>1, <1>2, UptoFinite, PlaceIsRank DEF S
<1> QED BY <1>3 DEF Spot, CountEntries, Listing, S, R

\* A page serves those whose places it covers.
LEMMA PageServes ==
    ASSUME NEW c, Store(c), NEW f, f.limit \in Int, f.page \in Nat, NEW i \in Found(c, f),
           (PageOf(f) - 1) * LimitOf(f) < Spot(c, f, i), Spot(c, f, i) <= PageOf(f) * LimitOf(f)
    PROVE  i \in ToSet(ListEntries(c, f))
<1>1. LimitOf(f) \in Nat \ {0} /\ PageOf(f) \in Nat \ {0}
    BY LimitsHold
<1>2. Listing(c, f) \in Seq(EntryIds) /\ Len(Listing(c, f)) = CountEntries(c, f)
    BY ListingTyped
<1>3. Spot(c, f, i) \in 1..Len(Listing(c, f)) /\ Listing(c, f)[Spot(c, f, i)] = i
    BY <1>2, SpotIs
<1>4. Listing(c, f)[Spot(c, f, i)] \in ToSet(Slice(Listing(c, f), PageOf(f), LimitOf(f)))
    BY <1>1, <1>2, <1>3, SliceHas
<1> QED BY <1>3, <1>4 DEF ListEntries

\* A write that takes nothing out of a listing and moves nothing in it.
Holds(c, d, f) ==
  /\ Found(c, f) \subseteq Found(d, f)
  /\ \A x \in Found(c, f) : /\ d[x].created = c[x].created
                            /\ f.sort = "top" => d[x].votes = c[x].votes

LEMMA OrderHolds ==
    ASSUME NEW c, NEW d, NEW f, Holds(c, d, f),
           NEW x \in Found(c, f), NEW y \in Found(c, f)
    PROVE  <<y, x>> \in EntryOrder(c, Found(c, f), f.sort)
             <=> <<y, x>> \in EntryOrder(d, Found(d, f), f.sort)
<1>1. x \in Found(d, f) /\ y \in Found(d, f)
    BY DEF Holds
<1>2. Newer(c, y, x) <=> Newer(d, y, x)
    BY DEF Holds, Newer
<1>3. f.sort = "top" => (Higher(c, y, x) <=> Higher(d, y, x))
    BY <1>2 DEF Holds, Higher
<1> QED BY <1>1, <1>2, <1>3 DEF EntryOrder

LEMMA SpotGrows ==
    ASSUME NEW c, NEW d, Store(c), Store(d), NEW f, Holds(c, d, f), NEW i \in Found(c, f)
    PROVE  Spot(c, f, i) <= Spot(d, f, i)
<1> DEFINE S == Found(c, f)
           U == Found(d, f)
           R == EntryOrder(c, S, f.sort)
           Q == EntryOrder(d, U, f.sort)
<1>1. IsFiniteSet(U)
    BY ListingTyped
<1>2. S \subseteq U
    BY DEF Holds
<1>3. \A y \in S : <<y, i>> \in R => <<y, i>> \in Q
    BY OrderHolds
<1> HIDE DEF S, U, R, Q
<1>4. Rank(i, S, R) <= Rank(i, U, Q)
    BY <1>1, <1>2, <1>3, RankGrows DEF S
<1> QED BY <1>4 DEF Spot, S, U, R, Q

LEMMA ListingSame ==
    ASSUME NEW c, NEW d, Store(c), Store(d), NEW f, Holds(c, d, f), Found(c, f) = Found(d, f)
    PROVE  Listing(c, f) = Listing(d, f)
<1> DEFINE S == Found(c, f)
           R == EntryOrder(c, S, f.sort)
           Q == EntryOrder(d, S, f.sort)
<1>1. Sortable(c, S) /\ Sortable(d, S) /\ IsFiniteSet(S)
    BY ListingTyped
<1>2. \A x, y \in S : <<y, x>> \in R <=> <<y, x>> \in Q
    BY OrderHolds
<1>3. R = Q
    BY <1>2 DEF EntryOrder
<1> HIDE DEF S
<1>4. Orders(R, S) /\ Ordered(Sorted(c, S, f.sort), S, R)
    BY <1>1, EntryOrders, SortedIsOrdered
<1>5. Ordered(Sorted(d, S, f.sort), S, Q)
    BY <1>1, SortedIsOrdered
<1> HIDE DEF R, Q
<1>6. Sorted(c, S, f.sort) = Sorted(d, S, f.sort)
    BY <1>1, <1>3, <1>4, <1>5, SortUnique
<1> QED BY <1>6 DEF Listing, S

\* What each write does to a listing, by the name that the walk knows it by.
LEMMA WritesHold ==
    ASSUME TypeInv, NEW f, f.publicOnly => f.include = Empty, reader.op # "users", Writing
    PROVE  \E kind \in Kinds, readers \in SUBSET Readers :
             /\ Written(kind, readers) /\ Store(entries')
             /\ kind \notin Moves(f) => Holds(entries, entries', f)
             /\ kind \notin Moves(f) \cup MovesInto(f) => Found(entries, f) = Found(entries', f)
<1>1. CASE Submit
    <2>1. PICK i \in EntryIds \ DOMAIN entries :
            /\ DOMAIN entries' = DOMAIN entries \cup {i}
            /\ \A j \in DOMAIN entries : entries'[j] = entries[j]
        BY <1>1, SubmitStores
    <2>2. Written("submitted", Readers) /\ Store(entries')
        BY <1>1, SubmitStores DEF Change
    <2>3. Holds(entries, entries', f)
        BY <2>1 DEF Holds, Found
    <2>4. "submitted" \in MovesInto(f)
        BY DEF MovesInto
    <2> QED BY <2>2, <2>3, <2>4 DEF Kinds, Readers
<1>2. CASE Flip
    <2>1. PICK i \in DOMAIN entries :
             /\ Same(entries, entries', i) /\ Store(entries')
             /\ entries'[i].internal = ~entries[i].internal
             /\ entries'[i].status = entries[i].status /\ entries'[i].votes = entries[i].votes
             /\ Change(IF entries[i].internal THEN "published" ELSE "hidden", Readers)
        BY <1>2, FlipStores
    <2> DEFINE kind == IF entries[i].internal THEN "published" ELSE "hidden"
    <2>2. entries[i].internal \in BOOLEAN
        BY DEF TypeInv, Store, Entry
    <2>3. /\ "hidden" \in Moves(f) <=> f.publicOnly
          /\ "published" \in MovesInto(f) <=> f.publicOnly
        BY DEF Moves, MovesInto
    <2>4. kind \notin Moves(f) => \A j \in DOMAIN entries :
                                    Matches(entries[j], f) => Matches(entries'[j], f)
        BY <2>1, <2>2, <2>3 DEF Same, Matches
    <2>5. kind \notin Moves(f) \cup MovesInto(f) =>
            \A j \in DOMAIN entries : Matches(entries'[j], f) => Matches(entries[j], f)
        BY <2>1, <2>2, <2>3 DEF Same, Matches
    <2>6. \A j \in DOMAIN entries : entries'[j].created = entries[j].created
                                    /\ entries'[j].votes = entries[j].votes
        BY <2>1 DEF Same
    <2>7. kind \notin Moves(f) => Holds(entries, entries', f)
        BY <2>1, <2>4, <2>6 DEF Holds, Found, Same
    <2>8. kind \notin Moves(f) \cup MovesInto(f) => Found(entries, f) = Found(entries', f)
        BY <2>1, <2>4, <2>5 DEF Found, Same
    <2>9. Written(kind, Readers) /\ kind \in Kinds
        BY <2>1 DEF Change, Kinds
    <2> HIDE DEF kind
    <2> QED BY <2>1, <2>7, <2>8, <2>9
<1>3. CASE Close
    <2>1. PICK i \in DOMAIN entries :
             /\ Same(entries, entries', i) /\ Store(entries')
             /\ entries[i].status \notin Closed /\ entries'[i].status = "completed"
             /\ entries'[i].internal = entries[i].internal /\ entries'[i].votes = entries[i].votes
             /\ Change("closed", {"listing", "dashboard"})
        BY <1>3, CloseStores
    <2>2. /\ "closed" \in Moves(f) <=> IF f.status = Empty THEN f.openOnly ELSE f.status \notin Closed
          /\ "closed" \in MovesInto(f) <=> f.status = "completed"
        BY DEF Moves, MovesInto
    <2>3. "closed" \notin Moves(f) => \A j \in DOMAIN entries :
                                        Matches(entries[j], f) => Matches(entries'[j], f)
        BY <2>1, <2>2 DEF Same, Matches
    <2>4. "closed" \notin Moves(f) \cup MovesInto(f) =>
            \A j \in DOMAIN entries : Matches(entries'[j], f) => Matches(entries[j], f)
        BY <2>1, <2>2 DEF Same, Matches
    <2>5. \A j \in DOMAIN entries : entries'[j].created = entries[j].created
                                    /\ entries'[j].votes = entries[j].votes
        BY <2>1 DEF Same
    <2>6. "closed" \notin Moves(f) => Holds(entries, entries', f)
        BY <2>1, <2>3, <2>5 DEF Holds, Found, Same
    <2>7. "closed" \notin Moves(f) \cup MovesInto(f) => Found(entries, f) = Found(entries', f)
        BY <2>1, <2>3, <2>4 DEF Found, Same
    <2>8. Written("closed", {"listing", "dashboard"}) /\ "closed" \in Kinds
        BY <2>1 DEF Change, Kinds
    <2> QED BY <2>1, <2>6, <2>7, <2>8 DEF Readers
<1>4. CASE Vote
    <2>1. PICK i \in DOMAIN entries :
             /\ Same(entries, entries', i) /\ Store(entries')
             /\ entries'[i].status = entries[i].status
             /\ entries'[i].internal = entries[i].internal
             /\ Change("voted", {"listing"})
        BY <1>4, VoteStores
    <2>2. "voted" \in Moves(f) <=> f.sort = "top"
        BY DEF Moves
    <2>3. \A j \in DOMAIN entries : Matches(entries[j], f) <=> Matches(entries'[j], f)
        BY <2>1 DEF Same, Matches
    <2>4. Found(entries, f) = Found(entries', f)
        BY <2>1, <2>3 DEF Found, Same
    <2>5. "voted" \notin Moves(f) => Holds(entries, entries', f)
        BY <2>1, <2>2, <2>4 DEF Holds, Found, Same
    <2>6. Written("voted", {"listing"}) /\ "voted" \in Kinds
        BY <2>1 DEF Change, Kinds
    <2> QED BY <2>1, <2>4, <2>5, <2>6 DEF Readers
<1>5. CASE FlipComment
    <2>1. UNCHANGED entries /\ Written("comment", {"comments"})
        BY <1>5, CommentStores
    <2>2. Store(entries')
        BY <2>1 DEF TypeInv, Store
    <2>3. Holds(entries, entries', f) /\ Found(entries, f) = Found(entries', f)
        BY <2>1 DEF Holds
    <2> QED BY <2>1, <2>2, <2>3 DEF Kinds, Readers
<1> QED BY <1>1, <1>2, <1>3, <1>4, <1>5 DEF Writing

\* And to the keys by which users are sorted.
LEMMA WritesKeepKeys ==
    ASSUME TypeInv, NEW f, reader.op = "users", Writing
    PROVE  \E kind \in Kinds, readers \in SUBSET Readers :
             /\ Written(kind, readers) /\ Store(entries')
             /\ kind \notin Moves(f) =>
                  \A u \in DOMAIN Accounts : SortKey(entries, u, f.sort) = SortKey(entries', u, f.sort)
<1>1. ASSUME NEW i \in DOMAIN entries, Same(entries, entries', i), NEW u, NEW sort
      PROVE  SortKey(entries, u, sort) = SortKey(entries', u, sort)
    <2>1. {j \in DOMAIN entries : entries[j].user = u /\ KindBucket(entries[j].kind) \in CountColumn(sort)}
            = {j \in DOMAIN entries' : entries'[j].user = u /\ KindBucket(entries'[j].kind) \in CountColumn(sort)}
        BY <1>1 DEF Same
    <2> QED BY <2>1 DEF SortKey
<1>2. CASE Submit
    <2>1. Written("submitted", Readers) /\ Store(entries')
        BY <1>2, SubmitStores DEF Change
    <2>2. "submitted" \notin Moves(f) => CountColumn(f.sort) = {}
        BY DEF Moves
    <2>3. "submitted" \notin Moves(f) =>
            \A u \in DOMAIN Accounts : SortKey(entries, u, f.sort) = SortKey(entries', u, f.sort)
        BY <2>2 DEF SortKey
    <2> QED BY <2>1, <2>3 DEF Kinds, Readers
<1>3. CASE Flip \/ Close \/ Vote
    <2>1. PICK i \in DOMAIN entries, kind \in Kinds, readers \in SUBSET Readers :
            Same(entries, entries', i) /\ Store(entries') /\ Change(kind, readers)
        BY <1>3, FlipStores, CloseStores, VoteStores DEF Kinds, Readers
    <2>2. Written(kind, readers)
        BY <2>1 DEF Change
    <2> QED BY <1>1, <2>1, <2>2
<1>4. CASE FlipComment
    <2>1. UNCHANGED entries /\ Written("comment", {"comments"})
        BY <1>4, CommentStores
    <2>2. Store(entries') /\ \A u : SortKey(entries, u, f.sort) = SortKey(entries', u, f.sort)
        BY <2>1 DEF TypeInv, Store
    <2> QED BY <2>1, <2>2 DEF Kinds, Readers
<1> QED BY <1>2, <1>3, <1>4 DEF Writing

(* Of a listing: up to what place entries have been served; that whoever   *)
(* was listed at the start still is, and has been served if he is within;  *)
(* and, if nobody joined, that the walk has served the start of the list.  *)
Passed(r) == IF r.at = "entries" THEN (PageOf(r.f) - 1) * LimitOf(r.f)
                                 ELSE PageOf(r.f) * LimitOf(r.f)
NoneMissed(r, c, w) == /\ ToSet(w) \subseteq Found(c, r.f)
                       /\ \A i \in ToSet(w) : Spot(c, r.f, i) <= Passed(r) => i \in ToSet(r.got)
InTurn(r, c, w) == Listing(c, r.f) = w /\ r.got = Served(w, Passed(r))
ListWalk(r, c, s, out, in) ==
  r.op = "listing" =>
    /\ r.at = "done" => CountEntries(c, r.f) <= Passed(r)
    /\ s.writes \cap out = {} => NoneMissed(r, c, s.whole)
    /\ s.writes \cap (out \cup in) = {} => InTurn(r, c, s.whole)
UserWalk(r, c, s, out) ==
  r.op = "users" /\ s.writes \cap out = {} =>
    /\ UserRows(c, r.f) = s.whole
    /\ r.got = IF r.at = "done" THEN s.whole
                                ELSE Served(s.whole, (PageOf(r.f) - 1) * LimitOf(r.f))
WalkInv == /\ ListWalk(reader, entries, since, Moves(reader.f), MovesInto(reader.f))
           /\ UserWalk(reader, entries, since, Moves(reader.f))

LEMMA InitWalk == Init => WalkInv
BY DEF Init, WalkInv, ListWalk, UserWalk, Idle

\* Who does not walk is no concern here.
LEMMA OthersWalk ==
    ASSUME reader'.op \notin {"listing", "users"}
    PROVE  WalkInv'
BY DEF WalkInv, ListWalk, UserWalk

LEMMA AskListingWalks ==
    ASSUME TypeInv, AskListing
    PROVE  WalkInv'
<1>1. PICK f \in Walks :
        Ask([op |-> "listing", at |-> "entries", f |-> f, got |-> <<>>], Listing(entries, f))
    BY DEF AskListing
<1> DEFINE r == [op |-> "listing", at |-> "entries", f |-> f, got |-> <<>>]
           w == Listing(entries, f)
<1>2. /\ reader' = r /\ entries' = entries
      /\ since' = [entries |-> PublicEntries(entries), comments |-> PublicComments(comments),
                   whole |-> w, writes |-> {}]
    BY <1>1 DEF Ask
<1>3. f \in EntryListFilter /\ f.page \in 0..1
    BY ConstantsAssumption
<1>4. f.page \in Nat /\ f.limit \in Int
    BY <1>3 DEF EntryListFilter
<1>5. LimitOf(f) \in Nat \ {0} /\ PageOf(f) = 1
    BY <1>3, <1>4, LimitsHold DEF PageOf
<1>6. Passed(r) = 0
    BY <1>5 DEF Passed
<1>7. w \in Seq(EntryIds) /\ ToSet(w) = Found(entries, f)
    BY ListingTyped DEF TypeInv
<1>8. Served(w, 0) = <<>>
    <2> HIDE DEF w
    <2> QED BY <1>7, ServedEnds
<1>9. InTurn(r, entries, w)
    BY <1>6, <1>8 DEF InTurn
<1>10. NoneMissed(r, entries, w)
    <2>1. ASSUME NEW i \in ToSet(w) PROVE ~(Spot(entries, f, i) <= 0)
        <3>1. Spot(entries, f, i) \in 1..CountEntries(entries, f) /\ CountEntries(entries, f) \in Nat
            BY <1>7, <2>1, SpotIs, ListingTyped DEF TypeInv
        <3> QED BY <3>1
    <2> QED BY <1>6, <1>7, <2>1 DEF NoneMissed
<1> HIDE DEF w
<1>11. r.op = "listing" /\ r.at = "entries"
    OBVIOUS
<1> HIDE DEF r
<1>12. since'.whole = w
    BY <1>2
<1> QED BY <1>2, <1>9, <1>10, <1>11, <1>12 DEF WalkInv, ListWalk, UserWalk

LEMMA AskUsersWalks ==
    ASSUME TypeInv, AskUsers
    PROVE  WalkInv'
<1>1. PICK f \in Rosters :
        Ask([op |-> "users", at |-> "users", f |-> f, got |-> <<>>], UserRows(entries, f))
    BY DEF AskUsers
<1> DEFINE r == [op |-> "users", at |-> "users", f |-> f, got |-> <<>>]
           w == UserRows(entries, f)
<1>2. /\ reader' = r /\ entries' = entries
      /\ since' = [entries |-> PublicEntries(entries), comments |-> PublicComments(comments),
                   whole |-> w, writes |-> {}]
    BY <1>1 DEF Ask
<1>3. f \in UserListFilter /\ f.page \in 0..1
    BY ConstantsAssumption
<1>4. f.page \in Nat /\ f.limit \in Int
    BY <1>3 DEF UserListFilter
<1>5. LimitOf(f) \in Nat \ {0} /\ PageOf(f) = 1
    BY <1>3, <1>4, LimitsHold DEF PageOf
<1>6. (PageOf(f) - 1) * LimitOf(f) = 0
    BY <1>5
<1>7. w \in Seq(DOMAIN Accounts)
    BY RowsTyped DEF TypeInv
<1> HIDE DEF w
<1>8. Served(w, 0) = <<>>
    BY <1>7, ServedEnds
<1>9. since'.whole = w
    BY <1>2
<1>10. UserWalk(reader', entries', since', Moves(reader.f)')
    BY <1>2, <1>6, <1>8, <1>9 DEF UserWalk, w
<1> QED BY <1>2, <1>10 DEF WalkInv, ListWalk

\* What moves a listing does not hang on its page.
LEMMA MovesStay ==
    ASSUME reader'.op = reader.op, reader'.f.sort = reader.f.sort,
           reader'.f.publicOnly = reader.f.publicOnly, reader'.f.status = reader.f.status,
           reader'.f.openOnly = reader.f.openOnly
    PROVE  Moves(reader.f)' = Moves(reader.f) /\ MovesInto(reader.f)' = MovesInto(reader.f)
BY DEF Moves, MovesInto

LEMMA ReadPageWalks ==
    ASSUME TypeInv, WalkInv, ReadPage
    PROVE  WalkInv'
<1> DEFINE f == reader.f
           l == ListEntries(entries, f)
           r == [reader EXCEPT !.at = "count", !.got = @ \o l]
           w == since.whole
           L == LimitOf(f)
           p == PageOf(f)
<1>1. /\ reader \in Listers /\ reader.op = "listing" /\ reader.at = "entries"
      /\ reader' = r /\ entries' = entries /\ since' = since /\ Fits(reader)
      /\ reader.got \in Seq(EntryIds) /\ reader.f \in EntryListFilter
    BY WhoReads DEF ReadPage, Continue, TypeInv, Listers
<1>2. r.op = "listing" /\ r.at = "count" /\ r.f = f /\ r.got = reader.got \o l
    BY <1>1 DEF Listers
<1>3. f.limit \in Int /\ f.page \in Nat
    BY <1>1 DEF Fits, EntryListFilter
<1>4. L \in Nat \ {0} /\ p \in Nat \ {0}
    BY <1>3, LimitsHold
<1>5. l \in Seq(EntryIds) /\ l = Slice(Listing(entries, f), p, L)
    BY <1>3, ListEntriesTyped DEF TypeInv, ListEntries
<1>6. ToSet(r.got) = ToSet(reader.got) \cup ToSet(l)
    <2> HIDE DEF l, r
    <2> QED BY <1>1, <1>2, <1>5, ToSetConcat
<1> HIDE DEF r, l
<1>7. Passed(reader) = (p - 1) * L /\ Passed(r) = p * L
    BY <1>1, <1>2 DEF Passed
<1>8. ASSUME NoneMissed(reader, entries, w) PROVE NoneMissed(r, entries, w)
    <2>1. ToSet(w) \subseteq Found(entries, f)
        BY <1>8 DEF NoneMissed
    <2>2. ASSUME NEW i \in ToSet(w), Spot(entries, f, i) <= p * L PROVE i \in ToSet(r.got)
        <3>1. Spot(entries, f, i) \in Int
            BY <2>1, SpotIs, ListingTyped DEF TypeInv
        <3>2. CASE Spot(entries, f, i) <= (p - 1) * L
            BY <1>6, <1>7, <1>8, <3>2 DEF NoneMissed
        <3>3. CASE (p - 1) * L < Spot(entries, f, i)
            <4>1. i \in ToSet(l)
                BY <1>3, <2>1, <2>2, <3>3, PageServes DEF TypeInv, l
            <4> QED BY <1>6, <4>1
        <3>4. (p - 1) * L \in Int
            BY <1>4, PageNumbers
        <3> QED BY <3>1, <3>2, <3>3, <3>4
    <2> QED BY <1>2, <1>7, <2>1, <2>2 DEF NoneMissed
<1>9. ASSUME InTurn(reader, entries, w) PROVE InTurn(r, entries, w)
    <2>1. Listing(entries, f) = w /\ reader.got = Served(w, (p - 1) * L)
        BY <1>7, <1>9 DEF InTurn
    <2>2. w \in Seq(EntryIds)
        BY <2>1, ListingTyped DEF TypeInv
    <2>3. Served(w, (p - 1) * L) \o Slice(w, p, L) = Served(w, p * L)
        <3> HIDE DEF w, p, L
        <3> QED BY <1>4, <2>2, ServedPages
    <2> QED BY <1>2, <1>5, <1>7, <2>1, <2>3 DEF InTurn
<1>10. Moves(reader.f)' = Moves(reader.f) /\ MovesInto(reader.f)' = MovesInto(reader.f)
    BY <1>1, <1>2, MovesStay
<1>11. ListWalk(r, entries, since, Moves(f), MovesInto(f))
    BY <1>1, <1>2, <1>8, <1>9 DEF WalkInv, ListWalk
<1> QED BY <1>1, <1>2, <1>10, <1>11 DEF WalkInv, ListWalk, UserWalk

LEMMA SamePages ==
    ASSUME NEW f \in EntryListFilter, NEW n \in Nat, NEW c
    PROVE  /\ Found(c, [f EXCEPT !.page = n]) = Found(c, f)
           /\ Listing(c, [f EXCEPT !.page = n]) = Listing(c, f)
           /\ \A i : Spot(c, [f EXCEPT !.page = n], i) = Spot(c, f, i)
<1> DEFINE g == [f EXCEPT !.page = n]
<1>1. /\ g.search = f.search /\ g.publicOnly = f.publicOnly /\ g.include = f.include
      /\ g.owner = f.owner /\ g.kind = f.kind /\ g.status = f.status
      /\ g.openOnly = f.openOnly /\ g.topic = f.topic /\ g.release = f.release /\ g.sort = f.sort
    BY DEF EntryListFilter
<1> HIDE DEF g
<1>2. Found(c, g) = Found(c, f)
    BY <1>1 DEF Found, Matches
<1>3. Listing(c, g) = Listing(c, f) /\ \A i : Spot(c, g, i) = Spot(c, f, i)
    BY <1>1, <1>2 DEF Listing, Spot
<1> QED BY <1>2, <1>3 DEF g

LEMMA CountPageWalks ==
    ASSUME TypeInv, WalkInv, CountPage
    PROVE  WalkInv'
<1> DEFINE f == reader.f
           L == LimitOf(f)
           p == PageOf(f)
           g == [f EXCEPT !.page = p + 1]
           w == since.whole
<1>1. /\ reader \in Listers /\ reader.op = "listing" /\ reader.at = "count"
      /\ reader.f \in EntryListFilter /\ Fits(reader)
      /\ entries' = entries /\ since' = since
    BY WhoReads DEF CountPage, Continue, TypeInv, Listers
<1>2. f.limit \in Int /\ f.page \in Nat
    BY <1>1 DEF Fits, EntryListFilter
<1>3. L \in Nat \ {0} /\ p \in Nat \ {0} /\ p + 1 \in Nat
    BY <1>2, LimitsHold
<1>4. Passed(reader) = p * L
    BY <1>1 DEF Passed
<1>5. CASE HasMore(CountEntries(entries, f), f)
    <2>1. reader' = [reader EXCEPT !.at = "entries", !.f.page = p + 1]
        BY <1>5 DEF CountPage, Continue
    <2>2. reader' = [reader EXCEPT !.at = "entries", !.f = g]
        BY <1>1, <2>1 DEF Listers, EntryListFilter
    <2>3. /\ reader'.op = "listing" /\ reader'.at = "entries" /\ reader'.f = g
          /\ reader'.got = reader.got
        BY <1>1, <2>2 DEF Listers
    <2>4. g.page = p + 1 /\ g.limit = f.limit /\ g.sort = f.sort /\ g.publicOnly = f.publicOnly
        BY <1>1, <1>3, EntryPageTurned
    <2>5. g.status = f.status /\ g.openOnly = f.openOnly
        BY <1>1 DEF EntryListFilter
    <2>6. Found(entries, g) = Found(entries, f) /\ Listing(entries, g) = Listing(entries, f)
          /\ \A i : Spot(entries, g, i) = Spot(entries, f, i)
        BY <1>1, <1>3, SamePages
    <2> HIDE DEF g
    <2>7. PageOf(g) = p + 1 /\ LimitOf(g) = L
        BY <1>3, <2>4 DEF PageOf, LimitOf
    <2>8. Passed(reader') = Passed(reader)
        <3>1. ((p + 1) - 1) * L = p * L
            BY <1>3, PageNumbers
        <3> QED BY <1>4, <2>3, <2>7, <3>1 DEF Passed
    <2>9. NoneMissed(reader, entries, w) => NoneMissed(reader', entries, w)
        BY <2>3, <2>6, <2>8 DEF NoneMissed
    <2>10. InTurn(reader, entries, w) => InTurn(reader', entries, w)
        BY <2>3, <2>6, <2>8 DEF InTurn
    <2>11. Moves(reader.f)' = Moves(reader.f) /\ MovesInto(reader.f)' = MovesInto(reader.f)
        BY <1>1, <2>3, <2>4, <2>5, MovesStay
    <2> QED BY <1>1, <2>3, <2>9, <2>10, <2>11 DEF WalkInv, ListWalk, UserWalk
<1>6. CASE ~HasMore(CountEntries(entries, f), f)
    <2>1. reader' = [reader EXCEPT !.at = "done"]
        BY <1>6 DEF CountPage, Continue
    <2>2. /\ reader'.op = "listing" /\ reader'.at = "done" /\ reader'.f = f
          /\ reader'.got = reader.got
        BY <1>1, <2>1 DEF Listers
    <2>3. Passed(reader') = p * L
        BY <2>2 DEF Passed
    <2>4. CountEntries(entries, f) <= p * L
        <3>1. CountEntries(entries, f) \in Nat
            BY ListingTyped DEF TypeInv
        <3>2. p * L \in Nat
            BY <1>3, PageNumbers
        <3> QED BY <1>6, <3>1, <3>2 DEF HasMore
    <2>5. Moves(reader.f)' = Moves(reader.f) /\ MovesInto(reader.f)' = MovesInto(reader.f)
        BY <1>1, <2>2, MovesStay
    <2>6. NoneMissed(reader, entries, w) => NoneMissed(reader', entries, w)
        BY <1>4, <2>2, <2>3 DEF NoneMissed
    <2>7. InTurn(reader, entries, w) => InTurn(reader', entries, w)
        BY <1>4, <2>2, <2>3 DEF InTurn
    <2> QED BY <1>1, <2>2, <2>3, <2>4, <2>5, <2>6, <2>7 DEF WalkInv, ListWalk, UserWalk
<1> QED BY <1>5, <1>6

LEMMA ReadUsersWalks ==
    ASSUME TypeInv, WalkInv, ReadUsers
    PROVE  WalkInv'
<1> DEFINE f == reader.f
           rows == UserRows(entries, f)
           p == PageOf(f)
           L == LimitOf(f)
           end == Min({p * L, Len(rows)})
           b == reader.got \o Slice(rows, p, L)
           a == IF end < Len(rows) THEN "users" ELSE "done"
           g == [f EXCEPT !.page = p + 1]
           w == since.whole
<1>1. /\ reader \in Rosterers /\ reader.op = "users" /\ reader.at = "users"
      /\ reader.f \in UserListFilter /\ Fits(reader)
      /\ entries' = entries /\ since' = since
      /\ reader' = [reader EXCEPT !.got = b, !.at = a, !.f.page = p + 1]
    <2>1. reader.op = "users" /\ reader.at = "users"
        BY DEF ReadUsers
    <2>2. reader \in Rosterers
        BY <2>1, WhoReads DEF TypeInv
    <2> QED BY <2>1, <2>2 DEF ReadUsers, Continue, TypeInv, Rosterers
<1>2. f.limit \in Int /\ f.page \in Nat
    BY <1>1 DEF Fits, UserListFilter
<1>3. L \in Nat \ {0} /\ p \in Nat \ {0} /\ p + 1 \in Nat
    BY <1>2, LimitsHold
<1>4. rows \in Seq(DOMAIN Accounts)
    BY RowsTyped DEF TypeInv
<1>5. reader'.op = "users" /\ reader'.got = b /\ reader'.at = a /\ reader'.f = g
    <2>1. reader' = [reader EXCEPT !.got = b, !.at = a, !.f = g]
        <3> HIDE DEF a, b
        <3> QED BY <1>1 DEF Rosterers, UserListFilter
    <2> HIDE DEF a, b, g
    <2> QED BY <1>1, <2>1 DEF Rosterers
<1>6. g.page = p + 1 /\ SameFilter(f, g) /\ g.limit = f.limit
    BY <1>1, <1>3, UserPageTurned
<1> HIDE DEF g, b
<1>7. PageOf(g) = p + 1 /\ LimitOf(g) = L
    BY <1>3, <1>6 DEF PageOf, LimitOf
<1>8. UserRows(entries, g) = rows
    BY <1>6, RowsKept DEF TypeInv
<1>9. Moves(reader.f)' = Moves(f)
    BY <1>1, <1>5, <1>6 DEF Moves, SameFilter
<1> HIDE DEF rows
<1>10. ASSUME since.writes \cap Moves(f) = {}
       PROVE  /\ UserRows(entries, g) = w
              /\ b = IF a = "done" THEN w ELSE Served(w, (PageOf(g) - 1) * LimitOf(g))
    <2>1. rows = w /\ reader.got = Served(rows, (p - 1) * L)
        BY <1>1, <1>10 DEF WalkInv, UserWalk, rows
    <2>2. b = Served(rows, p * L)
        <3>1. Served(rows, (p - 1) * L) \o Slice(rows, p, L) = Served(rows, p * L)
            <4> HIDE DEF p, L
            <4> QED BY <1>3, <1>4, ServedPages
        <3> QED BY <2>1, <3>1 DEF b
    <2>3. ((p + 1) - 1) * L = p * L /\ p * L \in Nat
        BY <1>3, PageNumbers
    <2>4. a = "done" => Served(rows, p * L) = rows
        <3>1. Len(rows) \in Nat
            BY <1>4, LenProperties
        <3>2. end = IF p * L <= Len(rows) THEN p * L ELSE Len(rows)
            BY <2>3, <3>1, MinOfTwo
        <3> DEFINE k == p * L
        <3>3. k \in Nat
            BY <2>3
        <3> HIDE DEF k
        <3>4. a = "done" => Len(rows) <= k
            BY <3>1, <3>2, <3>3 DEF k
        <3> HIDE DEF a
        <3>5. Len(rows) <= k => Served(rows, k) = rows
            BY <1>4, <3>3, ServedEnds
        <3> QED BY <3>4, <3>5 DEF k
    <2> HIDE DEF a
    <2> QED BY <1>7, <1>8, <2>1, <2>2, <2>3, <2>4
<1> HIDE DEF a
<1> QED BY <1>1, <1>5, <1>9, <1>10 DEF WalkInv, ListWalk, UserWalk

LEMMA WritingWalks ==
    ASSUME TypeInv, WalkInv, Writing
    PROVE  WalkInv'
<1> DEFINE f == reader.f
           w == since.whole
<1>1. ASSUME NEW kind, NEW readers, Written(kind, readers)
      PROVE  /\ reader' = reader /\ reader.at # "done"
             /\ since'.whole = w /\ since'.writes = since.writes \cup {kind}
    BY <1>1 DEF Written, TypeInv, SinceType
<1>2. CASE reader.op = "listing"
    <2>1. f \in EntryListFilter /\ (f.publicOnly => f.include = Empty) /\ reader \in Listers
        BY <1>2, WhoReads DEF TypeInv, Fits, Listers
    <2>2. PICK kind \in Kinds, readers \in SUBSET Readers :
             /\ Written(kind, readers) /\ Store(entries')
             /\ kind \notin Moves(f) => Holds(entries, entries', f)
             /\ kind \notin Moves(f) \cup MovesInto(f) => Found(entries, f) = Found(entries', f)
        BY <1>2, <2>1, WritesHold
    <2>3. /\ reader' = reader /\ reader.at # "done"
          /\ since'.whole = w /\ since'.writes = since.writes \cup {kind}
        BY <1>1, <2>2
    <2>4. Moves(reader.f)' = Moves(f) /\ MovesInto(reader.f)' = MovesInto(f)
        BY <2>3, MovesStay
    <2>5. ASSUME Holds(entries, entries', f), NoneMissed(reader, entries, w)
          PROVE  NoneMissed(reader, entries', w)
        <3>1. ToSet(w) \subseteq Found(entries, f) /\ Found(entries, f) \subseteq Found(entries', f)
            BY <2>5 DEF NoneMissed, Holds
        <3>2. ASSUME NEW i \in ToSet(w), Spot(entries', f, i) <= Passed(reader)
              PROVE  i \in ToSet(reader.got)
            <4>1. Spot(entries, f, i) <= Spot(entries', f, i)
                BY <2>2, <2>5, <3>1, SpotGrows DEF TypeInv
            <4>2. Spot(entries, f, i) \in Int /\ Spot(entries', f, i) \in Int
                BY <2>2, <3>1, SpotIs, ListingTyped DEF TypeInv
            <4>3. Passed(reader) \in Int
                <5>1. f.limit \in Int /\ f.page \in Nat
                    BY <1>2, <2>1 DEF TypeInv, Fits, EntryListFilter
                <5>2. LimitOf(f) \in Nat \ {0} /\ PageOf(f) \in Nat \ {0}
                    BY <5>1, LimitsHold
                <5>3. (PageOf(f) - 1) * LimitOf(f) \in Int /\ PageOf(f) * LimitOf(f) \in Int
                    BY <5>2, PageNumbers
                <5> QED BY <5>3 DEF Passed
            <4>4. Spot(entries, f, i) <= Passed(reader)
                BY <3>2, <4>1, <4>2, <4>3
            <4> QED BY <2>5, <4>4 DEF NoneMissed
        <3> QED BY <3>1, <3>2 DEF NoneMissed
    <2>6. ASSUME Holds(entries, entries', f), Found(entries, f) = Found(entries', f),
                 InTurn(reader, entries, w)
          PROVE  InTurn(reader, entries', w)
        <3>1. Listing(entries, f) = Listing(entries', f)
            BY <2>2, <2>6, ListingSame DEF TypeInv
        <3> QED BY <2>6, <3>1 DEF InTurn
    <2>7. ListWalk(reader, entries, since, Moves(f), MovesInto(f))
        BY DEF WalkInv
    <2>8. ListWalk(reader', entries', since', Moves(f), MovesInto(f))
        BY <1>2, <2>2, <2>3, <2>5, <2>6, <2>7 DEF ListWalk
    <2> QED BY <1>2, <2>3, <2>4, <2>8 DEF WalkInv, UserWalk
<1>3. CASE reader.op = "users"
    <2>1. PICK kind \in Kinds, readers \in SUBSET Readers :
             /\ Written(kind, readers) /\ Store(entries')
             /\ kind \notin Moves(f) =>
                  \A u \in DOMAIN Accounts : SortKey(entries, u, f.sort) = SortKey(entries', u, f.sort)
        BY <1>3, WritesKeepKeys
    <2>2. /\ reader' = reader /\ reader.at # "done"
          /\ since'.whole = w /\ since'.writes = since.writes \cup {kind}
        BY <1>1, <2>1
    <2>3. Moves(reader.f)' = Moves(f)
        BY <2>2, MovesStay
    <2>4. kind \notin Moves(f) => UserRows(entries', f) = UserRows(entries, f)
        BY <2>1, RowsKept DEF TypeInv, SameFilter
    <2>5. UserWalk(reader, entries, since, Moves(f))
        BY DEF WalkInv
    <2>6. UserWalk(reader', entries', since', Moves(f))
        BY <2>2, <2>4, <2>5 DEF UserWalk
    <2> QED BY <1>3, <2>2, <2>3, <2>6 DEF WalkInv, ListWalk
<1>4. CASE reader.op \notin {"listing", "users"}
    <2>1. reader' = reader
        BY DEF Writing, Submit, Flip, Close, Vote, FlipComment, Change, Written
    <2> QED BY <1>4, <2>1, OthersWalk
<1> QED BY <1>2, <1>3, <1>4

LEMMA NextWalks == TypeInv /\ WalkInv /\ [Next]_vars => WalkInv'
<1> SUFFICES ASSUME TypeInv, WalkInv, [Next]_vars PROVE WalkInv'
    OBVIOUS
<1>1. CASE AskListing \/ ReadPage \/ CountPage
    BY <1>1, AskListingWalks, ReadPageWalks, CountPageWalks
<1>2. CASE AskUsers \/ ReadUsers
    BY <1>2, AskUsersWalks, ReadUsersWalks
<1>3. CASE AskEntry \/ AskComments \/ AskChangelog \/ AskRelease \/ AskSimilar \/ AskDashboard
    <2>1. reader'.op \in {"entry", "comments", "changelog", "similar", "dashboard"}
        BY <1>3 DEF AskEntry, AskComments, AskChangelog, AskRelease, AskSimilar, AskDashboard, Ask
    <2> QED BY <2>1, OthersWalk
<1>4. CASE ReadComments \/ ReadRelease \/ AnswerSimilar \/ ReadFigure
    <2>1. reader.op \in {"comments", "changelog", "similar", "dashboard"}
        BY <1>4 DEF ReadComments, ReadRelease, AnswerSimilar, ReadFigure
    <2>2. reader'.op = reader.op
        <3>1. CASE ReadComments
            <4>1. reader \in CommentReaders
                BY <3>1, WhoReads DEF ReadComments, TypeInv
            <4> QED BY <3>1, <4>1 DEF ReadComments, Continue, CommentReaders
        <3>2. CASE ReadRelease
            <4>1. reader \in ChangelogReaders
                BY <3>2, WhoReads DEF ReadRelease, TypeInv
            <4> QED BY <3>2, <4>1 DEF ReadRelease, Continue, ChangelogReaders
        <3>3. CASE AnswerSimilar
            <4>1. reader \in SimilarReaders
                BY <3>3, WhoReads DEF AnswerSimilar, TypeInv
            <4> QED BY <3>3, <4>1 DEF AnswerSimilar, Continue, SimilarReaders
        <3>4. CASE ReadFigure
            <4>1. reader \in DashboardReaders
                BY <3>4, WhoReads DEF ReadFigure, TypeInv
            <4> QED BY <3>4, <4>1 DEF ReadFigure, Continue, DashboardReaders
        <3> QED BY <1>4, <3>1, <3>2, <3>3, <3>4
    <2> QED BY <2>1, <2>2, OthersWalk
<1>5. CASE Writing
    BY <1>5, WritingWalks
<1>6. CASE UNCHANGED vars
    <2>1. entries' = entries /\ reader' = reader /\ since' = since
        BY <1>6 DEF vars
    <2>2. Moves(reader.f)' = Moves(reader.f) /\ MovesInto(reader.f)' = MovesInto(reader.f)
        BY <2>1, MovesStay
    <2> QED BY <2>1, <2>2 DEF WalkInv
<1> QED BY <1>1, <1>2, <1>3, <1>4, <1>5, <1>6 DEF Next, Reading

(* Page after page, with anything written in between: if nothing took an   *)
(* entry out of the listing or moved it in the order, a walk serves all    *)
(* that were listed at its start; if nothing joined the listing either, it *)
(* serves them once each and in order.  The same for the list of users.    *)
THEOREM WalksServeAll == Spec => []WalksMissNothing
<1>1. TypeInv /\ WalkInv => WalksMissNothing
    <2> SUFFICES ASSUME TypeInv, WalkInv, reader.op \in {"listing", "users"}, reader.at = "done"
                 PROVE  /\ since.writes \cap Moves(reader.f) = {}
                             => ToSet(since.whole) \subseteq ToSet(reader.got)
                        /\ since.writes \cap (Moves(reader.f) \cup MovesInto(reader.f)) = {}
                             => reader.got = since.whole
        BY DEF WalksMissNothing
    <2> DEFINE f == reader.f
               w == since.whole
    <2>1. CASE reader.op = "listing"
        <3>1. f \in EntryListFilter /\ f.limit \in Int /\ f.page \in Nat
            BY <2>1, WhoReads DEF TypeInv, Fits, Listers, EntryListFilter
        <3>2. LimitOf(f) \in Nat \ {0} /\ PageOf(f) \in Nat \ {0}
            BY <3>1, LimitsHold
        <3>3. Passed(reader) \in Nat
            <4>1. PageOf(f) * LimitOf(f) \in Nat
                BY <3>2, PageNumbers
            <4> QED BY <4>1 DEF Passed
        <3>4. CountEntries(entries, f) <= Passed(reader) /\ CountEntries(entries, f) \in Nat
            BY <2>1, ListingTyped DEF TypeInv, WalkInv, ListWalk
        <3>5. ASSUME NoneMissed(reader, entries, w) PROVE ToSet(w) \subseteq ToSet(reader.got)
            <4> SUFFICES ASSUME NEW i \in ToSet(w) PROVE i \in ToSet(reader.got)
                OBVIOUS
            <4>1. i \in Found(entries, f)
                BY <3>5 DEF NoneMissed
            <4>2. Spot(entries, f, i) \in 1..CountEntries(entries, f)
                BY <4>1, SpotIs DEF TypeInv
            <4>3. Spot(entries, f, i) <= Passed(reader)
                BY <3>3, <3>4, <4>2
            <4> QED BY <3>5, <4>3 DEF NoneMissed
        <3>6. ASSUME InTurn(reader, entries, w) PROVE reader.got = w
            <4>1. w \in Seq(EntryIds) /\ Len(w) = CountEntries(entries, f)
                BY <3>6, ListingTyped DEF TypeInv, InTurn
            <4>2. Served(w, Passed(reader)) = w
                <5> HIDE DEF w
                <5> QED BY <3>3, <3>4, <4>1, ServedEnds
            <4> QED BY <3>6, <4>2 DEF InTurn
        <3> QED BY <2>1, <3>5, <3>6 DEF WalkInv, ListWalk
    <2>2. CASE reader.op = "users"
        BY <2>2 DEF WalkInv, UserWalk, MovesInto
    <2> QED BY <2>1, <2>2
<1> QED BY <1>1, InitWalk, NextWalks, ReadsTyped, PTL DEF Spec

-------------------------------------------------------------------------------
(* The dashboard.  Every entry is in one bucket.                           *)

LEMMA CutOff ==
    ASSUME NEW S, IsFiniteSet(S), NEW A, A \subseteq S
    PROVE  /\ IsFiniteSet(S \ A) /\ Cardinality(S) \in Nat /\ Cardinality(A) \in Nat
           /\ Cardinality(S \ A) \in Nat /\ Cardinality(S) = Cardinality(A) + Cardinality(S \ A)
<1>1. IsFiniteSet(A) /\ S \cap A = A
    BY FS_Subset
<1>2. IsFiniteSet(S \ A) /\ Cardinality(S \ A) = Cardinality(S) - Cardinality(A)
    BY <1>1, FS_Difference
<1>3. Cardinality(S) \in Nat /\ Cardinality(A) \in Nat /\ Cardinality(S \ A) \in Nat
    BY <1>1, <1>2, FS_CardinalityType
<1> QED BY <1>2, <1>3

LEMMA TypesAddUp ==
    ASSUME NEW c, Store(c)
    PROVE  TypesTotal(GroupByType(c)) = Cardinality(DOMAIN c)
<1> DEFINE S == DOMAIN c
           A(b) == {i \in DOMAIN c : KindBucket(c[i].kind) = b}
           F == A("feature-request")
           B == A("bug")
           P == A("support")
           O == A("other")
<1>1. /\ F \subseteq S /\ B \subseteq S \ F /\ P \subseteq (S \ F) \ B
      /\ O = ((S \ F) \ B) \ P
    BY DEF KindBucket, NamedKinds
<1>2. /\ GroupByType(c)["feature-request"] = Cardinality(F)
      /\ GroupByType(c)["bug"] = Cardinality(B)
      /\ GroupByType(c)["support"] = Cardinality(P)
      /\ GroupByType(c)["other"] = Cardinality(O)
    BY DEF GroupByType, ByKind, NamedKinds
<1>3. IsFiniteSet(S)
    BY DEF Store
<1> HIDE DEF S, A, F, B, P, O
<1>4. /\ Cardinality(S) = Cardinality(F) + Cardinality(S \ F) /\ IsFiniteSet(S \ F)
      /\ Cardinality(F) \in Nat /\ Cardinality(S) \in Nat
    BY <1>1, <1>3, CutOff
<1>5. /\ Cardinality(S \ F) = Cardinality(B) + Cardinality((S \ F) \ B) /\ IsFiniteSet((S \ F) \ B)
      /\ Cardinality(B) \in Nat /\ Cardinality(S \ F) \in Nat
    BY <1>1, <1>4, CutOff
<1>6. /\ Cardinality((S \ F) \ B) = Cardinality(P) + Cardinality(O)
      /\ Cardinality(P) \in Nat /\ Cardinality(O) \in Nat /\ Cardinality((S \ F) \ B) \in Nat
    BY <1>1, <1>5, CutOff
<1>7. Cardinality(S) = Cardinality(F) + Cardinality(B) + Cardinality(P) + Cardinality(O)
    BY <1>4, <1>5, <1>6
<1> QED BY <1>2, <1>7 DEF TypesTotal, S

LEMMA StatusesAddUp ==
    ASSUME NEW c, Store(c)
    PROVE  StatusesTotal(GroupByStatus(c)) = Cardinality(DOMAIN c)
<1> DEFINE S == DOMAIN c
           A(b) == {i \in DOMAIN c : StatusBucket(c[i].status) = b}
           N == A("new")
           E == A("evaluation")
           P == A("in-progress")
           D == A("completed")
           X == A("cancelled")
<1>1. /\ N \subseteq S /\ E \subseteq S \ N /\ P \subseteq (S \ N) \ E
      /\ D \subseteq ((S \ N) \ E) \ P /\ X = (((S \ N) \ E) \ P) \ D
    BY DEF StatusBucket, Statuses
<1>2. /\ GroupByStatus(c)["new"] = Cardinality(N)
      /\ GroupByStatus(c)["evaluation"] = Cardinality(E)
      /\ GroupByStatus(c)["in-progress"] = Cardinality(P)
      /\ GroupByStatus(c)["completed"] = Cardinality(D)
      /\ GroupByStatus(c)["cancelled"] = Cardinality(X)
    BY DEF GroupByStatus, Statuses
<1>3. IsFiniteSet(S)
    BY DEF Store
<1> HIDE DEF S, A, N, E, P, D, X
<1>4. /\ Cardinality(S) = Cardinality(N) + Cardinality(S \ N) /\ IsFiniteSet(S \ N)
      /\ Cardinality(N) \in Nat /\ Cardinality(S) \in Nat
    BY <1>1, <1>3, CutOff
<1>5. /\ Cardinality(S \ N) = Cardinality(E) + Cardinality((S \ N) \ E) /\ IsFiniteSet((S \ N) \ E)
      /\ Cardinality(E) \in Nat /\ Cardinality(S \ N) \in Nat
    BY <1>1, <1>4, CutOff
<1>6. /\ Cardinality((S \ N) \ E) = Cardinality(P) + Cardinality(((S \ N) \ E) \ P)
      /\ IsFiniteSet(((S \ N) \ E) \ P)
      /\ Cardinality(P) \in Nat /\ Cardinality((S \ N) \ E) \in Nat
    BY <1>1, <1>5, CutOff
<1>7. /\ Cardinality(((S \ N) \ E) \ P) = Cardinality(D) + Cardinality(X)
      /\ Cardinality(D) \in Nat /\ Cardinality(X) \in Nat /\ Cardinality(((S \ N) \ E) \ P) \in Nat
    BY <1>1, <1>6, CutOff
<1>8. Cardinality(S) = Cardinality(N) + Cardinality(E) + Cardinality(P) + Cardinality(D) + Cardinality(X)
    BY <1>4, <1>5, <1>6, <1>7
<1> QED BY <1>2, <1>8 DEF StatusesTotal, S

LEMMA PartsFit ==
    ASSUME NEW c, Store(c)
    PROVE  CountInternal(c) <= Cardinality(DOMAIN c) /\ CountClosed(c) <= Cardinality(DOMAIN c)
BY FS_Subset DEF CountInternal, CountClosed, Store

(* What has been read so far, told against the entries there are by now:   *)
(* entries are never deleted, so the figures can only have fallen behind.  *)
Figured(r, n, s) ==
  r.op = "dashboard" =>
    /\ r.at # "total" =>
         r.total <= n /\ ("submitted" \notin s.writes => r.total = n)
    /\ r.at \in {"closed", "types", "statuses", "done"} =>
         ("submitted" \notin s.writes => r.internal <= r.total)
    /\ r.at \in {"types", "statuses", "done"} =>
         ("submitted" \notin s.writes => r.closed <= r.total)
    /\ r.at \in {"statuses", "done"} =>
         /\ r.total <= TypesTotal(r.types) /\ TypesTotal(r.types) <= n
         /\ "submitted" \notin s.writes => TypesTotal(r.types) = r.total
    /\ r.at = "done" =>
         /\ TypesTotal(r.types) <= StatusesTotal(r.statuses)
         /\ "submitted" \notin s.writes => StatusesTotal(r.statuses) = r.total
FigureInv == Figured(reader, Cardinality(DOMAIN entries), since)

LEMMA ReadFigureFigures ==
    ASSUME TypeInv, FigureInv, ReadFigure
    PROVE  FigureInv'
<1> DEFINE n == Cardinality(DOMAIN entries)
           T == GroupByType(entries)
           S == GroupByStatus(entries)
<1>1. Store(entries)
    BY DEF TypeInv
<1>2. /\ reader \in DashboardReaders /\ reader.op = "dashboard"
      /\ entries' = entries /\ since' = since
    BY WhoReads DEF ReadFigure, Continue, TypeInv
<1>3. n \in Nat /\ TypesTotal(T) = n /\ StatusesTotal(S) = n
      /\ CountInternal(entries) <= n /\ CountClosed(entries) <= n
    BY <1>1, FiguresTyped, TypesAddUp, StatusesAddUp, PartsFit
<1>4. Figured(reader, n, since)
    BY DEF FigureInv
<1> HIDE DEF n, T, S
<1>5. CASE /\ reader.at = "total"
           /\ Continue([reader EXCEPT !.at = "internal", !.total = n])
    <2>1. reader'.at = "internal" /\ reader'.total = n
        BY <1>2, <1>5 DEF Continue, DashboardReaders
    <2> QED BY <1>2, <1>3, <2>1 DEF FigureInv, Figured, n
<1>6. CASE /\ reader.at = "internal"
           /\ Continue([reader EXCEPT !.at = "closed", !.internal = CountInternal(entries)])
    <2>1. reader'.at = "closed" /\ reader'.internal = CountInternal(entries)
          /\ reader'.total = reader.total
        BY <1>2, <1>6 DEF Continue, DashboardReaders
    <2>2. Figured(reader', n, since)
        BY <1>2, <1>3, <1>4, <1>6, <2>1 DEF Figured
    <2> QED BY <1>2, <2>2 DEF FigureInv, n
<1>7. CASE /\ reader.at = "closed"
           /\ Continue([reader EXCEPT !.at = "types", !.closed = CountClosed(entries)])
    <2>1. reader'.at = "types" /\ reader'.closed = CountClosed(entries)
          /\ reader'.total = reader.total /\ reader'.internal = reader.internal
        BY <1>2, <1>7 DEF Continue, DashboardReaders
    <2>2. Figured(reader', n, since)
        BY <1>2, <1>3, <1>4, <1>7, <2>1 DEF Figured
    <2> QED BY <1>2, <2>2 DEF FigureInv, n
<1>8. CASE reader.at = "types" /\ Continue([reader EXCEPT !.at = "statuses", !.types = T])
    <2>1. reader'.at = "statuses" /\ reader'.types = T
          /\ reader'.total = reader.total /\ reader'.internal = reader.internal
          /\ reader'.closed = reader.closed
        BY <1>2, <1>8 DEF Continue, DashboardReaders
    <2>2. Figured(reader', n, since)
        BY <1>2, <1>3, <1>4, <1>8, <2>1 DEF Figured
    <2> QED BY <1>2, <2>2 DEF FigureInv, n
<1>9. CASE reader.at = "statuses" /\ Continue([reader EXCEPT !.at = "done", !.statuses = S])
    <2>1. reader'.at = "done" /\ reader'.statuses = S /\ reader'.types = reader.types
          /\ reader'.total = reader.total /\ reader'.internal = reader.internal
          /\ reader'.closed = reader.closed
        BY <1>2, <1>9 DEF Continue, DashboardReaders
    <2>2. Figured(reader', n, since)
        BY <1>2, <1>3, <1>4, <1>9, <2>1 DEF Figured
    <2> QED BY <1>2, <2>2 DEF FigureInv, n
<1> QED BY <1>5, <1>6, <1>7, <1>8, <1>9 DEF ReadFigure, n, T, S

LEMMA WritingFigures ==
    ASSUME TypeInv, FigureInv, Writing
    PROVE  FigureInv'
<1> DEFINE n == Cardinality(DOMAIN entries)
<1>1. ASSUME NEW kind, NEW readers, Written(kind, readers)
      PROVE  reader' = reader /\ reader.at # "done" /\ since'.writes = since.writes \cup {kind}
    BY <1>1 DEF Written, TypeInv, SinceType
<1>2. Figured(reader, n, since)
    BY DEF FigureInv
<1>3. n \in Nat /\ IsFiniteSet(DOMAIN entries)
    BY FS_CardinalityType DEF TypeInv, Store
<1>4. CASE Submit
    <2>1. PICK i \in EntryIds \ DOMAIN entries : DOMAIN entries' = DOMAIN entries \cup {i}
        BY <1>4, SubmitStores
    <2>2. Cardinality(DOMAIN entries') = n + 1
        BY <1>3, <2>1, FS_AddElement
    <2>3. reader' = reader /\ reader.at # "done" /\ "submitted" \in since'.writes
        BY <1>1, <1>4, SubmitStores DEF Change
    <2>4. reader.op = "dashboard" => reader.total \in Nat
        BY WhoReads DEF TypeInv, DashboardReaders
    <2>5. reader.op = "dashboard" /\ reader.at = "statuses" => TypesTotal(reader.types) \in Nat
        <3>1. reader.op = "dashboard" /\ reader.at = "statuses" => reader.types \in Types
            BY DEF TypeInv, Fits
        <3> QED BY <3>1 DEF Types, TypesTotal, NamedKinds
    <2> HIDE DEF n
    <2>6. Figured(reader', n + 1, since')
        BY <1>2, <1>3, <2>3, <2>4, <2>5 DEF Figured
    <2> QED BY <2>2, <2>6 DEF FigureInv
<1>5. CASE Flip \/ Close \/ Vote
    <2>1. PICK i \in DOMAIN entries, kind \in Kinds, readers \in SUBSET Readers :
            Same(entries, entries', i) /\ Change(kind, readers)
        BY <1>5, FlipStores, CloseStores, VoteStores DEF Kinds, Readers
    <2>2. reader' = reader /\ since'.writes = since.writes \cup {kind}
        BY <1>1, <2>1 DEF Change
    <2>3. DOMAIN entries' = DOMAIN entries
        BY <2>1 DEF Same
    <2>4. Figured(reader', n, since')
        BY <1>2, <2>2 DEF Figured
    <2> QED BY <2>3, <2>4 DEF FigureInv
<1>6. CASE FlipComment
    <2>1. UNCHANGED entries /\ Written("comment", {"comments"})
        BY <1>6, CommentStores
    <2>2. reader' = reader /\ since'.writes = since.writes \cup {"comment"}
        BY <1>1, <2>1
    <2>3. Figured(reader', n, since')
        BY <1>2, <2>2 DEF Figured
    <2> QED BY <2>1, <2>3 DEF FigureInv
<1> QED BY <1>4, <1>5, <1>6 DEF Writing

LEMMA InitFigures == Init => FigureInv
BY DEF Init, FigureInv, Figured, Idle

LEMMA NextFigures == TypeInv /\ FigureInv /\ [Next]_vars => FigureInv'
<1> SUFFICES ASSUME TypeInv, FigureInv, [Next]_vars PROVE FigureInv'
    OBVIOUS
<1>1. ASSUME reader'.op # "dashboard" \/ reader'.at = "total" PROVE FigureInv'
    BY <1>1 DEF FigureInv, Figured
<1>2. CASE AskListing \/ AskUsers \/ AskEntry \/ AskComments \/ AskChangelog \/ AskRelease
             \/ AskSimilar \/ AskDashboard
    <2>1. reader'.op # "dashboard" \/ reader'.at = "total"
        BY <1>2 DEF AskListing, AskUsers, AskEntry, AskComments, AskChangelog, AskRelease,
                    AskSimilar, AskDashboard, Ask
    <2> QED BY <1>1, <2>1
<1>3. CASE ReadPage \/ CountPage \/ ReadUsers \/ ReadComments \/ ReadRelease \/ AnswerSimilar
    <2>1. CASE ReadPage \/ CountPage
        <3>1. reader \in Listers /\ reader.op = "listing"
            BY <2>1, WhoReads DEF ReadPage, CountPage, TypeInv
        <3>2. reader'.op = "listing"
            BY <2>1, <3>1 DEF ReadPage, CountPage, Continue, Listers
        <3> QED BY <1>1, <3>2
    <2>2. CASE ReadUsers
        <3>1. reader \in Rosterers /\ reader.op = "users"
            BY <2>2, WhoReads DEF ReadUsers, TypeInv
        <3>2. reader'.op = "users"
            BY <2>2, <3>1 DEF ReadUsers, Continue, Rosterers
        <3> QED BY <1>1, <3>2
    <2>3. CASE ReadComments
        <3>1. reader \in CommentReaders /\ reader.op = "comments"
            BY <2>3, WhoReads DEF ReadComments, TypeInv
        <3>2. reader'.op = "comments"
            BY <2>3, <3>1 DEF ReadComments, Continue, CommentReaders
        <3> QED BY <1>1, <3>2
    <2>4. CASE ReadRelease
        <3>1. reader \in ChangelogReaders /\ reader.op = "changelog"
            BY <2>4, WhoReads DEF ReadRelease, TypeInv
        <3>2. reader'.op = "changelog"
            BY <2>4, <3>1 DEF ReadRelease, Continue, ChangelogReaders
        <3> QED BY <1>1, <3>2
    <2>5. CASE AnswerSimilar
        <3>1. reader \in SimilarReaders /\ reader.op = "similar"
            BY <2>5, WhoReads DEF AnswerSimilar, TypeInv
        <3>2. reader'.op = "similar"
            BY <2>5, <3>1 DEF AnswerSimilar, Continue, SimilarReaders
        <3> QED BY <1>1, <3>2
    <2> QED BY <1>3, <2>1, <2>2, <2>3, <2>4, <2>5
<1>4. CASE ReadFigure
    BY <1>4, ReadFigureFigures
<1>5. CASE Writing
    BY <1>5, WritingFigures
<1>6. CASE UNCHANGED vars
    BY <1>6 DEF vars, FigureInv
<1> QED BY <1>2, <1>3, <1>4, <1>5, <1>6 DEF Next, Reading

(* The figures of the dashboard are queries of their own, between which    *)
(* entries come in: the later ones never fall short of the earlier, and if *)
(* none came in, they add up and nothing got by subtraction is negative.   *)
THEOREM TheDashboardAddsUp == Spec => []DashboardAddsUp
<1>1. FigureInv => DashboardAddsUp
    BY DEF FigureInv, Figured, DashboardAddsUp
<1> QED BY <1>1, InitFigures, NextFigures, ReadsTyped, PTL DEF Spec

-------------------------------------------------------------------------------
(* Slices: sequences that hold each element of a set once.                 *)

Enumerates(s, S) ==
  /\ s \in [1..Cardinality(S) -> S]
  /\ \A a, b \in 1..Cardinality(S) : a # b => s[a] # s[b]

LEMMA EnumerationIsASeq ==
    ASSUME NEW S, IsFiniteSet(S), NEW s, Enumerates(s, S)
    PROVE  /\ s \in Seq(S) /\ Len(s) = Cardinality(S) /\ Len(s) \in Nat /\ DOMAIN s = 1..Len(s)
           /\ ToSet(s) = S /\ \A x \in S : \E k \in 1..Len(s) : s[k] = x
<1> DEFINE n == Cardinality(S)
<1>1. n \in Nat /\ s \in [1..n -> S]
    BY FS_CardinalityType DEF Enumerates
<1>2. s \in Injection(1..n, S)
    BY DEF Enumerates, Injection, IsInjective
<1>3. IsFiniteSet(1..n) /\ Cardinality(1..n) = n
    BY <1>1, FS_Interval
<1>4. s \in Surjection(1..n, S)
    BY <1>2, <1>3, FS_Injection
<1>5. \A x \in S : \E k \in 1..n : s[k] = x
    BY <1>4 DEF Surjection
<1>6. ToSet(s) = S
    BY <1>1, <1>5 DEF ToSet
<1> QED BY <1>1, <1>5, <1>6

\* What is sorted holds each element once.
LEMMA OrderedEnumerates ==
    ASSUME NEW S, NEW R, IsFiniteSet(S), Orders(R, S), NEW s, Ordered(s, S, R)
    PROVE  Enumerates(s, S)
<1> DEFINE n == Cardinality(S)
<1>1. n \in Nat /\ s \in [1..n -> S]
    BY FS_CardinalityType DEF Ordered
<1>2. \A a, b \in 1..n : a # b => s[a] # s[b]
    <2>1. TAKE a, b \in 1..n
    <2>2. a < b \/ b < a \/ a = b
        BY <1>1
    <2>3. s[a] \in S /\ s[b] \in S
        BY <1>1
    <2> QED BY <2>2, <2>3 DEF Ordered, Orders
<1> QED BY <1>1, <1>2 DEF Enumerates

LEMMA SetToSeqEnumerates ==
    ASSUME NEW S, IsFiniteSet(S)
    PROVE  Enumerates(SetToSeq(S), S)
<1> DEFINE n == Cardinality(S)
<1>1. ExistsBijection(1..n, S)
    BY FS_CardinalityType
<1>2. PICK f : f \in Bijection(1..n, S)
    BY <1>1 DEF ExistsBijection
<1>3. f \in [1..n -> S] /\ IsInjective(f)
    BY <1>2 DEF Bijection, Injection, IsInjective
<1>4. SetToSeq(S) = CHOOSE g \in [1..n -> S] : IsInjective(g)
    BY DEF SetToSeq
<1> HIDE DEF n
<1>5. SetToSeq(S) \in [1..n -> S] /\ IsInjective(SetToSeq(S))
    BY <1>3, <1>4
<1>6. \A a, b \in 1..n : SetToSeq(S)[a] = SetToSeq(S)[b] => a = b
    BY <1>5 DEF IsInjective
<1> QED BY <1>5, <1>6 DEF Enumerates, n

\* Numbers in their order.
LEMMA NumbersSort ==
    ASSUME NEW S, IsFiniteSet(S), S \subseteq Int
    PROVE  /\ Orders(NumberOrder(S), S)
           /\ Ordered(Ascending(S), S, NumberOrder(S))
<1> DEFINE R == NumberOrder(S)
           n == Cardinality(S)
           l == CHOOSE t \in [1..n -> S] : \A i, j \in 1..n : i < j => t[i] < t[j]
<1>2. Orders(R, S)
    BY DEF Orders, NumberOrder
<1>3. PICK s : Ordered(s, S, R)
    BY <1>2, SortExists
<1>4. s \in [1..n -> S] /\ \A i, j \in 1..n : i < j => s[i] < s[j]
    BY <1>3 DEF Ordered, NumberOrder
<1>5. l = Ascending(S)
    BY DEF Ascending, InOrder
<1> HIDE DEF n
<1>6. l \in [1..n -> S] /\ \A i, j \in 1..n : i < j => l[i] < l[j]
    BY <1>4
<1> HIDE DEF l
<1>7. Ordered(l, S, R)
    BY <1>6 DEF Ordered, NumberOrder, n
<1> QED BY <1>2, <1>5, <1>7

\* The places at which a slice has what is wanted.
Places(s, T) == {k \in 1..Len(s) : s[k] \in T}

\* The sequence p has the elements I of s, from these places of it.
PicksAt(at, s, I, p) ==
  /\ at \in [1..Cardinality(I) -> 1..Len(s)]
  /\ \A a, b \in 1..Cardinality(I) : a < b => at[a] < at[b]
  /\ \A a \in 1..Cardinality(I) : s[at[a]] \in I
  /\ p = [n \in 1..Cardinality(I) |-> s[at[n]]]

LEMMA PickedAt ==
    ASSUME NEW S, IsFiniteSet(S), NEW s, Enumerates(s, S), NEW T
    PROVE  \E at : PicksAt(at, s, S \cap T, Picked(s, T))
<1> DEFINE P == Places(s, T)
           m == Cardinality(S \cap T)
           at == Ascending(P)
           f == [k \in P |-> s[k]]
<1>1. Len(s) = Cardinality(S) /\ Len(s) \in Nat /\ (\A x \in S : \E k \in 1..Len(s) : s[k] = x)
    BY EnumerationIsASeq
<1>2. P \subseteq 1..Len(s) /\ P \subseteq Int /\ IsFiniteSet(P)
    <2>1. P \subseteq 1..Len(s) /\ P \subseteq Int
        BY <1>1 DEF Places
    <2>2. IsFiniteSet(1..Len(s))
        BY <1>1, FS_Interval
    <2> QED BY <2>1, <2>2, FS_Subset
<1>3. \A k \in P : s[k] \in S \cap T
    BY <1>1 DEF Places, Enumerates
<1>4. Cardinality(P) = m
    <2>1. f \in [P -> S \cap T]
        BY <1>3
    <2>2. \A a, b \in P : f[a] = f[b] => a = b
        BY <1>1 DEF Places, Enumerates
    <2>3. \A x \in S \cap T : \E k \in P : f[k] = x
        <3>1. TAKE x \in S \cap T
        <3>2. PICK k \in 1..Len(s) : s[k] = x
            BY <1>1
        <3>3. k \in P
            BY <3>2 DEF Places
        <3> QED BY <3>2, <3>3
    <2> HIDE DEF f, P
    <2>4. f \in Bijection(P, S \cap T)
        BY <2>1, <2>2, <2>3 DEF Bijection, Injection, Surjection, IsInjective
    <2>5. ExistsBijection(P, S \cap T)
        BY <2>4 DEF ExistsBijection
    <2> QED BY <1>2, <2>5, FS_Bijection
<1>5. Ordered(at, P, NumberOrder(P))
    <2> HIDE DEF P
    <2> QED BY <1>2, NumbersSort
<1>6. Picked(s, T) = [n \in DOMAIN at |-> s[at[n]]]
    BY DEF Picked, Places
<1> HIDE DEF at
<1>7. /\ at \in [1..m -> P]
      /\ \A a, b \in 1..m : a < b => at[a] < at[b]
    <2> HIDE DEF P, m
    <2> QED BY <1>4, <1>5 DEF Ordered, NumberOrder
<1>8. at \in [1..m -> 1..Len(s)] /\ DOMAIN at = 1..m
    BY <1>7, <1>2
<1>9. \A a \in 1..m : s[at[a]] \in S \cap T
    BY <1>7, <1>3
<1> QED BY <1>6, <1>7, <1>8, <1>9 DEF PicksAt

\* What is picked of a slice is the set asked for, once each ...
LEMMA PickedEnumerates ==
    ASSUME NEW S, IsFiniteSet(S), NEW s, Enumerates(s, S), NEW T
    PROVE  Enumerates(Picked(s, T), S \cap T) /\ IsFiniteSet(S \cap T)
<1> DEFINE m == Cardinality(S \cap T)
           p == Picked(s, T)
<1>11. PICK at : PicksAt(at, s, S \cap T, p)
    BY PickedAt
<1>1. /\ at \in [1..m -> 1..Len(s)]
      /\ \A a, b \in 1..m : a < b => at[a] < at[b]
      /\ \A a \in 1..m : s[at[a]] \in S \cap T
      /\ p = [n \in 1..m |-> s[at[n]]]
    BY <1>11 DEF PicksAt
<1>2. IsFiniteSet(S \cap T) /\ m \in Nat /\ Len(s) = Cardinality(S) /\ Len(s) \in Nat
    BY FS_Subset, FS_CardinalityType, EnumerationIsASeq
<1> HIDE DEF p, m
<1>3. p \in [1..m -> S \cap T]
    BY <1>1
<1>4. \A a, b \in 1..m : a # b => p[a] # p[b]
    <2>1. TAKE a, b \in 1..m
    <2>2. HAVE a # b
    <2>3. a < b \/ b < a
        BY <1>2, <2>2
    <2>4. at[a] \in 1..Len(s) /\ at[b] \in 1..Len(s)
        BY <1>1
    <2>5. at[a] # at[b]
        BY <1>1, <1>2, <2>3, <2>4
    <2>6. s[at[a]] # s[at[b]]
        BY <1>2, <2>4, <2>5 DEF Enumerates
    <2> QED BY <1>1, <2>6
<1> QED BY <1>2, <1>3, <1>4 DEF Enumerates, m, p

\* ... and stays sorted when the slice was.
LEMMA PickedOrdered ==
    ASSUME NEW S, NEW R, IsFiniteSet(S), Orders(R, S), NEW s, Ordered(s, S, R), NEW T
    PROVE  /\ Ordered(Picked(s, T), S \cap T, R) /\ Orders(R, S \cap T)
           /\ IsFiniteSet(S \cap T)
<1> DEFINE m == Cardinality(S \cap T)
           p == Picked(s, T)
<1>1. Enumerates(s, S)
    BY OrderedEnumerates
<1>12. PICK at : PicksAt(at, s, S \cap T, p)
    BY <1>1, PickedAt
<1>2. /\ at \in [1..m -> 1..Len(s)]
      /\ \A a, b \in 1..m : a < b => at[a] < at[b]
      /\ \A a \in 1..m : s[at[a]] \in S \cap T
      /\ p = [n \in 1..m |-> s[at[n]]]
    BY <1>12 DEF PicksAt
<1>3. IsFiniteSet(S \cap T) /\ m \in Nat /\ Len(s) = Cardinality(S) /\ Len(s) \in Nat
    BY <1>1, FS_Subset, FS_CardinalityType, EnumerationIsASeq
<1> HIDE DEF p, m
<1>4. p \in [1..m -> S \cap T]
    BY <1>2
<1>5. \A a, b \in 1..m : a < b => <<p[a], p[b]>> \in R
    <2>1. TAKE a, b \in 1..m
    <2>2. HAVE a < b
    <2>3. at[a] \in 1..Len(s) /\ at[b] \in 1..Len(s) /\ at[a] < at[b]
        BY <1>2, <2>2
    <2>4. <<s[at[a]], s[at[b]]>> \in R
        BY <1>3, <2>3 DEF Ordered
    <2> QED BY <1>2, <2>4
<1>6. Orders(R, S \cap T)
    BY DEF Orders
<1> QED BY <1>3, <1>4, <1>5, <1>6 DEF Ordered, m, p
-------------------------------------------------------------------------------
(* The stable sort of a slice of which no two elements are alike.          *)

\* The order of the places that the order of what is there makes.
PlaceOrder(s, R) == {p \in (1..Len(s)) \X (1..Len(s)) : <<s[p[1]], s[p[2]]>> \in R}

LEMMA PlacesSort ==
    ASSUME NEW S, NEW R, IsFiniteSet(S), Orders(R, S), NEW s, Enumerates(s, S)
    PROVE  /\ \E o : Ordered(o, 1..Len(s), PlaceOrder(s, R))
           /\ Len(s) \in Nat /\ Cardinality(1..Len(s)) = Len(s) /\ DOMAIN s = 1..Len(s)
           /\ \A k \in 1..Len(s) : s[k] \in S
           /\ \A i, j \in 1..Len(s) : <<i, j>> \in PlaceOrder(s, R) <=> <<s[i], s[j]>> \in R
<1> DEFINE n == Len(s)
           Q == PlaceOrder(s, R)
<1>1. n \in Nat /\ n = Cardinality(S) /\ DOMAIN s = 1..n /\ \A k \in 1..n : s[k] \in S
    BY EnumerationIsASeq DEF Enumerates
<1>2. IsFiniteSet(1..n) /\ Cardinality(1..n) = n
    BY <1>1, FS_Interval
<1>3. \A i, j \in 1..n : <<i, j>> \in Q <=> <<s[i], s[j]>> \in R
    BY DEF PlaceOrder
<1>4. \A a, b \in 1..n : a # b => s[a] # s[b]
    BY <1>1 DEF Enumerates
<1> HIDE DEF n, Q
<1>5. Orders(Q, 1..n)
    <2>1. \A x \in 1..n : <<x, x>> \notin Q
        BY <1>1, <1>3 DEF Orders
    <2>2. \A x, y \in 1..n : x # y => <<x, y>> \in Q \/ <<y, x>> \in Q
        BY <1>1, <1>3, <1>4 DEF Orders
    <2>3. \A x, y, z \in 1..n : <<x, y>> \in Q /\ <<y, z>> \in Q => <<x, z>> \in Q
        <3>1. TAKE x, y, z \in 1..n
        <3>2. HAVE <<x, y>> \in Q /\ <<y, z>> \in Q
        <3>3. <<s[x], s[y]>> \in R /\ <<s[y], s[z]>> \in R /\ s[x] \in S /\ s[y] \in S /\ s[z] \in S
            BY <1>1, <1>3, <3>2
        <3>4. <<s[x], s[z]>> \in R
            BY <3>3 DEF Orders
        <3> QED BY <1>3, <3>4
    <2> QED BY <2>1, <2>2, <2>3 DEF Orders
<1>6. \E o : Ordered(o, 1..n, Q)
    BY <1>2, <1>5, SortExists
<1> QED BY <1>1, <1>2, <1>3, <1>6 DEF n, Q

LEMMA PlacesSorted ==
    ASSUME NEW S, NEW R, IsFiniteSet(S), Orders(R, S), NEW s, Enumerates(s, S),
           NEW o, Ordered(o, 1..Len(s), PlaceOrder(s, R)), NEW t, t = [k \in 1..Len(s) |-> s[o[k]]]
    PROVE  Ordered(t, S, R)
<1> DEFINE n == Len(s)
<1>1. n \in Nat /\ n = Cardinality(S) /\ Cardinality(1..n) = n /\ \A k \in 1..n : s[k] \in S
    BY PlacesSort, EnumerationIsASeq
<1>2. \A i, j \in 1..n : <<i, j>> \in PlaceOrder(s, R) <=> <<s[i], s[j]>> \in R
    BY PlacesSort
<1> HIDE DEF n
<1>3. o \in [1..n -> 1..n] /\ \A a, b \in 1..n : a < b => <<o[a], o[b]>> \in PlaceOrder(s, R)
    BY <1>1 DEF Ordered, n
<1>4. t = [k \in 1..n |-> s[o[k]]]
    BY DEF n
<1>5. t \in [1..n -> S]
    BY <1>1, <1>3, <1>4
<1>6. \A a, b \in 1..n : a < b => <<t[a], t[b]>> \in R
    <2>1. TAKE a, b \in 1..n
    <2>2. HAVE a < b
    <2>3. o[a] \in 1..n /\ o[b] \in 1..n /\ <<o[a], o[b]>> \in PlaceOrder(s, R)
        BY <1>3, <2>2
    <2>4. <<s[o[a]], s[o[b]]>> \in R
        BY <1>2, <2>3
    <2> QED BY <1>4, <2>4
<1> QED BY <1>1, <1>5, <1>6 DEF Ordered

\* What a stable sort looks for: of two places, the one ahead has the lesser
\* element, or none is less and it comes first.
Stably(o, s, R) ==
  /\ o \in [1..Len(s) -> 1..Len(s)]
  /\ \A a, b \in 1..Len(s) : a < b =>
       <<s[o[a]], s[o[b]]>> \in R \/ (<<s[o[b]], s[o[a]]>> \notin R /\ o[a] < o[b])

LEMMA StableSorts ==
    ASSUME NEW S, NEW R, IsFiniteSet(S), Orders(R, S), NEW s, Enumerates(s, S)
    PROVE  /\ Len(s) \in Nat /\ Cardinality(1..Len(s)) = Len(s) /\ DOMAIN s = 1..Len(s)
           /\ \A k \in 1..Len(s) : s[k] \in S
           /\ \E o : Stably(o, s, R)
           /\ \A o : Stably(o, s, R) => Ordered([k \in 1..Len(s) |-> s[o[k]]], S, R)
<1> DEFINE n == Len(s)
           Q == PlaceOrder(s, R)
<1>1. /\ n \in Nat /\ Cardinality(1..n) = n /\ DOMAIN s = 1..n /\ \A k \in 1..n : s[k] \in S
      /\ \A i, j \in 1..n : <<i, j>> \in Q <=> <<s[i], s[j]>> \in R
    BY PlacesSort
<1>2. \A a, b \in 1..n : a # b => s[a] # s[b]
    BY EnumerationIsASeq DEF Enumerates
<1> HIDE DEF n, Q
<1>3. \A i, j \in 1..n : <<i, j>> \in Q
         <=> <<s[i], s[j]>> \in R \/ (<<s[j], s[i]>> \notin R /\ i < j)
    <2>1. TAKE i, j \in 1..n
    <2>2. s[i] \in S /\ s[j] \in S /\ i \in Int /\ j \in Int
        BY <1>1
    <2>3. CASE i = j
        <3>1. ~(i < i)
            BY <2>2
        <3> QED BY <1>1, <2>3, <3>1
    <2>4. CASE i # j
        <3>1. s[i] # s[j]
            BY <1>2, <2>4
        <3>2. <<s[i], s[j]>> \in R \/ <<s[j], s[i]>> \in R
            BY <2>2, <3>1 DEF Orders
        <3> QED BY <1>1, <2>2, <3>2
    <2> QED BY <2>3, <2>4
<1>4. \A o : Stably(o, s, R) <=> Ordered(o, 1..n, Q)
    <2>1. TAKE o
    <2>2. ASSUME o \in [1..n -> 1..n]
          PROVE  \A a, b \in 1..n : <<o[a], o[b]>> \in Q
                   <=> <<s[o[a]], s[o[b]]>> \in R \/ (<<s[o[b]], s[o[a]]>> \notin R /\ o[a] < o[b])
        <3>1. TAKE a, b \in 1..n
        <3>2. o[a] \in 1..n /\ o[b] \in 1..n
            BY <2>2
        <3> QED BY <1>3, <3>2
    <2>3. Stably(o, s, R)
             <=> /\ o \in [1..n -> 1..n]
                 /\ \A a, b \in 1..n : a < b =>
                      <<s[o[a]], s[o[b]]>> \in R \/ (<<s[o[b]], s[o[a]]>> \notin R /\ o[a] < o[b])
        BY DEF Stably, n
    <2>4. Ordered(o, 1..n, Q)
             <=> o \in [1..n -> 1..n] /\ \A a, b \in 1..n : a < b => <<o[a], o[b]>> \in Q
        BY <1>1 DEF Ordered
    <2> QED BY <2>2, <2>3, <2>4
<1>5. \E o : Stably(o, s, R)
    BY <1>4, PlacesSort DEF n, Q
<1>6. ASSUME NEW o, Stably(o, s, R) PROVE Ordered([k \in 1..Len(s) |-> s[o[k]]], S, R)
    BY <1>4, <1>6, PlacesSorted DEF n, Q
<1> QED BY <1>1, <1>5, <1>6 DEF n

\* Which is how the demo sorts entries.
LEMMA EntriesSorted ==
    ASSUME NEW S, Sortable(entries, S), NEW s, Enumerates(s, S), NEW sort
    PROVE  SortEntries(s, sort) = Sorted(entries, S, sort)
<1> DEFINE n == Len(s)
           R == EntryOrder(entries, S, sort)
           Less(i, j) == IF sort = "top" THEN Higher(entries, i, j) ELSE Newer(entries, i, j)
           Ahead(i, j) == Less(s[i], s[j]) \/ (~Less(s[j], s[i]) /\ i < j)
           o == CHOOSE q \in [1..Cardinality(DOMAIN s) -> DOMAIN s] :
                  \A a, b \in 1..Cardinality(DOMAIN s) : a < b => Ahead(q[a], q[b])
<1>1. IsFiniteSet(S) /\ Orders(R, S)
    BY EntryOrders DEF Sortable
<1>2. PICK t : Stably(t, s, R)
    BY <1>1, StableSorts
<1>3. n \in Nat /\ Cardinality(1..n) = n /\ DOMAIN s = 1..n /\ \A k \in 1..n : s[k] \in S
    BY <1>1, StableSorts
<1>4. \A x, y \in S : <<x, y>> \in R <=> Less(x, y)
    BY DEF EntryOrder
<1>5. o = CHOOSE q \in [1..n -> 1..n] : \A a, b \in 1..n : a < b => Ahead(q[a], q[b])
    BY <1>3
<1>6. SortEntries(s, sort) = [k \in 1..n |-> s[o[k]]]
    BY <1>3 DEF SortEntries, StableSort, InOrder
<1> HIDE DEF R, n, Less
<1>7. \A i, j \in 1..n : Ahead(i, j) <=> <<s[i], s[j]>> \in R \/ (<<s[j], s[i]>> \notin R /\ i < j)
    BY <1>3, <1>4
<1> HIDE DEF Ahead
<1>8. \A q \in [1..n -> 1..n] :
         Stably(q, s, R) <=> \A a, b \in 1..n : a < b => Ahead(q[a], q[b])
    BY <1>7 DEF Stably, n
<1> HIDE DEF o
<1>9. Stably(o, s, R)
    <2>1. t \in [1..n -> 1..n] /\ \A a, b \in 1..n : a < b => Ahead(t[a], t[b])
        BY <1>2, <1>8 DEF Stably, n
    <2>2. o \in [1..n -> 1..n] /\ \A a, b \in 1..n : a < b => Ahead(o[a], o[b])
        BY <1>5, <2>1
    <2> QED BY <1>8, <2>2
<1>10. Ordered(SortEntries(s, sort), S, R)
    BY <1>1, <1>6, <1>9, StableSorts DEF n
<1>11. Ordered(Sorted(entries, S, sort), S, R)
    BY SortedIsOrdered DEF R
<1> QED BY <1>1, <1>10, <1>11, SortUnique

LEMMA Paginated ==
    ASSUME NEW T, NEW s \in Seq(T), NEW p \in Nat \ {0}, NEW l \in Nat \ {0}
    PROVE  paginate(s, p, l) = Slice(s, p, l)
<1> DEFINE lo == (p - 1) * l
           hi == p * l
           n == Len(s)
<1>1. lo \in Nat /\ hi \in Nat /\ n \in Nat /\ hi = lo + l
    BY PageNumbers, LenProperties
<1>2. Min({hi, n}) = IF hi <= n THEN hi ELSE n
    BY <1>1, MinOfTwo
<1>3. Slice(s, p, l) = SubSeq(s, lo + 1, Min({hi, n}))
    BY DEF Slice
<1>4. paginate(s, p, l) = IF lo >= n THEN <<>>
                          ELSE SubSeq(s, lo + 1, IF lo + l > n THEN n ELSE lo + l)
    BY DEF paginate
<1> HIDE DEF lo, hi, n
<1>5. CASE lo >= n
    <2>1. Min({hi, n}) = n /\ n < lo + 1
        BY <1>1, <1>2, <1>5
    <2>2. SubSeq(s, lo + 1, n) = <<>>
        BY <1>1, <2>1, SubSeqEmpty
    <2> QED BY <1>3, <1>4, <1>5, <2>1, <2>2
<1>6. CASE ~(lo >= n)
    <2>1. (IF lo + l > n THEN n ELSE lo + l) = Min({hi, n})
        BY <1>1, <1>2
    <2> QED BY <1>3, <1>4, <1>6, <2>1
<1> QED BY <1>5, <1>6

\* Every clause on which the demo leaves an entry out is one of the filter's.
LEMMA SkippedUnmatched ==
    ASSUME NEW e \in Entry, NEW f \in EntryListFilter
    PROVE  Skipped(e, f) <=> ~Matches(e, f)
<1>1. f.publicOnly \in BOOLEAN /\ f.openOnly \in BOOLEAN /\ e.internal \in BOOLEAN
    BY DEF Entry, EntryListFilter
<1> QED BY <1>1 DEF Skipped, Matches

LEMMA SlicesHold ==
    ASSUME TypeInv
    PROVE  /\ IsFiniteSet(DOMAIN entries) /\ Enumerates(Slices, DOMAIN entries)
           /\ \A T : T \subseteq DOMAIN entries =>
                /\ Enumerates(Picked(Slices, T), T) /\ Sortable(entries, T)
                /\ Len(Picked(Slices, T)) = Cardinality(T)
<1>1. IsFiniteSet(DOMAIN entries) /\ Store(entries)
    BY DEF TypeInv, Store
<1>2. Enumerates(Slices, DOMAIN entries)
    BY <1>1, SetToSeqEnumerates DEF Slices
<1>3. ASSUME NEW T, T \subseteq DOMAIN entries
      PROVE  /\ Enumerates(Picked(Slices, T), T) /\ Sortable(entries, T)
             /\ Len(Picked(Slices, T)) = Cardinality(T)
    <2>1. DOMAIN entries \cap T = T
        BY <1>3
    <2>2. Enumerates(Picked(Slices, T), T) /\ IsFiniteSet(T)
        BY <1>1, <1>2, <2>1, PickedEnumerates
    <2>3. Sortable(entries, T)
        BY <1>1, <1>3, EntriesSort
    <2> QED BY <2>2, <2>3, EnumerationIsASeq
<1> QED BY <1>1, <1>2, <1>3

\* A list of entries, a page of it, and their number.
LEMMA ListsMirrored ==
    ASSUME TypeInv, NEW f \in EntryListFilter
    PROVE  /\ DemoListEntries(f) = ListEntries(entries, f)
           /\ DemoCountEntries(f) = CountEntries(entries, f)
<1> DEFINE S == Found(entries, f)
           s == filterEntries(f)
<1>1. S = {i \in DOMAIN entries : ~Skipped(entries[i], f)} /\ S \subseteq DOMAIN entries
    <2>1. \A i \in DOMAIN entries : entries[i] \in Entry
        BY DEF TypeInv, Store
    <2>2. \A i \in DOMAIN entries : Skipped(entries[i], f) <=> ~Matches(entries[i], f)
        BY <2>1, SkippedUnmatched
    <2> QED BY <2>2 DEF Found
<1>2. s = Picked(Slices, S)
    BY <1>1 DEF filterEntries
<1> HIDE DEF S, s
<1>3. Enumerates(s, S) /\ Sortable(entries, S) /\ Len(s) = Cardinality(S)
    BY <1>1, <1>2, SlicesHold
<1>4. SortEntries(s, f.sort) = Listing(entries, f)
    BY <1>3, EntriesSorted DEF Listing, S
<1>5. Listing(entries, f) \in Seq(EntryIds)
    BY ListingTyped DEF TypeInv
<1>6. LimitOf(f) \in Nat \ {0} /\ PageOf(f) \in Nat \ {0}
    <2>1. f.limit \in Int /\ f.page \in Int
        BY DEF EntryListFilter
    <2> QED BY <2>1, ConstantsAssumption DEF LimitOf, PageOf
<1>7. DemoListEntries(f) = ListEntries(entries, f)
    BY <1>4, <1>5, <1>6, Paginated DEF DemoListEntries, ListEntries, s
<1>8. DemoCountEntries(f) = CountEntries(entries, f)
    BY <1>3 DEF DemoCountEntries, CountEntries, s, S
<1> QED BY <1>7, <1>8

\* The lists that are not paged.
LEMMA NewestSorted ==
    ASSUME TypeInv, NEW T, T \subseteq DOMAIN entries
    PROVE  NewestOf(T) = Sorted(entries, T, "new")
BY SlicesHold, EntriesSorted DEF NewestOf

LEMMA NewestMirrored ==
    ASSUME TypeInv, NEW b \in BOOLEAN, NEW r, NEW i
    PROVE  /\ DemoListEntriesForSimilarity(b) = ListEntriesForSimilarity(entries, b)
           /\ DemoListEntriesByReleaseID(r, b) = ListEntriesByReleaseID(entries, r, b)
           /\ DemoListEntriesForRelationAnalysis(i) = ListEntriesForRelationAnalysis(entries, i)
<1>1. DemoListEntriesForSimilarity(b) = ListEntriesForSimilarity(entries, b)
    <2> DEFINE T == {j \in DOMAIN entries : ~(b /\ entries[j].internal)}
    <2>1. T = {j \in DOMAIN entries : b => ~entries[j].internal}
        OBVIOUS
    <2>2. NewestOf(T) = Sorted(entries, T, "new")
        BY NewestSorted
    <2>3. DemoListEntriesForSimilarity(b) = NewestOf(T)
        BY DEF DemoListEntriesForSimilarity
    <2> QED BY <2>1, <2>2, <2>3 DEF ListEntriesForSimilarity
<1>2. DemoListEntriesByReleaseID(r, b) = ListEntriesByReleaseID(entries, r, b)
    <2> DEFINE T == {j \in DOMAIN entries : entries[j].release = r /\ ~(b /\ entries[j].internal)}
    <2>1. T = {j \in DOMAIN entries : entries[j].release = r /\ (b => ~entries[j].internal)}
        OBVIOUS
    <2>2. NewestOf(T) = Sorted(entries, T, "new")
        BY NewestSorted
    <2>3. DemoListEntriesByReleaseID(r, b) = NewestOf(T)
        BY DEF DemoListEntriesByReleaseID
    <2> QED BY <2>1, <2>2, <2>3 DEF ListEntriesByReleaseID
<1>3. DemoListEntriesForRelationAnalysis(i) = ListEntriesForRelationAnalysis(entries, i)
    <2> DEFINE T == {j \in DOMAIN entries : j # i}
    <2>1. T = DOMAIN entries \ {i}
        OBVIOUS
    <2>2. NewestOf(T) = Sorted(entries, T, "new")
        BY NewestSorted
    <2>3. DemoListEntriesForRelationAnalysis(i) = NewestOf(T)
        BY DEF DemoListEntriesForRelationAnalysis
    <2> QED BY <2>1, <2>2, <2>3 DEF ListEntriesForRelationAnalysis
<1> QED BY <1>1, <1>2, <1>3

\* Comments are sorted once more, and were in that order.
LEMMA CommentsMirrored ==
    ASSUME comments \in CommentType, NEW id, NEW b \in BOOLEAN
    PROVE  /\ DemoListComments(id, b) = ListCommentsByEntryID(comments, id, b)
           /\ DemoCountComments(id) = CountCommentsByEntryID(comments, id)
<1> DEFINE D == DOMAIN comments
           S == {m \in D : comments[m].entry = id /\ (comments[m].internal => b)}
           R == NumberOrder(D)
           s == Picked(CommentSlice, S)
           n == Len(s)
           Ahead(i, j) == s[i] < s[j] \/ (~(s[j] < s[i]) /\ i < j)
           o == CHOOSE q \in [1..Cardinality(DOMAIN s) -> DOMAIN s] :
                  \A x, y \in 1..Cardinality(DOMAIN s) : x < y => Ahead(q[x], q[y])
           l == CHOOSE q \in [1..Cardinality(S) -> S] :
                  \A x, y \in 1..Cardinality(S) : x < y => q[x] < q[y]
<1>1. IsFiniteSet(D) /\ D \subseteq Int
    BY ConstantsAssumption DEF CommentType
<1>2. Orders(R, D) /\ Ordered(CommentSlice, D, R)
    BY <1>1, NumbersSort DEF CommentSlice
<1>3. D \cap S = S
    OBVIOUS
<1>4. Ordered(s, S, R) /\ Orders(R, S) /\ IsFiniteSet(S)
    <2> HIDE DEF S, D
    <2> QED BY <1>1, <1>2, <1>3, PickedOrdered
<1>5. Enumerates(s, S)
    BY <1>4, OrderedEnumerates
<1>6. PICK t : Stably(t, s, R)
    BY <1>4, <1>5, StableSorts
<1>7. n \in Nat /\ Cardinality(1..n) = n /\ DOMAIN s = 1..n /\ \A k \in 1..n : s[k] \in S
    BY <1>4, <1>5, StableSorts
<1>8. \A x, y \in S : <<x, y>> \in R <=> x < y
    BY DEF NumberOrder
<1>9. o = CHOOSE q \in [1..n -> 1..n] : \A x, y \in 1..n : x < y => Ahead(q[x], q[y])
    BY <1>7
<1>10. DemoListComments(id, b) = [k \in 1..n |-> s[o[k]]]
    <2>1. S = {m \in DOMAIN comments : comments[m].entry = id /\ (b \/ ~comments[m].internal)}
        BY DEF CommentType
    <2> DEFINE p == Picked(CommentSlice, {m \in DOMAIN comments :
                      comments[m].entry = id /\ (b \/ ~comments[m].internal)})
               Ahead2(i, j) == p[i] < p[j] \/ (~(p[j] < p[i]) /\ i < j)
               o2 == CHOOSE q \in [1..Cardinality(DOMAIN p) -> DOMAIN p] :
                       \A x, y \in 1..Cardinality(DOMAIN p) : x < y => Ahead2(q[x], q[y])
    <2>2. p = s
        BY <2>1
    <2>3. DemoListComments(id, b) = [k \in DOMAIN p |-> p[o2[k]]]
        BY DEF DemoListComments, StableSort, InOrder
    <2>4. o2 = o
        <3> HIDE DEF p, s
        <3> QED BY <2>2
    <2> HIDE DEF p, s, o, o2, n
    <2> QED BY <1>7, <2>2, <2>3, <2>4
<1>11. l = ListCommentsByEntryID(comments, id, b)
    BY DEF ListCommentsByEntryID, InOrder
<1> HIDE DEF S, R, s, n
<1>12. \A i, j \in 1..n : Ahead(i, j) <=> <<s[i], s[j]>> \in R \/ (<<s[j], s[i]>> \notin R /\ i < j)
    BY <1>7, <1>8
<1> HIDE DEF Ahead
<1>13. \A q \in [1..n -> 1..n] :
         Stably(q, s, R) <=> \A x, y \in 1..n : x < y => Ahead(q[x], q[y])
    BY <1>12 DEF Stably, n
<1> HIDE DEF o
<1>14. Stably(o, s, R)
    <2>1. t \in [1..n -> 1..n] /\ \A x, y \in 1..n : x < y => Ahead(t[x], t[y])
        BY <1>6, <1>13 DEF Stably, n
    <2>2. o \in [1..n -> 1..n] /\ \A x, y \in 1..n : x < y => Ahead(o[x], o[y])
        BY <1>9, <2>1
    <2> QED BY <1>13, <2>2
<1>15. Ordered(DemoListComments(id, b), S, R)
    BY <1>4, <1>5, <1>10, <1>14, StableSorts DEF n
<1>16. Ordered(l, S, R)
    <2> DEFINE N == Cardinality(S)
    <2>1. s \in [1..N -> S] /\ \A x, y \in 1..N : x < y => s[x] < s[y]
        BY <1>4, <1>8 DEF Ordered
    <2> HIDE DEF N
    <2>2. l \in [1..N -> S] /\ \A x, y \in 1..N : x < y => l[x] < l[y]
        BY <2>1 DEF N
    <2> HIDE DEF l
    <2>3. \A x, y \in 1..N : x < y => <<l[x], l[y]>> \in R
        BY <1>8, <2>2
    <2> QED BY <2>2, <2>3 DEF Ordered, N
<1>17. DemoListComments(id, b) = ListCommentsByEntryID(comments, id, b)
    BY <1>4, <1>11, <1>15, <1>16, SortUnique
<1>18. DemoCountComments(id) = CountCommentsByEntryID(comments, id)
    <2> DEFINE C == {m \in D : comments[m].entry = id}
    <2>1. D \cap C = C
        OBVIOUS
    <2>2. Len(Picked(CommentSlice, C)) = Cardinality(C)
        <3> HIDE DEF C, D
        <3>1. Enumerates(CommentSlice, D)
            BY <1>1, <1>2, OrderedEnumerates
        <3>2. Enumerates(Picked(CommentSlice, C), C) /\ IsFiniteSet(C)
            BY <1>1, <2>1, <3>1, PickedEnumerates
        <3> QED BY <3>2, EnumerationIsASeq
    <2> QED BY <2>2 DEF DemoCountComments, CountCommentsByEntryID
<1> QED BY <1>17, <1>18

-------------------------------------------------------------------------------
(* The demo's loops over the entries.                                      *)

AtLeast(S, m) == \A x \in S : m <= x

\* A finite set of numbers has a least one.
LEMMA Least ==
    ASSUME NEW S, IsFiniteSet(S), S \subseteq Int, S # {}
    PROVE  \E m \in S : AtLeast(S, m)
<1> DEFINE T == {0 - x : x \in S}
           f == [x \in S |-> 0 - x]
<1>1. T \subseteq Int /\ T # {}
    <2>1. \A x \in S : 0 - x \in Int
        OBVIOUS
    <2> QED BY <2>1
<1>2. IsFiniteSet(T)
    <2>1. f \in Bijection(S, T)
        BY DEF Bijection, Injection, Surjection, IsInjective
    <2>2. ExistsBijection(S, T)
        BY <2>1 DEF ExistsBijection
    <2> HIDE DEF T
    <2> QED BY <2>2, FS_Bijection
<1>3. PICK y : y \in T /\ AtMost(T, y)
    <2> HIDE DEF T
    <2> QED BY <1>1, <1>2, Extremes
<1>4. PICK m \in S : y = 0 - m
    BY <1>3
<1>5. \A x \in S : 0 - x <= y
    BY <1>3 DEF AtMost
<1> QED BY <1>4, <1>5 DEF AtLeast

\* What a loop makes, round by round.
LEMMA Rounds ==
    ASSUME NEW n \in Nat, NEW out, NEW want, out[0] = want[0],
           \A k \in 1..n : out[k - 1] = want[k - 1] => out[k] = want[k]
    PROVE  out[n] = want[n]
<1> DEFINE Bad == {k \in 0..n : out[k] # want[k]}
<1>1. SUFFICES ASSUME Bad # {} PROVE FALSE
    OBVIOUS
<1>2. IsFiniteSet(Bad) /\ Bad \subseteq Int
    <2>1. IsFiniteSet(0..n) /\ Bad \subseteq 0..n
        BY FS_Interval
    <2> QED BY <2>1, FS_Subset
<1>3. PICK m \in Bad : AtLeast(Bad, m)
    <2> HIDE DEF Bad
    <2> QED BY <1>1, <1>2, Least
<1>4. m \in 1..n
    BY <1>3
<1>5. m - 1 \in 0..n /\ ~(m <= m - 1)
    BY <1>4
<1>6. m - 1 \notin Bad
    BY <1>3, <1>5 DEF AtLeast
<1> QED BY <1>3, <1>4, <1>5, <1>6

\* The elements of a slice up to a place.
Upon(s, k) == {s[j] : j \in 1..k}

Joins(s, S, k) == /\ Upon(s, k) = Upon(s, k - 1) \cup {s[k]}
                  /\ s[k] \in S \ Upon(s, k - 1)
                  /\ Upon(s, k - 1) \subseteq S /\ IsFiniteSet(Upon(s, k - 1))

LEMMA UponGrows ==
    ASSUME NEW S, IsFiniteSet(S), NEW s, Enumerates(s, S)
    PROVE  /\ Len(s) \in Nat /\ Len(s) = Cardinality(S) /\ Upon(s, 0) = {} /\ Upon(s, Len(s)) = S
           /\ \A k \in 1..Len(s) : Joins(s, S, k)
<1> DEFINE n == Len(s)
<1>1. n \in Nat /\ n = Cardinality(S) /\ \A x \in S : \E k \in 1..n : s[k] = x
    BY EnumerationIsASeq
<1>2. (\A k \in 1..n : s[k] \in S) /\ \A a, b \in 1..n : a # b => s[a] # s[b]
    BY <1>1 DEF Enumerates
<1> HIDE DEF n
<1>3. Upon(s, 0) = {}
    BY DEF Upon
<1>4. Upon(s, n) = S
    BY <1>1, <1>2 DEF Upon
<1>5. ASSUME NEW k \in 1..n
      PROVE  Joins(s, S, k)
    <2>1. 1..k = (1..k - 1) \cup {k}
        BY <1>1
    <2>2. \A j \in 1..k - 1 : j \in 1..n /\ j # k
        BY <1>1
    <2>3. s[k] \notin Upon(s, k - 1)
        BY <1>2, <2>2 DEF Upon
    <2>4. Upon(s, k) = Upon(s, k - 1) \cup {s[k]}
        BY <2>1 DEF Upon
    <2>5. Upon(s, k - 1) \subseteq S
        BY <1>2, <2>2 DEF Upon
    <2>6. IsFiniteSet(Upon(s, k - 1))
        BY <2>5, FS_Subset
    <2> QED BY <1>2, <2>3, <2>4, <2>5, <2>6 DEF Joins
<1> QED BY <1>1, <1>3, <1>4, <1>5 DEF n

\* A counter bumped is the count of one more.
LEMMA BumpCounts ==
    ASSUME NEW c, NEW G, IsFiniteSet(G), NEW i, i \notin G
    PROVE  bumpTypeCounts(ByKind(c, G), c[i].kind) = ByKind(c, G \cup {i})
<1> DEFINE B == NamedKinds \cup {"other"}
           In(I, b) == {j \in I : KindBucket(c[j].kind) = b}
           a == KindBucket(c[i].kind)
<1>1. a \in B /\ bumpTypeCounts(ByKind(c, G), c[i].kind) = [ByKind(c, G) EXCEPT ![a] = @ + 1]
    BY DEF KindBucket, bumpTypeCounts
<1>2. \A b \in B : Cardinality(In(G \cup {i}, b))
                     = IF b = a THEN Cardinality(In(G, b)) + 1 ELSE Cardinality(In(G, b))
    <2>1. TAKE b \in B
    <2>2. IsFiniteSet(In(G, b)) /\ i \notin In(G, b)
        BY FS_Subset
    <2>3. In(G \cup {i}, b) = IF b = a THEN In(G, b) \cup {i} ELSE In(G, b)
        OBVIOUS
    <2> HIDE DEF In, a
    <2>4. Cardinality(In(G, b) \cup {i}) = Cardinality(In(G, b)) + 1
        BY <2>2, FS_AddElement
    <2> QED BY <2>3, <2>4
<1>3. \A I : ByKind(c, I) = [b \in B |-> Cardinality(In(I, b))]
    BY DEF ByKind
<1> HIDE DEF In, a, B
<1>4. [ByKind(c, G) EXCEPT ![a] = @ + 1]
        = [b \in B |-> IF b = a THEN Cardinality(In(G, b)) + 1 ELSE Cardinality(In(G, b))]
    BY <1>1, <1>3
<1> QED BY <1>1, <1>2, <1>3, <1>4

\* The counters after some of the entries.
Counters(keys, I) ==
  [x \in (UNION {keys[i] : i \in I}) \ {Empty} |-> ByKind(entries, {i \in I : x \in keys[i]})]

LEMMA RoundCounts ==
    ASSUME NEW keys, NEW I, IsFiniteSet(I), NEW i, i \notin I
    PROVE  Bumped(Counters(keys, I), keys[i] \ {Empty}, entries[i].kind) = Counters(keys, I \cup {i})
<1> DEFINE In(J, x) == {j \in J : x \in keys[j]}
           ks == keys[i] \ {Empty}
           D == (UNION {keys[j] : j \in I}) \ {Empty}
           D2 == (UNION {keys[j] : j \in I \cup {i}}) \ {Empty}
           out == Counters(keys, I)
           Old(x) == IF x \in D THEN out[x] ELSE NoCount
<1>1. D2 = D \cup ks
    OBVIOUS
<1>2. DOMAIN out = D /\ \A x \in D : out[x] = ByKind(entries, In(I, x))
    BY DEF Counters
<1>3. ASSUME NEW x \in D2
      PROVE  (IF x \in ks THEN bumpTypeCounts(Old(x), entries[i].kind) ELSE Old(x))
                = ByKind(entries, In(I \cup {i}, x))
    <2>1. Old(x) = ByKind(entries, In(I, x))
        <3>1. CASE x \in D
            BY <1>2, <3>1
        <3>2. CASE x \notin D
            <4>1. In(I, x) = {}
                BY <3>2
            <4>2. ByKind(entries, {}) = NoCount
                BY FS_EmptySet DEF ByKind, NoCount
            <4> QED BY <3>2, <4>1, <4>2
        <3> QED BY <3>1, <3>2
    <2>2. CASE x \in ks
        <3>1. In(I \cup {i}, x) = In(I, x) \cup {i} /\ i \notin In(I, x) /\ IsFiniteSet(In(I, x))
            BY <2>2, FS_Subset
        <3> HIDE DEF In, Old, ks
        <3> QED BY <2>1, <2>2, <3>1, BumpCounts
    <2>3. CASE x \notin ks
        <3>1. In(I \cup {i}, x) = In(I, x)
            BY <2>3
        <3> QED BY <2>1, <2>3, <3>1
    <2> QED BY <2>2, <2>3
<1>4. Bumped(out, ks, entries[i].kind)
        = [x \in D \cup ks |-> IF x \in ks THEN bumpTypeCounts(Old(x), entries[i].kind) ELSE Old(x)]
    BY <1>2 DEF Bumped
<1>5. Counters(keys, I \cup {i}) = [x \in D2 |-> ByKind(entries, In(I \cup {i}, x))]
    BY DEF Counters
<1> HIDE DEF In, ks, D, D2, out, Old
<1> QED BY <1>1, <1>3, <1>4, <1>5 DEF ks, out

LEMMA CountsAreGroups ==
    ASSUME TypeInv, NEW keys
    PROVE  CountBy(keys) = Counters(keys, DOMAIN entries)
<1> DEFINE s == Slices
           n == Len(s)
           want == [k \in 0..n |-> Counters(keys, Upon(s, k))]
           out == CHOOSE g : g = [k \in 0..n |->
                    IF k = 0 THEN <<>>
                    ELSE Bumped(g[k - 1], keys[s[k]] \ {Empty}, entries[s[k]].kind)]
<1>1. /\ n \in Nat /\ Upon(s, 0) = {} /\ Upon(s, n) = DOMAIN entries
      /\ \A k \in 1..n : Joins(s, DOMAIN entries, k)
    <2>1. IsFiniteSet(DOMAIN entries) /\ Enumerates(s, DOMAIN entries)
        BY SlicesHold
    <2> HIDE DEF s
    <2> QED BY <2>1, UponGrows
<1>2. CountBy(keys) = out[n]
    BY DEF CountBy
<1> HIDE DEF s, n
<1>3. want[0] = <<>>
    <2>1. Counters(keys, {}) = <<>>
        BY DEF Counters
    <2>2. 0 \in 0..n
        BY <1>1
    <2>3. want[0] = Counters(keys, Upon(s, 0))
        BY <2>2
    <2> QED BY <1>1, <2>1, <2>3
<1>4. \A k \in 1..n : want[k] = Bumped(want[k - 1], keys[s[k]] \ {Empty}, entries[s[k]].kind)
    <2>1. TAKE k \in 1..n
    <2>2. k \in 0..n /\ k - 1 \in 0..n
        BY <1>1
    <2>3. /\ IsFiniteSet(Upon(s, k - 1)) /\ s[k] \notin Upon(s, k - 1)
          /\ Upon(s, k) = Upon(s, k - 1) \cup {s[k]}
        BY <1>1 DEF Joins
    <2>4. Bumped(Counters(keys, Upon(s, k - 1)), keys[s[k]] \ {Empty}, entries[s[k]].kind)
             = Counters(keys, Upon(s, k - 1) \cup {s[k]})
        <3> DEFINE I == Upon(s, k - 1)
                   i == s[k]
        <3>1. IsFiniteSet(I) /\ i \notin I
            BY <2>3
        <3> HIDE DEF I, i, want, out
        <3>2. Bumped(Counters(keys, I), keys[i] \ {Empty}, entries[i].kind) = Counters(keys, I \cup {i})
            BY <3>1, RoundCounts
        <3> QED BY <3>2 DEF I, i
    <2> QED BY <2>2, <2>3, <2>4
<1>5. want = [k \in 0..n |-> IF k = 0 THEN <<>>
                ELSE Bumped(want[k - 1], keys[s[k]] \ {Empty}, entries[s[k]].kind)]
    <2>1. \A k \in 0..n : k = 0 \/ k \in 1..n
        BY <1>1
    <2>2. want = [k \in 0..n |-> want[k]]
        OBVIOUS
    <2> HIDE DEF want
    <2> QED BY <1>3, <1>4, <2>1, <2>2
<1>6. want[n] = Counters(keys, DOMAIN entries)
    BY <1>1
<1> HIDE DEF want
<1>7. out = [k \in 0..n |-> IF k = 0 THEN <<>>
               ELSE Bumped(out[k - 1], keys[s[k]] \ {Empty}, entries[s[k]].kind)]
    BY <1>5
<1> HIDE DEF out
<1>8. out[0] = <<>> /\ \A k \in 1..n : out[k] = Bumped(out[k - 1], keys[s[k]] \ {Empty}, entries[s[k]].kind)
    <2>1. 0 \in 0..n /\ \A k \in 1..n : k \in 0..n /\ k # 0
        BY <1>1
    <2> QED BY <1>7, <2>1
<1>9. out[n] = want[n]
    <2>1. \A k \in 1..n : out[k - 1] = want[k - 1] => out[k] = want[k]
        BY <1>4, <1>8
    <2>2. out[0] = want[0]
        BY <1>3, <1>8
    <2> QED BY <1>1, <2>1, <2>2, Rounds
<1> QED BY <1>2, <1>6, <1>9

\* The map of counters is the database's, by users, topics or releases.
LEMMA GroupsMirrored ==
    ASSUME TypeInv
    PROVE  /\ DemoCountEntriesByUser = CountEntriesByUserAndEntryType(entries)
           /\ DemoCountPerTopic = CountEntriesPerTopicByEntryType(entries)
           /\ DemoCountPerRelease = CountEntriesPerReleaseByEntryType(entries)
<1> DEFINE D == DOMAIN entries
<1>1. DemoCountEntriesByUser = CountEntriesByUserAndEntryType(entries)
    <2> DEFINE keys == [i \in D |-> {entries[i].user}]
    <2>1. (UNION {keys[i] : i \in D}) \ {Empty} = {entries[i].user : i \in D} \ {Empty}
        OBVIOUS
    <2>2. \A u : {i \in D : u \in keys[i]} = {i \in D : entries[i].user = u}
        OBVIOUS
    <2>3. DemoCountEntriesByUser = Counters(keys, D)
        <3>1. DemoCountEntriesByUser = CountBy(keys)
            BY DEF DemoCountEntriesByUser
        <3> QED BY <3>1, CountsAreGroups
    <2> HIDE DEF keys
    <2> QED BY <2>1, <2>2, <2>3 DEF Counters, CountEntriesByUserAndEntryType
<1>2. DemoCountPerTopic = CountEntriesPerTopicByEntryType(entries)
    <2> DEFINE keys == [i \in D |-> entries[i].topics]
    <2>1. (UNION {keys[i] : i \in D}) \ {Empty} = (UNION {entries[i].topics : i \in D}) \ {Empty}
        OBVIOUS
    <2>2. \A t : {i \in D : t \in keys[i]} = {i \in D : t \in entries[i].topics}
        OBVIOUS
    <2>3. DemoCountPerTopic = Counters(keys, D)
        <3>1. DemoCountPerTopic = CountBy(keys)
            BY DEF DemoCountPerTopic
        <3> QED BY <3>1, CountsAreGroups
    <2> HIDE DEF keys
    <2> QED BY <2>1, <2>2, <2>3 DEF Counters, CountEntriesPerTopicByEntryType
<1>3. DemoCountPerRelease = CountEntriesPerReleaseByEntryType(entries)
    <2> DEFINE keys == [i \in D |-> {entries[i].release}]
    <2>1. (UNION {keys[i] : i \in D}) \ {Empty} = {entries[i].release : i \in D} \ {Empty}
        OBVIOUS
    <2>2. \A r : {i \in D : r \in keys[i]} = {i \in D : entries[i].release = r}
        OBVIOUS
    <2>3. DemoCountPerRelease = Counters(keys, D)
        <3>1. DemoCountPerRelease = CountBy(keys)
            BY DEF DemoCountPerRelease
        <3> QED BY <3>1, CountsAreGroups
    <2> HIDE DEF keys
    <2> QED BY <2>1, <2>2, <2>3 DEF Counters, CountEntriesPerReleaseByEntryType
<1> QED BY <1>1, <1>2, <1>3

\* The figures of the dashboard after some of the entries.
Figures(I) ==
  [total |-> Len(Slices),
   internal |-> Cardinality({i \in I : entries[i].internal}),
   closed |-> Cardinality({i \in I : entries[i].status \in Closed}),
   types |-> ByKind(entries, I),
   statuses |-> [s \in Statuses |-> Cardinality({i \in I : StatusBucket(entries[i].status) = s})]]

LEMMA OneMore ==
    ASSUME NEW I, IsFiniteSet(I), NEW i, i \notin I, NEW T
    PROVE  Cardinality((I \cup {i}) \cap T)
             = IF i \in T THEN Cardinality(I \cap T) + 1 ELSE Cardinality(I \cap T)
<1>1. IsFiniteSet(I \cap T) /\ i \notin I \cap T
    BY FS_Subset
<1>2. (I \cup {i}) \cap T = IF i \in T THEN (I \cap T) \cup {i} ELSE I \cap T
    OBVIOUS
<1>3. Cardinality((I \cap T) \cup {i}) = Cardinality(I \cap T) + 1
    BY <1>1, FS_AddElement
<1> QED BY <1>2, <1>3

LEMMA RoundTallies ==
    ASSUME NEW I, IsFiniteSet(I), NEW i, i \notin I
    PROVE  Tallied(Figures(I), entries[i]) = Figures(I \cup {i})
<1> DEFINE J == I \cup {i}
           e == entries[i]
           Int1(K) == {j \in K : entries[j].internal}
           Cl(K) == {j \in K : entries[j].status \in Closed}
           St(K, s) == {j \in K : StatusBucket(entries[j].status) = s}
           b == StatusBucket(e.status)
<1>1. Cardinality(Int1(J)) = IF e.internal THEN Cardinality(Int1(I)) + 1 ELSE Cardinality(Int1(I))
    <2> DEFINE T == Int1(J)
    <2>1. J \cap T = Int1(J) /\ I \cap T = Int1(I) /\ (i \in T <=> e.internal)
        OBVIOUS
    <2> HIDE DEF T, Int1, J
    <2> QED BY <2>1, OneMore DEF J
<1>2. Cardinality(Cl(J)) = IF e.status \in Closed THEN Cardinality(Cl(I)) + 1 ELSE Cardinality(Cl(I))
    <2> DEFINE T == Cl(J)
    <2>1. J \cap T = Cl(J) /\ I \cap T = Cl(I) /\ (i \in T <=> e.status \in Closed)
        OBVIOUS
    <2> HIDE DEF T
    <2>2. Cardinality((I \cup {i}) \cap T)
            = IF i \in T THEN Cardinality(I \cap T) + 1 ELSE Cardinality(I \cap T)
        BY OneMore
    <2>3. (I \cup {i}) \cap T = Cl(J)
        BY <2>1
    <2> HIDE DEF Cl, J, e
    <2> QED BY <2>1, <2>2, <2>3
<1>3. ASSUME NEW s \in Statuses
      PROVE  Cardinality(St(J, s)) = IF s = b THEN Cardinality(St(I, s)) + 1 ELSE Cardinality(St(I, s))
    <2> DEFINE T == St(J, s)
    <2>1. J \cap T = St(J, s) /\ I \cap T = St(I, s) /\ (i \in T <=> s = b)
        OBVIOUS
    <2> HIDE DEF T
    <2>2. Cardinality((I \cup {i}) \cap T)
            = IF i \in T THEN Cardinality(I \cap T) + 1 ELSE Cardinality(I \cap T)
        BY OneMore
    <2>3. (I \cup {i}) \cap T = St(J, s)
        BY <2>1
    <2> HIDE DEF St, J, e, b
    <2> QED BY <2>1, <2>2, <2>3
<1>4. bumpTypeCounts(ByKind(entries, I), e.kind) = ByKind(entries, J)
    BY BumpCounts
<1>5. b \in Statuses
    BY DEF StatusBucket, Statuses
<1>6. \A K : Figures(K) = [total |-> Len(Slices), internal |-> Cardinality(Int1(K)),
                           closed |-> Cardinality(Cl(K)), types |-> ByKind(entries, K),
                           statuses |-> [s \in Statuses |-> Cardinality(St(K, s))]]
    BY DEF Figures
<1> HIDE DEF J, Int1, Cl, St, b
<1>7. [[s \in Statuses |-> Cardinality(St(I, s))] EXCEPT ![b] = @ + 1]
         = [s \in Statuses |-> Cardinality(St(J, s))]
    <2>1. [[s \in Statuses |-> Cardinality(St(I, s))] EXCEPT ![b] = @ + 1]
             = [s \in Statuses |-> IF s = b THEN Cardinality(St(I, s)) + 1 ELSE Cardinality(St(I, s))]
        BY <1>5
    <2> QED BY <2>1, <1>3
<1>8. Tallied(Figures(I), e)
        = [total |-> Len(Slices), internal |-> Cardinality(Int1(J)),
           closed |-> Cardinality(Cl(J)), types |-> ByKind(entries, J),
           statuses |-> [s \in Statuses |-> Cardinality(St(J, s))]]
    <2> DEFINE x1 == Cardinality(Int1(I))
               x2 == Cardinality(Cl(I))
               x3 == ByKind(entries, I)
               x4 == [s \in Statuses |-> Cardinality(St(I, s))]
    <2>1. Figures(I) = [total |-> Len(Slices), internal |-> x1, closed |-> x2, types |-> x3, statuses |-> x4]
        BY <1>6
    <2> HIDE DEF x1, x2, x3, x4
    <2>2. Tallied(Figures(I), e)
            = [total |-> Len(Slices), internal |-> IF e.internal THEN x1 + 1 ELSE x1,
               closed |-> IF e.status \in Closed THEN x2 + 1 ELSE x2,
               types |-> bumpTypeCounts(x3, e.kind), statuses |-> [x4 EXCEPT ![b] = @ + 1]]
        <3> HIDE DEF e
        <3> QED BY <2>1 DEF Tallied, b
    <2>3. Cardinality(Int1(J)) = IF e.internal THEN x1 + 1 ELSE x1
        BY <1>1 DEF x1
    <2>4. Cardinality(Cl(J)) = IF e.status \in Closed THEN x2 + 1 ELSE x2
        BY <1>2 DEF x2
    <2>5. bumpTypeCounts(x3, e.kind) = ByKind(entries, J)
        BY <1>4 DEF x3
    <2>6. [x4 EXCEPT ![b] = @ + 1] = [s \in Statuses |-> Cardinality(St(J, s))]
        BY <1>7 DEF x4
    <2> HIDE DEF e
    <2> QED BY <2>2, <2>3, <2>4, <2>5, <2>6
<1> QED BY <1>6, <1>8 DEF J

LEMMA DashboardMirrored ==
    ASSUME TypeInv
    PROVE  DemoDashboard = [total |-> Cardinality(DOMAIN entries), internal |-> CountInternal(entries),
                            closed |-> CountClosed(entries), types |-> GroupByType(entries),
                            statuses |-> GroupByStatus(entries)]
<1> DEFINE s == Slices
           n == Len(s)
           zero == [total |-> n, internal |-> 0, closed |-> 0,
                    types |-> NoCount, statuses |-> [x \in Statuses |-> 0]]
           want == [k \in 0..n |-> Figures(Upon(s, k))]
           out == CHOOSE g : g = [k \in 0..n |->
                    IF k = 0 THEN zero ELSE Tallied(g[k - 1], entries[s[k]])]
<1>1. /\ n \in Nat /\ n = Cardinality(DOMAIN entries)
      /\ Upon(s, 0) = {} /\ Upon(s, n) = DOMAIN entries
      /\ \A k \in 1..n : Joins(s, DOMAIN entries, k)
    <2>1. IsFiniteSet(DOMAIN entries) /\ Enumerates(s, DOMAIN entries)
        BY SlicesHold
    <2> HIDE DEF s
    <2> QED BY <2>1, UponGrows
<1>2. DemoDashboard = out[n]
    BY DEF DemoDashboard
<1>3. Figures({}) = zero
    BY FS_EmptySet DEF Figures, NoCount, ByKind
<1> HIDE DEF s, n, zero
<1>4. 0 \in 0..n /\ n \in 0..n /\ \A k \in 1..n : k \in 0..n /\ k - 1 \in 0..n /\ k # 0
    BY <1>1
<1>5. want[0] = zero
    <2>1. want[0] = Figures(Upon(s, 0))
        BY <1>4
    <2> QED BY <1>1, <1>3, <2>1
<1>6. \A k \in 1..n : want[k] = Tallied(want[k - 1], entries[s[k]])
    <2>1. TAKE k \in 1..n
    <2>2. want[k] = Figures(Upon(s, k)) /\ want[k - 1] = Figures(Upon(s, k - 1))
        BY <1>4
    <2>3. /\ IsFiniteSet(Upon(s, k - 1)) /\ s[k] \notin Upon(s, k - 1)
          /\ Upon(s, k) = Upon(s, k - 1) \cup {s[k]}
        BY <1>1 DEF Joins
    <2>4. Tallied(Figures(Upon(s, k - 1)), entries[s[k]]) = Figures(Upon(s, k - 1) \cup {s[k]})
        <3> DEFINE I == Upon(s, k - 1)
                   i == s[k]
        <3>1. IsFiniteSet(I) /\ i \notin I
            BY <2>3
        <3> HIDE DEF I, i, want, out
        <3>2. Tallied(Figures(I), entries[i]) = Figures(I \cup {i})
            BY <3>1, RoundTallies
        <3> QED BY <3>2 DEF I, i
    <2> QED BY <2>2, <2>3, <2>4
<1>7. want[n] = Figures(DOMAIN entries)
    BY <1>1, <1>4
<1>8. want = [k \in 0..n |-> IF k = 0 THEN zero ELSE Tallied(want[k - 1], entries[s[k]])]
    <2>1. \A k \in 0..n : k = 0 \/ k \in 1..n
        BY <1>1
    <2>2. want = [k \in 0..n |-> want[k]]
        OBVIOUS
    <2> HIDE DEF want
    <2> QED BY <1>5, <1>6, <2>1, <2>2
<1> HIDE DEF want
<1>9. out = [k \in 0..n |-> IF k = 0 THEN zero ELSE Tallied(out[k - 1], entries[s[k]])]
    BY <1>8
<1> HIDE DEF out
<1>10. out[0] = zero /\ \A k \in 1..n : out[k] = Tallied(out[k - 1], entries[s[k]])
    BY <1>4, <1>9
<1>11. out[n] = want[n]
    <2>1. \A k \in 1..n : out[k - 1] = want[k - 1] => out[k] = want[k]
        BY <1>6, <1>10
    <2>2. out[0] = want[0]
        BY <1>5, <1>10
    <2> QED BY <1>1, <2>1, <2>2, Rounds
<1>12. DemoDashboard = Figures(DOMAIN entries)
    BY <1>2, <1>7, <1>11
<1>13. Len(Slices) = Cardinality(DOMAIN entries)
    BY <1>1 DEF n, s
<1> QED BY <1>12, <1>13 DEF Figures, CountInternal, CountClosed, GroupByType, GroupByStatus

\* Each author is found where first seen.
LEMMA AuthorsMirrored ==
    ASSUME TypeInv
    PROVE  ToSet(DemoListEntryAuthorIDs) = ListEntryAuthorIDs(entries)
<1> DEFINE s == Slices
           n == Len(s)
           user == [k \in 1..n |-> entries[s[k]].user]
           P == {k \in 1..n : entries[s[k]].user \notin {Empty} \cup {entries[s[j]].user : j \in 1..k - 1}}
           at == Ascending(P)
           U == {entries[i].user : i \in DOMAIN entries} \ {Empty}
<1>1. /\ n \in Nat /\ (\A k \in 1..n : s[k] \in DOMAIN entries)
      /\ (\A i \in DOMAIN entries : \E k \in 1..n : s[k] = i)
    <2>1. IsFiniteSet(DOMAIN entries) /\ Enumerates(s, DOMAIN entries)
        BY SlicesHold
    <2>2. n = Cardinality(DOMAIN entries)
        BY <2>1, EnumerationIsASeq
    <2> HIDE DEF s
    <2> QED BY <2>1, <2>2, EnumerationIsASeq DEF Enumerates
<1>2. DemoListEntryAuthorIDs = [m \in DOMAIN at |-> entries[s[at[m]]].user]
    BY DEF DemoListEntryAuthorIDs
<1> HIDE DEF s, n
<1>3. IsFiniteSet(P) /\ P \subseteq Int
    <2>1. P \subseteq 1..n /\ P \subseteq Int
        OBVIOUS
    <2>2. IsFiniteSet(1..n)
        BY <1>1, FS_Interval
    <2> HIDE DEF P
    <2> QED BY <2>1, <2>2, FS_Subset
<1>4. DOMAIN at = 1..Len(at) /\ ToSet(at) = P
    <2> HIDE DEF P, at
    <2>1. Orders(NumberOrder(P), P) /\ Ordered(at, P, NumberOrder(P))
        BY <1>3, NumbersSort DEF at
    <2> QED BY <1>3, <2>1, OrderedIsASeq
<1>5. ToSet(DemoListEntryAuthorIDs) = {entries[s[k]].user : k \in P}
    <2> HIDE DEF P, at
    <2> QED BY <1>2, <1>4 DEF ToSet
<1>6. {entries[s[k]].user : k \in P} \subseteq U
    BY <1>1
<1>7. ASSUME NEW x \in U PROVE \E k \in P : entries[s[k]].user = x
    <2> DEFINE K == {k \in 1..n : entries[s[k]].user = x}
    <2>1. K # {}
        BY <1>1
    <2>2. IsFiniteSet(K) /\ K \subseteq Int
        <3>1. K \subseteq 1..n /\ K \subseteq Int
            OBVIOUS
        <3>2. IsFiniteSet(1..n)
            BY <1>1, FS_Interval
        <3> HIDE DEF K
        <3> QED BY <3>1, <3>2, FS_Subset
    <2>3. PICK k \in K : AtLeast(K, k)
        <3> HIDE DEF K
        <3> QED BY <2>1, <2>2, Least
    <2>4. \A j \in 1..k - 1 : j \in 1..n /\ j \notin K
        <3>1. \A j \in 1..k - 1 : j \in 1..n /\ ~(k <= j)
            BY <1>1
        <3> QED BY <2>3, <3>1 DEF AtLeast
    <2>5. \A j \in 1..k - 1 : entries[s[j]].user # x
        BY <2>4
    <2>6. k \in P
        BY <2>5
    <2> QED BY <2>6
<1> HIDE DEF P
<1>8. U \subseteq {entries[s[k]].user : k \in P}
    BY <1>7
<1> HIDE DEF U
<1>9. ToSet(DemoListEntryAuthorIDs) = U
    BY <1>5, <1>6, <1>8
<1> QED BY <1>9 DEF ListEntryAuthorIDs, U

LEMMA AllCountsMirrored ==
    ASSUME TypeInv
    PROVE  CountsMirrored
<1>1. ASSUME NEW r PROVE DemoCountByRelease(r) = CountEntriesByReleaseID(entries, r)
    <2> DEFINE T == {i \in DOMAIN entries : entries[i].release = r}
    <2>1. Len(Picked(Slices, T)) = Cardinality(T)
        BY SlicesHold
    <2> QED BY <2>1 DEF DemoCountByRelease, CountEntriesByReleaseID
<1> QED BY <1>1, GroupsMirrored, DashboardMirrored, AuthorsMirrored DEF CountsMirrored

\* Whatever is listed of the entries.
LEMMA AllEntriesMirrored ==
    ASSUME TypeInv
    PROVE  EntriesMirrored
<1>1. comments \in CommentType
    BY DEF TypeInv
<1>2. ASSUME NEW f \in Questions
      PROVE  DemoListEntries(f) = ListEntries(entries, f) /\ DemoCountEntries(f) = CountEntries(entries, f)
    <2>1. f \in EntryListFilter
        BY CataloguesAssumption
    <2> QED BY <2>1, ListsMirrored
<1>3. ASSUME NEW b \in BOOLEAN, NEW r, NEW i
      PROVE  /\ DemoListEntriesForSimilarity(b) = ListEntriesForSimilarity(entries, b)
             /\ DemoListEntriesByReleaseID(r, b) = ListEntriesByReleaseID(entries, r, b)
             /\ DemoListEntriesForRelationAnalysis(i) = ListEntriesForRelationAnalysis(entries, i)
             /\ DemoListComments(i, b) = ListCommentsByEntryID(comments, i, b)
             /\ DemoCountComments(i) = CountCommentsByEntryID(comments, i)
    BY <1>1, NewestMirrored, CommentsMirrored
<1> QED BY <1>2, <1>3 DEF EntriesMirrored

-------------------------------------------------------------------------------
(* The demo's users, who stand in the slice in the order of insertion.     *)

LEMMA UsersSort ==
    ASSUME NEW S, S \subseteq DOMAIN Accounts
    PROVE  /\ IsFiniteSet(S) /\ Orders(AgeOrder(DOMAIN Accounts), S)
           /\ Ordered(InOrder(S, Older), S, AgeOrder(DOMAIN Accounts))
<1> DEFINE R == AgeOrder(DOMAIN Accounts)
           n == Cardinality(S)
           l == InOrder(S, Older)
<1>1. IsFiniteSet(S)
    BY ConstantsAssumption, FS_Subset
<1>2. \A u, v \in S : /\ Accounts[u].created \in Int
                      /\ Accounts[u].created = Accounts[v].created => u = v
    BY ConstantsAssumption
<1>3. \A u, v \in S : <<u, v>> \in R <=> Accounts[u].created < Accounts[v].created
    BY DEF AgeOrder, Older
<1> HIDE DEF R
<1>4. Orders(R, S)
    BY <1>2, <1>3 DEF Orders
<1>5. PICK s : Ordered(s, S, R)
    BY <1>1, <1>4, SortExists
<1>6. s \in [1..n -> S] /\ \A i, j \in 1..n : i < j => Older(s[i], s[j])
    BY <1>3, <1>5 DEF Ordered, Older
<1>7. l = CHOOSE t \in [1..n -> S] : \A i, j \in 1..n : i < j => Older(t[i], t[j])
    BY DEF InOrder
<1> HIDE DEF l, n
<1>8. l \in [1..n -> S] /\ \A i, j \in 1..n : i < j => Older(l[i], l[j])
    BY <1>6, <1>7
<1>9. Ordered(l, S, R)
    BY <1>3, <1>8 DEF Ordered, Older, n
<1> QED BY <1>1, <1>4, <1>9 DEF l, R

LEMMA UsersPicked ==
    ASSUME NEW T, T \subseteq DOMAIN Accounts
    PROVE  /\ Picked(UserSlice, T) = InOrder(T, Older) /\ Enumerates(Picked(UserSlice, T), T)
           /\ IsFiniteSet(T) /\ Len(Picked(UserSlice, T)) = Cardinality(T)
<1> DEFINE D == DOMAIN Accounts
           R == AgeOrder(D)
           s == UserSlice
<1>1. IsFiniteSet(D) /\ Orders(R, D) /\ Ordered(s, D, R)
    BY UsersSort DEF UserSlice
<1>2. D \cap T = T
    OBVIOUS
<1>3. IsFiniteSet(T) /\ Orders(R, T) /\ Ordered(InOrder(T, Older), T, R)
    BY UsersSort
<1> HIDE DEF D, R, s
<1>4. Ordered(Picked(s, T), T, R)
    BY <1>1, <1>2, PickedOrdered
<1>5. Picked(s, T) = InOrder(T, Older)
    <2> DEFINE l == InOrder(T, Older)
    <2>1. Ordered(l, T, R)
        BY <1>3
    <2> HIDE DEF l
    <2>2. Picked(s, T) = l
        BY <1>3, <1>4, <2>1, SortUnique
    <2> QED BY <2>2 DEF l
<1>6. Enumerates(Picked(s, T), T)
    BY <1>3, <1>4, OrderedEnumerates
<1>7. Len(Picked(s, T)) = Cardinality(T)
    BY <1>3, <1>6, EnumerationIsASeq
<1> QED BY <1>3, <1>5, <1>6, <1>7 DEF s

\* What leaves a user out of the demo's list leaves it out of the query's.
LEMMA UserSkippedUnmatched ==
    ASSUME NEW u \in DOMAIN Accounts, NEW f
    PROVE  UserSkipped(Accounts[u], f) <=> ~UserMatches(Accounts[u], f)
<1> DEFINE a == Accounts[u]
<1>1. DOMAIN a.names = {"email", "custom"}
    BY CataloguesAssumption
<1>2. UNION {a.names[t] : t \in DOMAIN a.names} = a.names["email"] \cup a.names["custom"]
    BY <1>1
<1>3. (f.search \in a.keys \cup UNION {a.names[t] : t \in DOMAIN a.names})
        <=> f.search \in a.keys \cup a.names["email"] \cup a.names["custom"]
    BY <1>2
<1> HIDE DEF a
<1>4. UserSkipped(a, f)
        <=> \/ a.deleted
            \/ f.search # Empty /\ ~(f.search \in a.keys \cup a.names["email"] \cup a.names["custom"])
            \/ f.role \in {"admin", "editor"} /\ ~(f.role \in a.roles)
            \/ f.role = "none" /\ a.roles # {}
            \/ f.status = "active" /\ a.blocked
            \/ f.status = "blocked" /\ ~a.blocked
    BY <1>3 DEF UserSkipped
<1>5. UserMatches(a, f)
        <=> /\ ~a.deleted
            /\ f.search = Empty \/ f.search \in a.keys \cup a.names["email"] \cup a.names["custom"]
            /\ f.role \in {"admin", "editor"} => f.role \in a.roles
            /\ f.role = "none" => a.roles = {}
            /\ f.status = "active" => ~a.blocked
            /\ f.status = "blocked" => a.blocked
    BY DEF UserMatches
<1>6. UserSkipped(a, f) <=> ~UserMatches(a, f)
    BY <1>4, <1>5
<1> QED BY <1>6 DEF a

\* The first of a slice of one at most is what the query finds.
LEMMA FirstFound ==
    ASSUME NEW S, IsFiniteSet(S), NEW s, Enumerates(s, S), \A x, y \in S : x = y
    PROVE  FirstOf(s) = QueryOne(S)
<1>1. s \in Seq(S) /\ Len(s) = Cardinality(S) /\ \A x \in S : \E k \in 1..Len(s) : s[k] = x
    BY EnumerationIsASeq
<1>2. CASE S = {}
    <2>1. Cardinality(S) = 0
        BY <1>2, FS_EmptySet
    <2>2. s = <<>>
        BY <1>1, <2>1, EmptySeq
    <2> QED BY <2>1, <2>2, <1>2 DEF FirstOf, QueryOne
<1>3. CASE S # {}
    <2>1. PICK x \in S : S = {x}
        BY <1>3
    <2>2. Cardinality(S) = 1
        BY <2>1, FS_Singleton
    <2>3. s # <<>> /\ s[1] = x
        BY <1>1, <2>1, <2>2, EmptySeq
    <2> QED BY <2>1, <2>2, <2>3 DEF FirstOf, QueryOne
<1> QED BY <1>2, <1>3

\* Those with roles are sorted once more, and were in that order.
LEMMA RolesMirrored ==
    DemoListUsersWithRoles = ListUsersWithRoles
<1> DEFINE S == {u \in DOMAIN Accounts : Accounts[u].roles # {}}
           R == AgeOrder(DOMAIN Accounts)
           s == Picked(UserSlice, S)
           n == Len(s)
           Ahead(i, j) == Older(s[i], s[j]) \/ (~Older(s[j], s[i]) /\ i < j)
           o == CHOOSE q \in [1..Cardinality(DOMAIN s) -> DOMAIN s] :
                  \A a, b \in 1..Cardinality(DOMAIN s) : a < b => Ahead(q[a], q[b])
<1>1. IsFiniteSet(S) /\ Orders(R, S) /\ Ordered(InOrder(S, Older), S, R)
    <2>1. S \subseteq DOMAIN Accounts
        OBVIOUS
    <2> HIDE DEF S
    <2> QED BY <2>1, UsersSort
<1>2. Enumerates(s, S)
    <2>1. S \subseteq DOMAIN Accounts
        OBVIOUS
    <2> HIDE DEF S
    <2> QED BY <2>1, UsersPicked
<1>3. /\ n \in Nat /\ Cardinality(1..n) = n /\ DOMAIN s = 1..n /\ \A k \in 1..n : s[k] \in S
      /\ \E t : Stably(t, s, R)
    <2> HIDE DEF S, R, s
    <2> QED BY <1>1, <1>2, StableSorts DEF n
<1>4. \A x, y \in S : <<x, y>> \in R <=> Older(x, y)
    BY DEF AgeOrder
<1>5. DemoListUsersWithRoles = [k \in 1..n |-> s[o[k]]]
    BY <1>3 DEF DemoListUsersWithRoles, StableSort, InOrder
<1>6. o = CHOOSE q \in [1..n -> 1..n] : \A a, b \in 1..n : a < b => Ahead(q[a], q[b])
    BY <1>3
<1>7. ListUsersWithRoles = InOrder(S, Older)
    BY DEF ListUsersWithRoles
<1> HIDE DEF S, R, s, n
<1>8. \A i, j \in 1..n : Ahead(i, j) <=> <<s[i], s[j]>> \in R \/ (<<s[j], s[i]>> \notin R /\ i < j)
    BY <1>3, <1>4
<1> HIDE DEF Ahead
<1>9. \A q \in [1..n -> 1..n] :
         Stably(q, s, R) <=> \A a, b \in 1..n : a < b => Ahead(q[a], q[b])
    BY <1>8 DEF Stably, n
<1> HIDE DEF o
<1>10. Stably(o, s, R)
    <2>1. PICK t : Stably(t, s, R)
        BY <1>3
    <2>2. t \in [1..n -> 1..n] /\ \A a, b \in 1..n : a < b => Ahead(t[a], t[b])
        BY <1>9, <2>1 DEF Stably, n
    <2>3. o \in [1..n -> 1..n] /\ \A a, b \in 1..n : a < b => Ahead(o[a], o[b])
        BY <1>6, <2>2
    <2> QED BY <1>9, <2>3
<1>11. Ordered(DemoListUsersWithRoles, S, R)
    BY <1>1, <1>2, <1>5, <1>10, StableSorts DEF n
<1> DEFINE l == InOrder(S, Older)
<1>12. Ordered(l, S, R) /\ ListUsersWithRoles = l
    BY <1>1, <1>7
<1> HIDE DEF l
<1> QED BY <1>1, <1>11, <1>12, SortUnique

LEMMA AllUsersMirrored ==
    UsersMirrored
<1> DEFINE D == DOMAIN Accounts
<1>1. ASSUME NEW f PROVE filterUsers(f) = ListAllUsers(f)
    <2> DEFINE T == {u \in D : ~UserSkipped(Accounts[u], f)}
    <2>1. T = Matching(f) /\ T \subseteq D
        BY UserSkippedUnmatched DEF Matching
    <2>2. ListAllUsers(f) = InOrder(Matching(f), Older)
        BY AllUsers
    <2>3. filterUsers(f) = Picked(UserSlice, T)
        BY DEF filterUsers
    <2> HIDE DEF T
    <2>4. Picked(UserSlice, T) = InOrder(T, Older)
        BY <2>1, UsersPicked
    <2> QED BY <2>1, <2>2, <2>3, <2>4
<1>2. DemoCountActiveAdmins = CountActiveAdmins
    <2> DEFINE T == {u \in D : ~Accounts[u].blocked /\ ~Accounts[u].deleted /\ "admin" \in Accounts[u].roles}
    <2>1. T \subseteq D /\ DemoCountActiveAdmins = Len(Picked(UserSlice, T))
        BY DEF DemoCountActiveAdmins
    <2>2. CountActiveAdmins = Cardinality(T)
        <3>1. T = {u \in D : "admin" \in Accounts[u].roles /\ ~Accounts[u].blocked /\ ~Accounts[u].deleted}
            OBVIOUS
        <3> QED BY <3>1 DEF CountActiveAdmins
    <2> HIDE DEF T
    <2> QED BY <2>1, <2>2, UsersPicked
<1>3. ASSUME NEW k PROVE DemoFindUserByKey(k) = FindUserByKey(k)
    <2> DEFINE T == {u \in D : k \in Accounts[u].keys}
    <2>1. CASE k = Empty
        <3>1. {u \in D : k # Empty /\ k \in Accounts[u].keys} = {}
            BY <2>1
        <3>2. QueryOne({}) = {}
            BY DEF QueryOne
        <3> QED BY <2>1, <3>1, <3>2 DEF DemoFindUserByKey, FindUserByKey
    <2>2. CASE k # Empty
        <3>1. {u \in D : k # Empty /\ k \in Accounts[u].keys} = T
            BY <2>2
        <3>2. T \subseteq D /\ \A x, y \in T : x = y
            BY CataloguesAssumption
        <3>3. DemoFindUserByKey(k) = FirstOf(Picked(UserSlice, T)) /\ FindUserByKey(k) = QueryOne(T)
            BY <2>2, <3>1 DEF DemoFindUserByKey, FindUserByKey
        <3> HIDE DEF T
        <3>4. Enumerates(Picked(UserSlice, T), T) /\ IsFiniteSet(T)
            BY <3>2, UsersPicked
        <3> QED BY <3>2, <3>3, <3>4, FirstFound
    <2> QED BY <2>1, <2>2
<1>4. ASSUME NEW ids \in SUBSET D PROVE DemoListUsersByIDs(ids) = ListUsersByIDs(ids)
    <2>1. D \cap ids = ids
        OBVIOUS
    <2>2. ListUsersByIDs(ids) = InOrder(ids, Older)
        BY <2>1 DEF ListUsersByIDs
    <2>3. Picked(UserSlice, ids) = InOrder(ids, Older)
        BY UsersPicked
    <2> QED BY <2>2, <2>3 DEF DemoListUsersByIDs
<1> QED BY <1>1, <1>2, <1>3, <1>4, RolesMirrored DEF UsersMirrored

-------------------------------------------------------------------------------
(* The demo's other collections.                                           *)

LEMMA CollectedRows ==
    ASSUME NEW c, Rows(c), NEW T, T \subseteq DOMAIN c
    PROVE  /\ Enumerates(Collected(c, T), T) /\ IsFiniteSet(T)
           /\ Len(Collected(c, T)) = Cardinality(T) /\ ToSet(Collected(c, T)) = T
<1> DEFINE D == DOMAIN c
           R == NumberOrder(D)
           s == Ascending(D)
<1>1. IsFiniteSet(D) /\ Orders(R, D) /\ Ordered(s, D, R)
    BY NumbersSort DEF Rows
<1>2. D \cap T = T
    OBVIOUS
<1>3. Collected(c, T) = Picked(s, T)
    BY DEF Collected
<1> HIDE DEF D, R, s
<1>4. Enumerates(s, D)
    BY <1>1, OrderedEnumerates
<1>5. Enumerates(Picked(s, T), T) /\ IsFiniteSet(T)
    BY <1>1, <1>2, <1>4, PickedEnumerates
<1> QED BY <1>3, <1>5, EnumerationIsASeq

\* No two topics share their order, so titles and moments never decide.
TopicOrder(c) == {p \in (DOMAIN c) \X (DOMAIN c) : c[p[1]].order < c[p[2]].order}

LEMMA TopicsMirrored ==
    ASSUME NEW k \in Catalogues
    PROVE  DemoListEntryTopics(k.topics) = ListEntryTopics(k.topics)
<1> DEFINE c == k.topics
           S == DOMAIN c
           R == TopicOrder(c)
           s == Collected(c, S)
           n == Len(s)
           m == Cardinality(S)
           Less(i, j) == IF c[i].order # c[j].order THEN c[i].order < c[j].order
                                                    ELSE c[i].created < c[j].created
           Less2(i, j) == c[i].order < c[j].order \/ (c[i].order = c[j].order /\ c[i].title < c[j].title)
           Ahead(i, j) == Less(s[i], s[j]) \/ (~Less(s[j], s[i]) /\ i < j)
           o == CHOOSE q \in [1..Cardinality(DOMAIN s) -> DOMAIN s] :
                  \A a, b \in 1..Cardinality(DOMAIN s) : a < b => Ahead(q[a], q[b])
           l == CHOOSE q \in [1..m -> S] : \A a, b \in 1..m : a < b => Less2(q[a], q[b])
<1>1. /\ Rows(c) /\ \A i, j \in S : c[i].order = c[j].order => i = j
      /\ \A i \in S : c[i].order \in Int /\ c[i].title \in Int /\ c[i].created \in Int
    BY CataloguesAssumption
<1>2. Enumerates(s, S) /\ IsFiniteSet(S)
    BY <1>1, CollectedRows
<1>3. \A x, y \in S : <<x, y>> \in R <=> c[x].order < c[y].order
    BY DEF TopicOrder
<1>4. Orders(R, S)
    <2> HIDE DEF R, S, c
    <2> QED BY <1>1, <1>3 DEF Orders
<1>5. \A x, y \in S : (<<x, y>> \in R <=> Less(x, y)) /\ (<<x, y>> \in R <=> Less2(x, y))
    <2> HIDE DEF R, S, c
    <2>1. TAKE x, y \in S
    <2>2. CASE x = y
        <3>1. ~(c[x].order < c[x].order) /\ ~(c[x].created < c[x].created) /\ ~(c[x].title < c[x].title)
            BY <1>1
        <3> QED BY <1>3, <2>2, <3>1
    <2>3. CASE x # y
        <3>1. c[x].order # c[y].order
            BY <1>1, <2>3
        <3> QED BY <1>3, <3>1
    <2> QED BY <2>2, <2>3
<1>6. /\ n \in Nat /\ Cardinality(1..n) = n /\ DOMAIN s = 1..n /\ \A a \in 1..n : s[a] \in S
      /\ \E t : Stably(t, s, R)
    <2> HIDE DEF S, R, s
    <2> QED BY <1>2, <1>4, StableSorts DEF n
<1>7. DemoListEntryTopics(c) = [a \in 1..n |-> s[o[a]]]
    BY <1>6 DEF DemoListEntryTopics, StableSort, InOrder
<1>8. o = CHOOSE q \in [1..n -> 1..n] : \A a, b \in 1..n : a < b => Ahead(q[a], q[b])
    <2> HIDE DEF Ahead, s, n
    <2> QED BY <1>6
<1>9. l = ListEntryTopics(c)
    BY DEF ListEntryTopics, InOrder
<1> HIDE DEF S, R, s, n, m, Less, Less2, c
<1>10. \A i, j \in 1..n : Ahead(i, j) <=> <<s[i], s[j]>> \in R \/ (<<s[j], s[i]>> \notin R /\ i < j)
    BY <1>5, <1>6
<1> HIDE DEF Ahead
<1>11. \A q \in [1..n -> 1..n] :
         Stably(q, s, R) <=> \A a, b \in 1..n : a < b => Ahead(q[a], q[b])
    BY <1>10 DEF Stably, n
<1> HIDE DEF o
<1>12. Stably(o, s, R)
    <2>1. PICK t : Stably(t, s, R)
        BY <1>6
    <2>2. t \in [1..n -> 1..n] /\ \A a, b \in 1..n : a < b => Ahead(t[a], t[b])
        BY <1>11, <2>1 DEF Stably, n
    <2>3. o \in [1..n -> 1..n] /\ \A a, b \in 1..n : a < b => Ahead(o[a], o[b])
        BY <1>8, <2>2
    <2> QED BY <1>11, <2>3
<1>13. Ordered(DemoListEntryTopics(c), S, R)
    BY <1>2, <1>4, <1>7, <1>12, StableSorts DEF n
<1>14. Ordered(l, S, R)
    <2>1. PICK t : Ordered(t, S, R)
        BY <1>2, <1>4, SortExists
    <2>2. t \in [1..m -> S] /\ \A a, b \in 1..m : a < b => Less2(t[a], t[b])
        BY <1>5, <2>1 DEF Ordered, m
    <2>3. l \in [1..m -> S] /\ \A a, b \in 1..m : a < b => Less2(l[a], l[b])
        BY <2>2
    <2> HIDE DEF l
    <2> QED BY <1>5, <2>3 DEF Ordered, m
<1>15. DemoListEntryTopics(c) = ListEntryTopics(c)
    BY <1>2, <1>4, <1>9, <1>13, <1>14, SortUnique
<1> QED BY <1>15 DEF c

\* The latest release first.
ReleaseOrder(c, S) == {p \in S \X S : ReleasedLater(c, p[1], p[2])}
Dated(c, S) ==
  /\ IsFiniteSet(S)
  /\ \A i \in S : c[i].date \in Int /\ c[i].created \in Int
  /\ \A i, j \in S : c[i].date = c[j].date /\ c[i].created = c[j].created => i = j

LEMMA ReleasesOrder ==
    ASSUME NEW c, NEW S, Dated(c, S)
    PROVE  /\ Orders(ReleaseOrder(c, S), S)
           /\ \A x, y \in S : <<x, y>> \in ReleaseOrder(c, S) <=> ReleasedLater(c, x, y)
<1> DEFINE R == ReleaseOrder(c, S)
<1>1. \A x, y \in S : <<x, y>> \in R <=> ReleasedLater(c, x, y)
    BY DEF ReleaseOrder
<1> HIDE DEF R
<1>2. Orders(R, S)
    <2>1. \A x \in S : <<x, x>> \notin R
        BY <1>1 DEF Dated, ReleasedLater
    <2>2. \A x, y \in S : x # y => <<x, y>> \in R \/ <<y, x>> \in R
        BY <1>1 DEF Dated, ReleasedLater
    <2>3. \A x, y, z \in S : <<x, y>> \in R /\ <<y, z>> \in R => <<x, z>> \in R
        BY <1>1 DEF Dated, ReleasedLater
    <2> QED BY <2>1, <2>2, <2>3 DEF Orders
<1> QED BY <1>1, <1>2 DEF R

LEMMA ReleasesSorted ==
    ASSUME NEW c, NEW S, Dated(c, S), NEW s, Enumerates(s, S)
    PROVE  Ordered(SortReleases(c, s), S, ReleaseOrder(c, S))
<1> DEFINE R == ReleaseOrder(c, S)
           n == Len(s)
           Ahead(i, j) == ReleasedLater(c, s[i], s[j]) \/ (~ReleasedLater(c, s[j], s[i]) /\ i < j)
           o == CHOOSE q \in [1..Cardinality(DOMAIN s) -> DOMAIN s] :
                  \A a, b \in 1..Cardinality(DOMAIN s) : a < b => Ahead(q[a], q[b])
<1>1. IsFiniteSet(S) /\ Orders(R, S) /\ \A x, y \in S : <<x, y>> \in R <=> ReleasedLater(c, x, y)
    BY ReleasesOrder DEF Dated
<1> HIDE DEF R
<1>2. /\ n \in Nat /\ Cardinality(1..n) = n /\ DOMAIN s = 1..n /\ \A k \in 1..n : s[k] \in S
      /\ \E t : Stably(t, s, R)
    BY <1>1, StableSorts
<1>3. SortReleases(c, s) = [k \in 1..n |-> s[o[k]]]
    BY <1>2 DEF SortReleases, StableSort, InOrder
<1>4. o = CHOOSE q \in [1..n -> 1..n] : \A a, b \in 1..n : a < b => Ahead(q[a], q[b])
    <2> HIDE DEF Ahead, n
    <2> QED BY <1>2
<1> HIDE DEF n
<1>5. \A i, j \in 1..n : Ahead(i, j) <=> <<s[i], s[j]>> \in R \/ (<<s[j], s[i]>> \notin R /\ i < j)
    BY <1>1, <1>2
<1> HIDE DEF Ahead
<1>6. \A q \in [1..n -> 1..n] :
         Stably(q, s, R) <=> \A a, b \in 1..n : a < b => Ahead(q[a], q[b])
    BY <1>5 DEF Stably, n
<1> HIDE DEF o
<1>7. Stably(o, s, R)
    <2>1. PICK t : Stably(t, s, R)
        BY <1>2
    <2>2. t \in [1..n -> 1..n] /\ \A a, b \in 1..n : a < b => Ahead(t[a], t[b])
        BY <1>6, <2>1 DEF Stably, n
    <2>3. o \in [1..n -> 1..n] /\ \A a, b \in 1..n : a < b => Ahead(o[a], o[b])
        BY <1>4, <2>2
    <2> QED BY <1>6, <2>3
<1>8. Ordered(SortReleases(c, s), S, R)
    BY <1>1, <1>3, <1>7, StableSorts DEF n
<1> QED BY <1>8 DEF R

LEMMA ReleasesListed ==
    ASSUME NEW c, NEW S, Dated(c, S), NEW l,
           l = CHOOSE q \in [1..Cardinality(S) -> S] :
                 \A a, b \in 1..Cardinality(S) : a < b => ReleasedLater(c, q[a], q[b])
    PROVE  Ordered(l, S, ReleaseOrder(c, S))
<1> DEFINE R == ReleaseOrder(c, S)
           m == Cardinality(S)
<1>1. IsFiniteSet(S) /\ Orders(R, S) /\ \A x, y \in S : <<x, y>> \in R <=> ReleasedLater(c, x, y)
    BY ReleasesOrder DEF Dated
<1> HIDE DEF R, m
<1>2. PICK t : Ordered(t, S, R)
    BY <1>1, SortExists
<1>3. t \in [1..m -> S] /\ \A a, b \in 1..m : a < b => ReleasedLater(c, t[a], t[b])
    BY <1>1, <1>2 DEF Ordered, m
<1>4. l \in [1..m -> S] /\ \A a, b \in 1..m : a < b => ReleasedLater(c, l[a], l[b])
    BY <1>3 DEF m
<1>5. Ordered(l, S, R)
    BY <1>1, <1>4 DEF Ordered, m
<1> QED BY <1>5 DEF R

LEMMA ReleasesMirrored ==
    ASSUME NEW k \in Catalogues, NEW state, NEW name
    PROVE  /\ DemoListReleases(k.releases) = ListReleases(k.releases)
           /\ DemoListReleasesByState(k.releases, state) = ListReleasesByState(k.releases, state)
           /\ DemoFindReleaseByVersionName(k.releases, name) = FindReleaseByVersionName(k.releases, name)
<1> DEFINE c == k.releases
<1>1. /\ Rows(c) /\ \A i \in DOMAIN c : c[i].date \in Int /\ c[i].created \in Int
      /\ \A i, j \in DOMAIN c : c[i].date = c[j].date /\ c[i].created = c[j].created => i = j
      /\ \A i, j \in DOMAIN c : c[i].name = c[j].name => i = j
    BY CataloguesAssumption
<1> HIDE DEF c
<1>2. ASSUME NEW S, S \subseteq DOMAIN c, NEW l,
             l = CHOOSE q \in [1..Cardinality(S) -> S] :
                   \A a, b \in 1..Cardinality(S) : a < b => ReleasedLater(c, q[a], q[b])
      PROVE  SortReleases(c, Collected(c, S)) = l
    <2> DEFINE R == ReleaseOrder(c, S)
    <2>1. Enumerates(Collected(c, S), S) /\ IsFiniteSet(S)
        BY <1>1, <1>2, CollectedRows
    <2>2. Dated(c, S)
        BY <1>1, <1>2, <2>1 DEF Dated
    <2>3. Orders(R, S)
        BY <2>2, ReleasesOrder
    <2>4. Ordered(SortReleases(c, Collected(c, S)), S, R)
        BY <2>1, <2>2, ReleasesSorted
    <2>5. Ordered(l, S, R)
        BY <1>2, <2>2, ReleasesListed
    <2> QED BY <2>1, <2>3, <2>4, <2>5, SortUnique
<1>3. DemoListReleases(c) = ListReleases(c)
    <2> DEFINE S == DOMAIN c
    <2>1. ListReleases(c) = CHOOSE q \in [1..Cardinality(S) -> S] :
             \A a, b \in 1..Cardinality(S) : a < b => ReleasedLater(c, q[a], q[b])
        BY DEF ListReleases, InOrder
    <2>2. S \subseteq DOMAIN c /\ DemoListReleases(c) = SortReleases(c, Collected(c, S))
        BY DEF DemoListReleases
    <2> HIDE DEF S
    <2> QED BY <1>2, <2>1, <2>2
<1>4. DemoListReleasesByState(c, state) = ListReleasesByState(c, state)
    <2> DEFINE S == {i \in DOMAIN c : c[i].state = state}
    <2>1. ListReleasesByState(c, state) = CHOOSE q \in [1..Cardinality(S) -> S] :
             \A a, b \in 1..Cardinality(S) : a < b => ReleasedLater(c, q[a], q[b])
        BY DEF ListReleasesByState, InOrder
    <2>2. S \subseteq DOMAIN c /\ DemoListReleasesByState(c, state) = SortReleases(c, Collected(c, S))
        BY DEF DemoListReleasesByState
    <2> HIDE DEF S
    <2> QED BY <1>2, <2>1, <2>2
<1>5. DemoFindReleaseByVersionName(c, name) = FindReleaseByVersionName(c, name)
    <2> DEFINE S == {i \in DOMAIN c : c[i].name = name}
    <2>1. S \subseteq DOMAIN c /\ \A x, y \in S : x = y
        BY <1>1
    <2>2. /\ DemoFindReleaseByVersionName(c, name) = FirstOf(Collected(c, S))
          /\ FindReleaseByVersionName(c, name) = QueryOne(S)
        BY DEF DemoFindReleaseByVersionName, FindReleaseByVersionName
    <2> HIDE DEF S
    <2>3. Enumerates(Collected(c, S), S) /\ IsFiniteSet(S)
        BY <1>1, <2>1, CollectedRows
    <2> QED BY <2>1, <2>2, <2>3, FirstFound
<1> QED BY <1>3, <1>4, <1>5 DEF c

LEMMA VotesMirrored ==
    ASSUME NEW k \in Catalogues, NEW user, NEW e, NEW ids
    PROVE  /\ DemoFindVote(k.votes, user, e) = FindVote(k.votes, user, e)
           /\ DemoVotedEntryIDs(k.votes, user, ids) = VotedEntryIDs(k.votes, user, ids)
           /\ DemoCountVotesForEntry(k.votes, e) = CountVotesForEntry(k.votes, e)
<1> DEFINE c == k.votes
<1>1. /\ Rows(c) /\ \A i \in DOMAIN c : c[i].user # Empty
      /\ \A i, j \in DOMAIN c : c[i].user = c[j].user /\ c[i].entry = c[j].entry => i = j
    BY CataloguesAssumption
<1> HIDE DEF c
<1>2. DemoFindVote(c, user, e) = FindVote(c, user, e)
    <2> DEFINE S == {i \in DOMAIN c : c[i].user = user /\ c[i].entry = e}
    <2>1. S \subseteq DOMAIN c /\ \A x, y \in S : x = y
        BY <1>1
    <2>2. S = {i \in DOMAIN c : user # Empty /\ c[i].user = user /\ c[i].entry = e}
        BY <1>1
    <2>3. DemoFindVote(c, user, e) = FirstOf(Collected(c, S)) /\ FindVote(c, user, e) = QueryOne(S)
        BY <2>2 DEF DemoFindVote, FindVote
    <2> HIDE DEF S
    <2>4. Enumerates(Collected(c, S), S) /\ IsFiniteSet(S)
        BY <1>1, <2>1, CollectedRows
    <2> QED BY <2>1, <2>3, <2>4, FirstFound
<1>3. DemoVotedEntryIDs(c, user, ids) = VotedEntryIDs(c, user, ids)
    <2> DEFINE S == {j \in DOMAIN c : c[j].user = user /\ c[j].entry \in ids}
    <2>1. ToSet(Collected(c, S)) = S
        <3>1. S \subseteq DOMAIN c
            OBVIOUS
        <3> HIDE DEF S
        <3> QED BY <1>1, <3>1, CollectedRows
    <2>2. DemoVotedEntryIDs(c, user, ids)
             = IF user = Empty \/ ids = {} THEN {} ELSE {c[i].entry : i \in S}
        BY <2>1 DEF DemoVotedEntryIDs
    <2>3. VotedEntryIDs(c, user, ids)
             = {c[i].entry : i \in {j \in DOMAIN c : user # Empty /\ c[j].user = user}} \cap ids
        BY DEF VotedEntryIDs
    <2>4. CASE user = Empty \/ ids = {}
        BY <2>2, <2>3, <2>4
    <2>5. CASE user # Empty /\ ids # {}
        <3>1. {c[i].entry : i \in {j \in DOMAIN c : user # Empty /\ c[j].user = user}} \cap ids
                = {c[i].entry : i \in S}
            BY <2>5
        <3> QED BY <2>2, <2>3, <2>5, <3>1
    <2> QED BY <2>4, <2>5
<1>4. DemoCountVotesForEntry(c, e) = CountVotesForEntry(c, e)
    <2> DEFINE S == {i \in DOMAIN c : c[i].entry = e}
    <2>1. S \subseteq DOMAIN c
        OBVIOUS
    <2>2. DemoCountVotesForEntry(c, e) = Len(Collected(c, S)) /\ CountVotesForEntry(c, e) = Cardinality(S)
        BY DEF DemoCountVotesForEntry, CountVotesForEntry
    <2> HIDE DEF S
    <2> QED BY <1>1, <2>1, <2>2, CollectedRows
<1> QED BY <1>2, <1>3, <1>4 DEF c

\* Activities come as they happened, those of one moment by their ids.
ActivityOrder(c, S) ==
  {p \in S \X S : \/ c[p[1]].created < c[p[2]].created
                  \/ c[p[1]].created = c[p[2]].created /\ p[1] < p[2]}

LEMMA ActivitiesMirrored ==
    ASSUME NEW k \in Catalogues, NEW e
    PROVE  DemoListActivities(k.activities, e) = ListActivitiesByEntryID(k.activities, e)
<1> DEFINE c == k.activities
           S == {i \in DOMAIN c : c[i].entry = e}
           R == ActivityOrder(c, S)
           s == Collected(c, S)
           n == Len(s)
           m == Cardinality(S)
           Less(i, j) == IF c[i].created # c[j].created THEN c[i].created < c[j].created ELSE i < j
           Less2(i, j) == c[i].created < c[j].created \/ (c[i].created = c[j].created /\ i < j)
           Ahead(i, j) == Less(s[i], s[j]) \/ (~Less(s[j], s[i]) /\ i < j)
           o == CHOOSE q \in [1..Cardinality(DOMAIN s) -> DOMAIN s] :
                  \A a, b \in 1..Cardinality(DOMAIN s) : a < b => Ahead(q[a], q[b])
           l == CHOOSE q \in [1..m -> S] : \A a, b \in 1..m : a < b => Less2(q[a], q[b])
<1>1. Rows(c) /\ \A i \in S : c[i].created \in Int
    BY CataloguesAssumption
<1>2. Enumerates(s, S) /\ IsFiniteSet(S)
    <2>1. S \subseteq DOMAIN c
        OBVIOUS
    <2> HIDE DEF S, c
    <2> QED BY <1>1, <2>1, CollectedRows
<1>3. \A x, y \in S : <<x, y>> \in R <=> Less2(x, y)
    BY DEF ActivityOrder
<1>4. \A x \in S : x \in Int /\ c[x].created \in Int
    BY <1>1 DEF Rows
<1>5. Orders(R, S)
    <2> HIDE DEF R, S, c
    <2>1. \A x \in S : <<x, x>> \notin R
        BY <1>3, <1>4
    <2>2. \A x, y \in S : x # y => <<x, y>> \in R \/ <<y, x>> \in R
        BY <1>3, <1>4
    <2>3. \A x, y, z \in S : <<x, y>> \in R /\ <<y, z>> \in R => <<x, z>> \in R
        BY <1>3, <1>4
    <2> QED BY <2>1, <2>2, <2>3 DEF Orders
<1>6. \A x, y \in S : <<x, y>> \in R <=> Less(x, y)
    <2> HIDE DEF R, S, c
    <2>1. TAKE x, y \in S
    <2>2. c[x].created \in Int /\ c[y].created \in Int /\ (<<x, y>> \in R <=> Less2(x, y))
        BY <1>3, <1>4
    <2>3. CASE c[x].created = c[y].created
        <3>1. ~(c[x].created < c[y].created)
            BY <2>2, <2>3
        <3> QED BY <2>2, <2>3, <3>1
    <2>4. CASE c[x].created # c[y].created
        BY <2>2, <2>4
    <2> QED BY <2>3, <2>4
<1>7. /\ n \in Nat /\ Cardinality(1..n) = n /\ DOMAIN s = 1..n /\ \A a \in 1..n : s[a] \in S
      /\ \E t : Stably(t, s, R)
    <2> HIDE DEF S, R, s
    <2> QED BY <1>2, <1>5, StableSorts DEF n
<1>8. DemoListActivities(c, e) = [a \in 1..n |-> s[o[a]]]
    BY <1>7 DEF DemoListActivities, StableSort, InOrder
<1>9. o = CHOOSE q \in [1..n -> 1..n] : \A a, b \in 1..n : a < b => Ahead(q[a], q[b])
    <2> HIDE DEF Ahead, s, n
    <2> QED BY <1>7
<1>10. l = ListActivitiesByEntryID(c, e)
    BY DEF ListActivitiesByEntryID, InOrder
<1> HIDE DEF S, R, s, n, m, Less, Less2, c
<1>11. \A i, j \in 1..n : Ahead(i, j) <=> <<s[i], s[j]>> \in R \/ (<<s[j], s[i]>> \notin R /\ i < j)
    BY <1>6, <1>7
<1> HIDE DEF Ahead
<1>12. \A q \in [1..n -> 1..n] :
         Stably(q, s, R) <=> \A a, b \in 1..n : a < b => Ahead(q[a], q[b])
    BY <1>11 DEF Stably, n
<1> HIDE DEF o
<1>13. Stably(o, s, R)
    <2>1. PICK t : Stably(t, s, R)
        BY <1>7
    <2>2. t \in [1..n -> 1..n] /\ \A a, b \in 1..n : a < b => Ahead(t[a], t[b])
        BY <1>12, <2>1 DEF Stably, n
    <2>3. o \in [1..n -> 1..n] /\ \A a, b \in 1..n : a < b => Ahead(o[a], o[b])
        BY <1>9, <2>2
    <2> QED BY <1>12, <2>3
<1>14. Ordered(DemoListActivities(c, e), S, R)
    BY <1>2, <1>5, <1>8, <1>13, StableSorts DEF n
<1>15. Ordered(l, S, R)
    <2>1. PICK t : Ordered(t, S, R)
        BY <1>2, <1>5, SortExists
    <2>2. t \in [1..m -> S] /\ \A a, b \in 1..m : a < b => Less2(t[a], t[b])
        BY <1>3, <2>1 DEF Ordered, m
    <2>3. l \in [1..m -> S] /\ \A a, b \in 1..m : a < b => Less2(l[a], l[b])
        BY <2>2
    <2> HIDE DEF l
    <2> QED BY <1>3, <2>3 DEF Ordered, m
<1>16. DemoListActivities(c, e) = ListActivitiesByEntryID(c, e)
    BY <1>2, <1>5, <1>10, <1>14, <1>15, SortUnique
<1> QED BY <1>16 DEF c

\* The demo answers every question as the database would over the same data,
\* whatever the entries and the comments, the accounts and the catalogues
\* are: its loops find what the queries find, count what they count, and sort
\* into the one order that there is.
THEOREM TheDemoMirrors == Spec => []DemoMirrorsTheDatabase
<1>1. TypeInv => DemoMirrorsTheDatabase
    BY AllEntriesMirrored, AllCountsMirrored, AllUsersMirrored, TopicsMirrored, ReleasesMirrored,
       VotesMirrored, ActivitiesMirrored DEF DemoMirrorsTheDatabase, CatalogueMirrored
<1> QED BY <1>1, ReadsTyped, PTL

===============================================================================
