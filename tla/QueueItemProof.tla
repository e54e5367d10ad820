--------------------------- MODULE QueueItemProof ---------------------------
(***************************************************************************)
(* What the range bookkeeping of QueueItem computes, for every set of      *)
(* ranges and every block size: consolidation covers the same bytes with   *)
(* ranges that do not touch, and getNextSegment asks for a range that is   *)
(* in the file, aligned, not recorded and not asked for by anybody else.   *)
(***************************************************************************)
EXTENDS QueueItem, FiniteSetTheorems, WellFoundedInduction, TLAPS

-----------------------------------------------------------------------------
(* The minimum and maximum the search loops of getNextSegment stop at.     *)

\* A non-empty set of naturals has a least element.
LEMMA LeastNat ==
    ASSUME NEW S \in SUBSET Nat, S # {}
    PROVE  \E m \in S : \A y \in S : m =< y
<1>1. PICK m \in S : \A y \in S : <<y, m>> \notin OpToRel(<, Nat)
    BY NatLessThanWellFounded, WFMin, Zenon
<1>2. \A y \in S : ~(y < m)
    BY <1>1, Zenon DEF OpToRel
<1> QED
    BY <1>2

\* Hence it contains its Min: the loop over the start positions finds the
\* first usable one.
LEMMA MinInNat ==
    ASSUME NEW S \in SUBSET Nat, S # {}
    PROVE  Min(S) \in S /\ \A y \in S : Min(S) =< y
BY LeastNat DEF Min

\* A bounded one contains its Max: the loop over the lengths, downwards from
\* targetSize, stops at the longest usable one.
LEMMA MaxInBoundedNat ==
    ASSUME NEW N \in Nat, NEW S \in SUBSET (0 .. N), S # {}
    PROVE  Max(S) \in S /\ \A y \in S : Max(S) >= y
<1> DEFINE T == {t \in Nat : N - t \in S}
<1>1. PICK x \in S : TRUE
    OBVIOUS
<1>2. N - x \in T
    BY <1>1
<1>3. PICK m \in T : \A y \in T : m =< y
    BY <1>2, LeastNat
<1>4. \A y \in S : N - m >= y
    <2> TAKE y \in S
    <2>1. N - y \in T
        OBVIOUS
    <2>2. m =< N - y /\ m \in Nat /\ y \in Nat
        BY <1>3, <2>1
    <2> QED
        BY <2>2
<1> QED
    BY <1>3, <1>4 DEF Max

\* k blocks are at most n blocks if k <= n.
LEMMA BlocksMonotone ==
    ASSUME NEW k \in Nat, NEW n \in Nat, NEW b \in Nat, k <= n
    PROVE  k * b \in 0 .. (n * b)
<1>1. n * b = k * b + (n - k) * b
    OBVIOUS
<1>2. k * b \in Nat /\ (n - k) * b \in Nat /\ n * b \in Nat
    OBVIOUS
<1> QED
    BY <1>1, <1>2

-----------------------------------------------------------------------------
(* The order of the std::set.                                              *)

\* The ranges of a file of n bytes.
Ranges(n) == {s \in [start : Nat, size : Nat] : s.size > 0 /\ End(s) <= n}

\* What membership in Ranges says of the fields of a segment and of its end.
LEMMA RangeFields ==
    ASSUME NEW n \in Nat, NEW s \in Ranges(n)
    PROVE  /\ s.start \in Nat /\ s.size \in Nat /\ s.size > 0 /\ End(s) \in Nat
           /\ End(s) = s.start + s.size /\ s.start < End(s) /\ End(s) <= n
           /\ s = Segment(s.start, s.size)
BY DEF Ranges, End, Segment

\* Two ranges with the same fields are one.
LEMMA SameRange ==
    ASSUME NEW n \in Nat, NEW s \in Ranges(n), NEW t \in Ranges(n),
           s.start = t.start, s.size = t.size
    PROVE  s = t
BY DEF Ranges

\* Segment::operator< is a strict total order.
LEMMA Ordered ==
    ASSUME NEW n \in Nat, NEW S \in SUBSET Ranges(n)
    PROVE  /\ \A s \in S : ~Precedes(s, s)
           /\ \A s, t \in S : s = t \/ Precedes(s, t) \/ Precedes(t, s)
           /\ \A s, t \in S : ~(Precedes(s, t) /\ Precedes(t, s))
           /\ \A s, t, w \in S : Precedes(s, t) /\ Precedes(t, w) => Precedes(s, w)
           /\ \A s, t \in S : Precedes(s, t) => s.start <= t.start
<1>1. \A s \in S : s.start \in Nat /\ s.size \in Nat
    BY RangeFields
<1>2. \A s, t \in S : s.start = t.start /\ s.size = t.size => s = t
    BY SameRange
<1> QED
    BY <1>1, <1>2 DEF Precedes

\* std::set::begin.
LEMMA LeastRange ==
    ASSUME NEW n \in Nat, NEW S \in SUBSET Ranges(n), S # {}
    PROVE  \E m \in S : \A t \in S : t = m \/ Precedes(m, t)
<1>0. \A s \in S : s.start \in Nat /\ s.size \in Nat
    BY RangeFields
<1> DEFINE starts == {s.start : s \in S}
<1>1. PICK a \in starts : \A y \in starts : a =< y
    <2>1. starts \in SUBSET Nat /\ starts # {}
        BY <1>0
    <2> QED
        BY <2>1, LeastNat
<1> DEFINE F     == {s \in S : s.start = a}
           sizes == {s.size : s \in F}
<1>2. PICK b \in sizes : \A y \in sizes : b =< y
    <2>1. sizes \in SUBSET Nat /\ sizes # {}
        BY <1>0, <1>1
    <2> QED
        BY <2>1, LeastNat
<1>3. PICK m \in F : m.size = b
    BY <1>2
<1>4. ASSUME NEW t \in S PROVE t = m \/ Precedes(m, t)
    <2>1. a <= t.start /\ a \in Nat /\ t.start \in Nat
        BY <1>0, <1>1
    <2>2. CASE t.start = a
        <3>1. b <= t.size /\ b \in Nat /\ t.size \in Nat
            BY <1>0, <1>2, <2>2
        <3> QED
            BY <1>3, <2>2, <3>1, SameRange DEF Precedes
    <2>3. CASE t.start # a
        BY <1>3, <2>1, <2>3 DEF Precedes
    <2> QED
        BY <2>2, <2>3
<1> QED
    BY <1>3, <1>4

\* The last one.
LEMMA GreatestRange ==
    ASSUME NEW n \in Nat, NEW S \in SUBSET Ranges(n), S # {}
    PROVE  \E m \in S : \A t \in S : t = m \/ Precedes(t, m)
<1>0. \A s \in S : s.start \in 0 .. n /\ s.size \in 0 .. n
    BY RangeFields
<1> DEFINE starts == {s.start : s \in S}
           a      == Max(starts)
           F      == {s \in S : s.start = a}
           sizes  == {s.size : s \in F}
           b      == Max(sizes)
<1>1. a \in starts /\ \A y \in starts : a >= y
    <2>1. starts \in SUBSET (0 .. n) /\ starts # {}
        BY <1>0
    <2> QED
        BY <2>1, MaxInBoundedNat
<1> HIDE DEF a
<1>2. b \in sizes /\ \A y \in sizes : b >= y
    <2>1. sizes \in SUBSET (0 .. n) /\ sizes # {}
        BY <1>0, <1>1
    <2> QED
        BY <2>1, MaxInBoundedNat
<1> HIDE DEF b
<1>3. PICK m \in F : m.size = b
    BY <1>2
<1>4. ASSUME NEW t \in S PROVE t = m \/ Precedes(t, m)
    <2>1. a >= t.start /\ a \in Nat /\ t.start \in Nat
        BY <1>0, <1>1
    <2>2. CASE t.start = a
        <3>1. b >= t.size /\ b \in Nat /\ t.size \in Nat
            BY <1>0, <1>2, <2>2
        <3> QED
            BY <1>3, <2>2, <3>1, SameRange DEF Precedes
    <2>3. CASE t.start # a
        BY <1>3, <2>1, <2>3 DEF Precedes
    <2> QED
        BY <2>2, <2>3
<1> QED
    BY <1>3, <1>4

-----------------------------------------------------------------------------
(* addSegment.                                                             *)

\* Every segment is merged into the range of some last one.
LEMMA MergedSomewhere ==
    ASSUME NEW n \in Nat, NEW S \in SUBSET Ranges(n), NEW s \in S
    PROVE  \E e \in LastOnes(S) : s \in MergedInto(e, S)
<1> DEFINE After == {t \in S : t = s \/ Precedes(s, t)}
           Lasts == {e \in LastOnes(S) : e = s \/ Precedes(s, e)}
<1>1. PICK m \in After : \A t \in After : t = m \/ Precedes(t, m)
    <2>1. After \in SUBSET Ranges(n) /\ After # {}
        OBVIOUS
    <2> QED
        BY <2>1, GreatestRange
<1>2. m \in LastOnes(S)
    <2> SUFFICES ASSUME NEW t \in S, Precedes(m, t) PROVE FALSE
        BY DEF LastOnes
    <2>1. t \in After
        BY <1>1, Ordered
    <2> QED
        BY <1>1, <2>1, Ordered
<1>3. Lasts \in SUBSET Ranges(n) /\ Lasts # {}
    BY <1>1, <1>2 DEF LastOnes
<1>4. PICK e \in Lasts : \A t \in Lasts : t = e \/ Precedes(e, t)
    BY <1>3, LeastRange
<1>5. ASSUME NEW l \in LastOnes(S), Precedes(l, e) PROVE Precedes(l, s)
    <2>1. l \in S /\ e \in S
        BY <1>4 DEF LastOnes
    <2>2. l \notin Lasts
        BY <1>4, <1>5, <2>1, Ordered
    <2> QED
        BY <2>1, <2>2, Ordered
<1> QED
    BY <1>4, <1>5 DEF MergedInto

\* The range that ends with `last', and what it is merged from.
LEMMA MergedRange ==
    ASSUME NEW n \in Nat, NEW S \in SUBSET Ranges(n), NEW e \in LastOnes(S)
    PROVE  LET a == Min({s.start : s \in MergedInto(e, S)})
           IN  /\ e \in S /\ e \in MergedInto(e, S) /\ MergedInto(e, S) \subseteq S
               /\ a \in Nat /\ a <= e.start
               /\ \E s \in MergedInto(e, S) : a = s.start
               /\ \A s \in MergedInto(e, S) : a <= s.start
               /\ Segment(a, End(e) - a) \in Ranges(n)
               /\ Segment(a, End(e) - a).start = a /\ End(Segment(a, End(e) - a)) = End(e)
<1> DEFINE M == MergedInto(e, S)
           starts == {s.start : s \in M}
           a == Min(starts)
<1>1. e \in S /\ M \subseteq S
    BY DEF LastOnes, MergedInto
<1>2. e \in M
    BY <1>1 DEF MergedInto
<1>3. starts \in SUBSET Nat /\ e.start \in starts
    BY <1>1, <1>2, RangeFields
<1>4. a \in starts /\ \A y \in starts : a =< y
    BY <1>3, MinInNat
<1> HIDE DEF a
<1>5. a \in Nat /\ a <= e.start
    BY <1>3, <1>4
<1>6. e.start < End(e) /\ End(e) \in Nat /\ End(e) <= n /\ e.start \in Nat
    BY <1>1, RangeFields
<1>7. /\ Segment(a, End(e) - a) \in Ranges(n)
      /\ Segment(a, End(e) - a).start = a /\ End(Segment(a, End(e) - a)) = End(e)
    <2>1. End(e) - a \in Nat /\ End(e) - a > 0 /\ a + (End(e) - a) = End(e)
        BY <1>5, <1>6
    <2>2. /\ Segment(a, End(e) - a) \in [start : Nat, size : Nat]
          /\ Segment(a, End(e) - a).start = a /\ Segment(a, End(e) - a).size = End(e) - a
        BY <1>5, <2>1 DEF Segment
    <2>3. End(Segment(a, End(e) - a)) = End(e)
        BY <2>1, <2>2 DEF End
    <2> QED
        BY <1>6, <2>1, <2>2, <2>3 DEF Ranges
<1> QED
    BY <1>1, <1>2, <1>4, <1>5, <1>7 DEF a

\* A byte of a merged range belongs to one of the segments: the last one that
\* starts at it or before reaches beyond it, or would not be merged with the next.
LEMMA MergedBytes ==
    ASSUME NEW n \in Nat, NEW S \in SUBSET Ranges(n), NEW e \in LastOnes(S),
           NEW x \in Int, Min({s.start : s \in MergedInto(e, S)}) <= x, x < End(e)
    PROVE  \E s \in S : s.start <= x /\ x < End(s)
<1> DEFINE M == MergedInto(e, S)
           a == Min({s.start : s \in M})
           Before == {s \in M : s.start <= x}
<1>1. /\ e \in S /\ e \in M /\ M \subseteq S /\ a \in Nat
      /\ \E s \in M : a = s.start
    BY MergedRange
<1>2. Before \in SUBSET Ranges(n) /\ Before # {}
    BY <1>1
<1> HIDE DEF a
<1>3. PICK m \in Before : \A t \in Before : t = m \/ Precedes(t, m)
    BY <1>2, GreatestRange
<1>4. m \in S /\ m.start <= x
    BY <1>1, <1>3
<1>5. CASE x < End(m)
    BY <1>4, <1>5
<1>6. CASE ~(x < End(m))
    <2>0. End(m) \in Nat /\ \A s \in S : s.start \in Nat
        BY <1>4, RangeFields
    <2>1. m # e
        BY <1>6
    <2>2. Precedes(m, e)
        BY <1>3, <2>1 DEF MergedInto
    <2>3. m \notin LastOnes(S)
        BY <1>3, <1>4, <2>2, Ordered DEF MergedInto
    <2>4. PICK t \in S : Precedes(m, t) /\ ~(End(m) < t.start)
        BY <1>4, <2>3 DEF LastOnes
    <2>5. t.start <= x
        BY <1>6, <2>0, <2>4
    <2>6. t = e \/ Precedes(t, e)
        <3> SUFFICES ASSUME Precedes(e, t) PROVE FALSE
            BY <1>1, <2>4, Ordered
        <3>1. e.start <= t.start /\ e.start \in Nat /\ t.start \in Nat
            BY <1>1, <2>0, <2>4, Ordered
        <3>2. e \in Before
            BY <1>1, <2>5, <3>1
        <3> QED
            BY <1>1, <1>3, <1>4, <2>2, <3>2, Ordered
    <2>7. t \in M
        <3>1. ASSUME NEW l \in LastOnes(S), Precedes(l, e) PROVE Precedes(l, t)
            <4>1. Precedes(l, m) /\ l \in S
                BY <1>3, <3>1 DEF MergedInto, LastOnes
            <4> QED
                BY <1>4, <2>4, <4>1, Ordered
        <3> QED
            BY <2>6, <3>1 DEF MergedInto
    <2>8. t \in Before
        BY <2>5, <2>7
    <2> QED
        BY <1>3, <1>4, <2>4, <2>8, Ordered
<1> QED
    BY <1>5, <1>6

\* No two ranges overlap or touch.
Apart(S) == \A s, t \in S : s # t => End(s) < t.start \/ End(t) < s.start

\* A byte is recorded.
LEMMA InBytes ==
    ASSUME NEW S, NEW x
    PROVE  x \in Bytes(S) <=> \E s \in S : x \in SegmentBytes(s)
BY DEF Bytes

\* The bytes of a segment are the integers from its start to before its end.
LEMMA InRange ==
    ASSUME NEW n \in Nat, NEW s \in Ranges(n), NEW x
    PROVE  x \in SegmentBytes(s) <=> x \in Int /\ s.start <= x /\ x < End(s)
<1>1. s.start \in Nat /\ End(s) \in Nat
    BY RangeFields
<1> QED
    BY <1>1 DEF SegmentBytes

\* Consolidation gives ranges of the file that do not touch, begin and end where
\* ranges began and ended, and cover no byte that was not covered.
LEMMA ConsolidateRanges ==
    ASSUME NEW n \in Nat, NEW S \in SUBSET Ranges(n)
    PROVE  /\ Consolidate(S) \subseteq Ranges(n) /\ Apart(Consolidate(S))
           /\ \A r \in Consolidate(S) : /\ \E s \in S : r.start = s.start
                                        /\ \E t \in S : End(r) = End(t)
           /\ Bytes(Consolidate(S)) \subseteq Bytes(S)
<1> DEFINE A(e) == Min({s.start : s \in MergedInto(e, S)})
           R(e) == Segment(A(e), End(e) - A(e))
<1>1. \A r : r \in Consolidate(S) <=> \E e \in LastOnes(S) : r = R(e)
    BY DEF Consolidate
<1>2. \A e \in LastOnes(S) :
         /\ e \in S /\ MergedInto(e, S) \subseteq S /\ A(e) \in Nat
         /\ \E s \in MergedInto(e, S) : A(e) = s.start
         /\ R(e) \in Ranges(n) /\ R(e).start = A(e) /\ End(R(e)) = End(e)
    BY MergedRange
<1>3. \A e \in LastOnes(S) : \A x \in Int :
         A(e) <= x /\ x < End(e) => \E s \in S : s.start <= x /\ x < End(s)
    BY MergedBytes
<1>4. \A e, f \in LastOnes(S) : Precedes(e, f) => End(R(e)) < R(f).start
    <2> TAKE e, f \in LastOnes(S)
    <2> HAVE Precedes(e, f)
    <2>1. PICK s \in MergedInto(f, S) : A(f) = s.start
        BY <1>2
    <2>2. s \in S /\ Precedes(e, s)
        BY <2>1 DEF MergedInto
    <2>3. End(e) < s.start
        BY <2>2 DEF LastOnes
    <2> QED
        BY <1>2, <2>1, <2>3
<1> HIDE DEF A, R
<1>5. Consolidate(S) \subseteq Ranges(n)
    BY <1>1, <1>2
<1>6. Apart(Consolidate(S))
    <2> SUFFICES ASSUME NEW r \in Consolidate(S), NEW q \in Consolidate(S), r # q
                 PROVE  End(r) < q.start \/ End(q) < r.start
        BY DEF Apart
    <2>1. PICK e \in LastOnes(S) : r = R(e)
        BY <1>1
    <2>2. PICK f \in LastOnes(S) : q = R(f)
        BY <1>1
    <2>3. e # f /\ e \in S /\ f \in S
        BY <1>2, <2>1, <2>2
    <2> QED
        BY <1>4, <2>1, <2>2, <2>3, Ordered
<1>7. \A r \in Consolidate(S) : /\ \E s \in S : r.start = s.start
                                /\ \E t \in S : End(r) = End(t)
    BY <1>1, <1>2
<1>8. Bytes(Consolidate(S)) \subseteq Bytes(S)
    <2> SUFFICES ASSUME NEW x \in Bytes(Consolidate(S)) PROVE x \in Bytes(S)
        OBVIOUS
    <2>1. PICK r \in Consolidate(S) : x \in SegmentBytes(r)
        BY InBytes
    <2>2. PICK e \in LastOnes(S) : r = R(e)
        BY <1>1
    <2>3. x \in Int /\ A(e) <= x /\ x < End(e)
        BY <1>2, <2>1, <2>2, InRange
    <2>4. PICK s \in S : s.start <= x /\ x < End(s)
        BY <1>3, <2>3
    <2> QED
        BY <2>3, <2>4, InBytes, InRange
<1> QED
    BY <1>5, <1>6, <1>7, <1>8

\* It loses no byte if the ranges may touch but do not overlap.
LEMMA ConsolidateCovers ==
    ASSUME NEW n \in Nat, NEW S \in SUBSET Ranges(n),
           \A s, t \in S : s # t => ~Overlaps(s, t)
    PROVE  Bytes(Consolidate(S)) = Bytes(S)
<1> SUFFICES ASSUME NEW x \in Bytes(S) PROVE x \in Bytes(Consolidate(S))
    BY ConsolidateRanges
<1>1. PICK s \in S : x \in SegmentBytes(s)
    BY InBytes
<1>2. PICK e \in LastOnes(S) : s \in MergedInto(e, S)
    BY MergedSomewhere
<1> DEFINE a == Min({t.start : t \in MergedInto(e, S)})
           r == Segment(a, End(e) - a)
<1>3. /\ e \in S /\ a \in Nat /\ a <= s.start
      /\ r \in Ranges(n) /\ r.start = a /\ End(r) = End(e)
    BY <1>2, MergedRange
<1>4. r \in Consolidate(S)
    BY DEF Consolidate
<1> HIDE DEF r, a
<1>5. x \in Int /\ s.start <= x /\ x < End(s) /\ s.start \in Nat /\ End(s) \in Nat
    BY <1>1, InRange, RangeFields
<1>6. End(s) <= End(e)
    <2>1. CASE s = e
        BY <1>5, <2>1
    <2>2. CASE Precedes(s, e) /\ s # e
        <3>1. s.start <= e.start /\ ~Overlaps(s, e)
            BY <1>3, <2>2, Ordered
        <3>2. e.start \in Nat /\ End(e) \in Nat /\ e.start < End(e)
            BY <1>3, RangeFields
        <3> QED
            BY <1>5, <3>1, <3>2 DEF Overlaps
    <2> QED
        BY <1>2, <2>1, <2>2 DEF MergedInto
<1>7. End(e) \in Nat
    BY <1>3, RangeFields
<1>8. x \in SegmentBytes(r)
    BY <1>3, <1>5, <1>6, <1>7, InRange
<1> QED
    BY <1>4, <1>8, InBytes

\* Ranges that do not touch are left alone.
LEMMA ConsolidateApart ==
    ASSUME NEW n \in Nat, NEW S \in SUBSET Ranges(n), Apart(S)
    PROVE  Consolidate(S) = S
<1>1. ASSUME NEW s \in S, NEW t \in S, Precedes(s, t) PROVE End(s) < t.start
    <2>1. s # t /\ s.start <= t.start
        BY <1>1, Ordered
    <2>2. s.start \in Nat /\ t.start \in Nat /\ End(t) \in Nat /\ t.start < End(t)
        BY RangeFields
    <2> QED
        BY <2>1, <2>2 DEF Apart
<1>2. LastOnes(S) = S
    BY <1>1 DEF LastOnes
<1>3. ASSUME NEW e \in S PROVE MergedInto(e, S) = {e}
    <2>1. ASSUME NEW s \in S, Precedes(s, e) PROVE s \notin MergedInto(e, S)
        BY <1>2, <2>1, Ordered DEF MergedInto
    <2>2. e \in MergedInto(e, S)
        BY <1>2, MergedRange
    <2> QED
        BY <2>1, <2>2 DEF MergedInto
<1> DEFINE R(e) == LET start == Min({s.start : s \in MergedInto(e, S)})
                   IN  Segment(start, End(e) - start)
<1>4. ASSUME NEW e \in S PROVE R(e) = e
    <2> DEFINE a == Min({s.start : s \in MergedInto(e, S)})
    <2>1. \E s \in MergedInto(e, S) : a = s.start
        BY <1>2, MergedRange
    <2>2. a = e.start
        BY <1>3, <2>1
    <2>3. e = Segment(e.start, e.size) /\ End(e) - e.start = e.size
        BY RangeFields
    <2> QED
        BY <2>2, <2>3
<1>5. Consolidate(S) = {R(e) : e \in S}
    BY <1>2 DEF Consolidate
<1> HIDE DEF R
<1> QED
    BY <1>4, <1>5

-----------------------------------------------------------------------------
(* Blocks.                                                                 *)

IsStart(p, b) == \E k \in Nat : p = k * b

\* Where a range of a file of n bytes may end.
IsEdge(p, b, n) == p = n \/ IsStart(p, b)

Aligned(s, b, n) == IsStart(s.start, b) /\ IsEdge(End(s), b, n)

\* A multiple of the block size below another is at least one block below it.
LEMMA BlockOrder ==
    ASSUME NEW p \in Nat, NEW q \in Nat, NEW b \in Nat \ {0}, p * b < q * b
    PROVE  p < q /\ (p + 1) * b <= q * b
<1>1. p < q
    <2> SUFFICES ASSUME q <= p PROVE FALSE
        OBVIOUS
    <2>1. q * b \in 0 .. (p * b)
        BY BlocksMonotone
    <2>2. p * b \in Nat /\ q * b \in Nat
        OBVIOUS
    <2> QED
        BY <2>1, <2>2
<1>2. (p + 1) * b \in 0 .. (q * b)
    BY <1>1, BlocksMonotone
<1> QED
    BY <1>1, <1>2

\* Integer division.
LEMMA Division ==
    ASSUME NEW p \in Nat, NEW b \in Nat \ {0}
    PROVE  p \div b \in Nat /\ (p \div b) * b <= p /\ p < (p \div b) * b + b
OBVIOUS

\* Dividing a position inside block k by the block size gives k.
LEMMA DivisionUnique ==
    ASSUME NEW k \in Nat, NEW b \in Nat \ {0}, NEW c \in 0 .. (b - 1)
    PROVE  (k * b + c) \div b = k
<1> DEFINE p == k * b + c
           q == p \div b
<1>1. k * b \in Nat /\ p \in Nat
    OBVIOUS
<1>2. q \in Nat /\ q * b <= p /\ p < q * b + b
    BY <1>1, Division
<1> HIDE DEF q
<1>3. q * b \in Nat /\ (q + 1) * b = q * b + b /\ (k + 1) * b = k * b + b
    BY <1>2
<1>4. q * b < (k + 1) * b /\ k * b < (q + 1) * b
    BY <1>1, <1>2, <1>3
<1>5. q < k + 1 /\ k < q + 1
    BY <1>2, <1>4, BlockOrder
<1> QED
    BY <1>2, <1>5 DEF q

\* Rounding leaves a multiple alone.
LEMMA RoundExact ==
    ASSUME NEW k \in Nat, NEW b \in Nat \ {0}
    PROVE  RoundDown(k * b, b) = k * b /\ RoundUp(k * b, b) = k * b
<1>1. b \div 2 \in 0 .. (b - 1) /\ k * b \in Nat
    OBVIOUS
<1>2. (k * b + b \div 2) \div b = k
    BY <1>1, DivisionUnique
<1>3. b - 1 \in 0 .. (b - 1) /\ k * b + b - 1 = k * b + (b - 1)
    BY <1>1
<1>4. (k * b + b - 1) \div b = k
    BY <1>3, DivisionUnique
<1> QED
    BY <1>2, <1>4 DEF RoundDown, RoundUp

\* The clipping at the end of the file takes the lesser of two ends.
LEMMA MinOfTwo ==
    ASSUME NEW a \in Int, NEW b \in Int
    PROVE  Min({a, b}) = IF a <= b THEN a ELSE b
BY DEF Min

\* The share of the chunk size that is wanted is at least a quarter.
LEMMA MaxOfTwo ==
    ASSUME NEW a \in Int, NEW b \in Int
    PROVE  Max({a, b}) = IF a >= b THEN a ELSE b
BY DEF Max

\* A candidate of getNextSegment, clipped at the end of the file.
LEMMA Clipped ==
    ASSUME NEW n \in Nat \ {0}, NEW p \in Nat, NEW l \in Nat \ {0}, p < n
    PROVE  LET r == Block(p, l, n)
           IN  /\ r \in Ranges(n) /\ r.start = p /\ End(r) \in Nat /\ p < End(r)
               /\ End(r) = IF n <= p + l THEN n ELSE p + l
<1> DEFINE r == Block(p, l, n)
           e == IF n <= p + l THEN n ELSE p + l
<1>1. Min({n, p + l}) = e
    BY MinOfTwo
<1>2. e \in Nat /\ e > p /\ e <= n
    OBVIOUS
<1>3. r.start = p /\ r.size = e - p /\ r \in [start : Nat, size : Nat]
    BY <1>1, <1>2 DEF Block, Segment
<1> QED
    BY <1>2, <1>3 DEF End, Ranges

\* Consecutive blocks, cut at the end of the file, are an aligned segment of it.
LEMMA BlockRange ==
    ASSUME NEW n \in Nat \ {0}, NEW b \in Nat \ {0}, NEW k \in Nat, NEW j \in Nat \ {0}, k * b < n
    PROVE  Block(k * b, j * b, n) \in Ranges(n) /\ Aligned(Block(k * b, j * b, n), b, n)
<1>1. k * b \in Nat /\ j * b \in Nat \ {0} /\ (k + j) * b = k * b + j * b
    <2>1. 1 * b \in 0 .. (j * b) /\ 1 * b = b
        BY BlocksMonotone
    <2> QED
        BY <2>1
<1> DEFINE r == Block(k * b, j * b, n)
<1>2. /\ r \in Ranges(n) /\ r.start = k * b
      /\ End(r) = IF n <= k * b + j * b THEN n ELSE k * b + j * b
    BY <1>1, Clipped
<1> HIDE DEF r
<1>3. IsStart(r.start, b)
    BY <1>2 DEF IsStart
<1>4. IsEdge(End(r), b, n)
    <2>1. CASE n <= k * b + j * b
        BY <1>2, <2>1 DEF IsEdge
    <2>2. CASE ~(n <= k * b + j * b)
        <3>1. End(r) = (k + j) * b /\ k + j \in Nat
            BY <1>1, <1>2, <2>2
        <3> QED
            BY <3>1 DEF IsEdge, IsStart
    <2> QED
        BY <2>1, <2>2
<1> QED
    BY <1>2, <1>3, <1>4 DEF Aligned, r

-----------------------------------------------------------------------------
(* getNextSegment, segmented.                                              *)

\* The candidate the loop stops at.
Found(next, got, running, n, b) ==
    \E k \in Nat, j \in Nat \ {0} :
        /\ k * b < n
        /\ next = Block(k * b, j * b, n) /\ IsFree(next, j * b, got, running, b)

\* It finds one if there is a free block.
LEMMA NextSegmentedFinds ==
    ASSUME NEW got, NEW running, NEW n \in Nat \ {0}, NEW b \in Nat \ {0}, NEW wanted
    PROVE  LET next == NextSegmented(got, running, n, b, wanted)
           IN  /\ next = Segment(0, 0) \/ Found(next, got, running, n, b)
               /\ \A k \in Nat :
                     /\ k * b < n /\ b <= TargetSize(got, n, b, wanted)
                     /\ IsFree(Block(k * b, b, n), b, got, running, b)
                     => Found(next, got, running, n, b)
<1> DEFINE aim        == TargetSize(got, n, b, wanted)
           last       == (n - 1) \div b
           starts     == {k * b : k \in 0 .. last}
           limit      == (last + 1) * b
           lengths    == {l \in {k * b : k \in 1 .. (last + 1)} : l <= aim}
           Free(p, l) == IsFree(Block(p, l, n), l, got, running, b)
           usable     == {p \in starts : \E l \in lengths : Free(p, l)}
           start      == Min(usable)
           fitting    == {l \in lengths : Free(start, l)}
           len        == Max(fitting)
           next       == IF usable = {} THEN Segment(0, 0) ELSE Block(start, len, n)
<1>1. NextSegmented(got, running, n, b, wanted) = next
    BY DEF NextSegmented
<1>2. last \in Nat /\ last * b <= n - 1 /\ n - 1 < last * b + b
    BY Division
<1> HIDE DEF aim, last
<1>3. starts \in SUBSET Nat
    BY <1>2
<1>4. lengths \in SUBSET (0 .. limit) /\ limit \in Nat
    BY <1>2, BlocksMonotone
<1> HIDE DEF limit
<1>5. ASSUME usable # {} PROVE Found(next, got, running, n, b)
    <2>1. start \in usable
        BY <1>3, <1>5, MinInNat
    <2>2. fitting \in SUBSET (0 .. limit) /\ fitting # {}
        BY <2>1, <1>4
    <2>3. len \in fitting
        BY <1>4, <2>2, MaxInBoundedNat
    <2>4. next = Block(start, len, n) /\ Free(start, len)
        BY <1>5, <2>3
    <2>5. PICK k \in 0 .. last : start = k * b
        BY <2>1
    <2>6. PICK j \in 1 .. (last + 1) : len = j * b
        BY <2>3
    <2> HIDE DEF start, len, usable, fitting, next
    <2>7. k \in Nat /\ j \in Nat \ {0} /\ k * b < n
        <3>1. k \in Nat /\ j \in Nat \ {0} /\ k <= last
            BY <1>2, <2>5, <2>6
        <3>2. k * b \in 0 .. (last * b) /\ last * b \in Nat
            BY <1>2, <3>1, BlocksMonotone
        <3> QED
            BY <1>2, <3>1, <3>2
    <2> QED
        BY <2>4, <2>5, <2>6, <2>7 DEF Found
<1>6. ASSUME NEW k \in Nat, k * b < n, b <= aim, IsFree(Block(k * b, b, n), b, got, running, b)
      PROVE  usable # {}
    <2>1. k <= last
        <3>1. k * b \in Nat /\ last * b \in Nat /\ (last + 1) * b = last * b + b
            BY <1>2
        <3>2. k * b < (last + 1) * b
            BY <1>2, <1>6, <3>1
        <3>3. k < last + 1
            BY <1>2, <3>2, BlockOrder
        <3> QED
            BY <1>2, <3>3
    <2>2. k * b \in starts
        BY <1>2, <2>1
    <2>3. b \in lengths
        <3>1. b = 1 * b /\ 1 \in 1 .. (last + 1)
            BY <1>2
        <3> QED
            BY <1>6, <3>1
    <2>4. Free(k * b, b)
        BY <1>6
    <2> QED
        BY <2>2, <2>3, <2>4
<1>7. next = Segment(0, 0) \/ Found(next, got, running, n, b)
    BY <1>5
<1> HIDE DEF usable, next
<1> QED
    BY <1>1, <1>5, <1>6, <1>7 DEF aim

\* What getNextSegment returns in segmented mode is free of every running
\* download, or empty.
LEMMA NextSegmentedIsFree ==
    ASSUME NEW got, NEW running, NEW n \in Nat \ {0}, NEW b \in Nat \ {0}, NEW wanted
    PROVE  LET next == NextSegmented(got, running, n, b, wanted)
           IN  \/ next = Segment(0, 0)
               \/ /\ next \in Ranges(n) /\ Aligned(next, b, n)
                  /\ \A d \in running : ~Overlaps(next, d)
<1> DEFINE next == NextSegmented(got, running, n, b, wanted)
<1>1. next = Segment(0, 0) \/ Found(next, got, running, n, b)
    BY NextSegmentedFinds
<1> HIDE DEF next
<1>2. ASSUME Found(next, got, running, n, b)
      PROVE  next \in Ranges(n) /\ Aligned(next, b, n) /\ \A d \in running : ~Overlaps(next, d)
    <2>1. PICK k \in Nat, j \in Nat \ {0} :
             /\ k * b < n
             /\ next = Block(k * b, j * b, n) /\ IsFree(next, j * b, got, running, b)
        BY <1>2 DEF Found
    <2>2. next \in Ranges(n) /\ Aligned(next, b, n)
        BY <2>1, BlockRange
    <2> QED
        BY <2>1, <2>2 DEF IsFree
<1> QED
    BY <1>1, <1>2 DEF next

\* A block that overlaps an aligned range is covered by it: what is found is not
\* recorded either, although single blocks are only tested for being covered.
LEMMA FoundIsNotDone ==
    ASSUME NEW n \in Nat \ {0}, NEW b \in Nat \ {0}, NEW got \in SUBSET Ranges(n),
           \A s \in got : Aligned(s, b, n), NEW running, NEW next,
           Found(next, got, running, n, b)
    PROVE  \A s \in got : ~Overlaps(next, s)
<1>1. PICK k \in Nat, j \in Nat \ {0} :
         /\ k * b < n
         /\ next = Block(k * b, j * b, n) /\ IsFree(next, j * b, got, running, b)
    BY DEF Found
<1>3. k * b \in Nat /\ j * b \in Nat \ {0}
    <2>1. 1 * b \in 0 .. (j * b) /\ 1 * b = b
        BY BlocksMonotone
    <2> QED
        BY <2>1
<1>2. next.start = k * b /\ End(next) = IF n <= k * b + j * b THEN n ELSE k * b + j * b
    BY <1>1, <1>3, Clipped
<1> SUFFICES ASSUME NEW s \in got, Overlaps(next, s) PROVE FALSE
    OBVIOUS
<1>4. s.start \in Nat /\ End(s) \in Nat /\ End(s) <= n
    BY RangeFields
<1>5. CASE ~(j * b <= b)
    BY <1>1, <1>5 DEF IsFree
<1>6. CASE j * b <= b
    <2>1. j = 1
        <3>1. CASE 1 < j
            <4>1. 2 * b \in 0 .. (j * b) /\ 2 * b = b + b
                BY <3>1, BlocksMonotone
            <4> QED
                BY <1>3, <1>6, <4>1
        <3> QED
            BY <3>1
    <2>2. End(next) = (IF n <= k * b + b THEN n ELSE k * b + b) /\ (k + 1) * b = k * b + b
        BY <1>2, <2>1
    <2>3. PICK m \in Nat : s.start = m * b
        BY DEF Aligned, IsStart
    <2>4. s.start < End(next) /\ k * b < End(s)
        BY <1>2 DEF Overlaps
    <2>5. m * b < (k + 1) * b
        BY <1>3, <1>4, <2>2, <2>3, <2>4
    <2>6. m <= k
        BY <2>5, BlockOrder
    <2>7. s.start <= k * b
        <3>1. m * b \in 0 .. (k * b)
            BY <2>6, BlocksMonotone
        <3> QED
            BY <1>3, <2>3, <3>1
    <2>8. End(s) >= End(next)
        <3>1. CASE End(s) = n
            BY <1>3, <2>2, <3>1
        <3>2. CASE IsStart(End(s), b)
            <4>1. PICK q \in Nat : End(s) = q * b
                BY <3>2 DEF IsStart
            <4>2. (k + 1) * b <= q * b
                BY <2>4, <4>1, BlockOrder
            <4> QED
                BY <1>3, <1>4, <2>2, <4>1, <4>2
        <3> QED
            BY <3>1, <3>2 DEF Aligned, IsEdge
    <2> QED
        BY <1>1, <1>2, <1>6, <2>7, <2>8 DEF IsFree
<1> QED
    BY <1>5, <1>6

\* While the file is not complete some block is not covered.
LEMMA SomeBlockMissing ==
    ASSUME NEW n \in Nat \ {0}, NEW b \in Nat \ {0}, NEW got \in SUBSET Ranges(n),
           \A s \in got : Aligned(s, b, n), Apart(got), ~IsFinished(got, n)
    PROVE  \E k \in Nat :
              /\ k * b < n
              /\ \A s \in got : ~(s.start <= k * b /\ End(s) >= End(Block(k * b, b, n)))
<1>0. \A s \in got : s.start \in Nat /\ End(s) \in Nat /\ End(s) <= n /\ s.start < End(s)
    BY RangeFields
<1>b. ASSUME NEW k \in Nat, k * b < n
      PROVE  End(Block(k * b, b, n)) \in Nat /\ k * b < End(Block(k * b, b, n))
    <2>1. k * b \in Nat
        OBVIOUS
    <2> QED
        BY <1>b, <2>1, Clipped
<1>1. CASE \E s \in got : s.start = 0
    <2>1. PICK f \in got : f.start = 0
        BY <1>1
    <2>2. ASSUME NEW s \in got, s # f PROVE End(f) < s.start
        BY <1>0, <2>1, <2>2 DEF Apart
    <2>3. CASE End(f) = n
        <3>1. got = {f}
            BY <1>0, <2>2, <2>3
        <3>2. f = Segment(0, n)
            BY <2>1, <2>3, RangeFields
        <3> QED
            BY <3>1, <3>2 DEF IsFinished
    <2>4. CASE End(f) # n
        <3>1. PICK k \in Nat : End(f) = k * b
            BY <2>4 DEF Aligned, IsEdge, IsStart
        <3>2. k * b < n
            BY <1>0, <2>4, <3>1
        <3>3. ASSUME NEW s \in got, s.start <= k * b, End(s) >= End(Block(k * b, b, n)) PROVE FALSE
            <4>1. CASE s = f
                <5>1. End(Block(k * b, b, n)) \in Nat /\ k * b < End(Block(k * b, b, n))
                    BY <1>b, <3>2
                <5> QED
                    BY <1>0, <3>1, <3>3, <4>1, <5>1
            <4>2. CASE s # f
                BY <1>0, <2>2, <3>1, <3>3, <4>2
            <4> QED
                BY <4>1, <4>2
        <3> QED
            BY <3>2, <3>3
    <2> QED
        BY <2>3, <2>4
<1>2. CASE \A s \in got : s.start # 0
    <2>1. 0 * b = 0 /\ 0 \in Nat
        OBVIOUS
    <2>2. \A s \in got : ~(s.start <= 0 * b)
        BY <1>0, <1>2, <2>1
    <2> QED
        BY <2>1, <2>2
<1> QED
    BY <1>1, <1>2

-----------------------------------------------------------------------------
(* getNextSegment, one download at a time.                                 *)

LEMMA FirstIsLeast ==
    ASSUME NEW n \in Nat, NEW S \in SUBSET Ranges(n), S # {}
    PROVE  /\ FirstSegment(S) \in S
           /\ \A t \in S : t = FirstSegment(S) \/ Precedes(FirstSegment(S), t)
<1>1. \E m \in S : \A t \in S : t = m \/ Precedes(m, t)
    BY LeastRange
<1> QED
    BY <1>1 DEF FirstSegment

\* The first hole is not empty, aligned, and not recorded.
LEMMA NextSequentialFits ==
    ASSUME NEW n \in Nat \ {0}, NEW b \in Nat \ {0}, NEW got \in SUBSET Ranges(n),
           \A s \in got : Aligned(s, b, n), Apart(got), ~IsFinished(got, n)
    PROVE  LET next == NextSequential(got, {}, n, b)
           IN  /\ next \in Ranges(n) /\ Aligned(next, b, n)
               /\ \A s \in got : ~Overlaps(next, s)
<1> DEFINE first == FirstSegment(got)
           rest  == got \ {first}
           start == IF got = {} \/ first.start > 0 THEN 0 ELSE RoundDown(End(first), b)
           end   == IF got = {} THEN n
                    ELSE IF first.start > 0 THEN RoundUp(first.start, b)
                         ELSE IF rest = {} THEN n
                              ELSE RoundUp(FirstSegment(rest).start, b)
           next  == Segment(start, Min({n, end}) - start)
<1>1. NextSequential(got, {}, n, b) = next
    BY DEF NextSequential
<1>2. IsStart(0, b)
    BY 0 = 0 * b DEF IsStart
<1>a. ASSUME NEW p \in Nat, NEW q \in Nat, p < q, q <= n, start = p, end = q,
             IsStart(p, b), IsEdge(q, b, n), \A s \in got : End(s) <= p \/ q <= s.start
      PROVE  /\ next \in Ranges(n) /\ Aligned(next, b, n)
             /\ \A s \in got : ~Overlaps(next, s)
    <2>1. Min({n, q}) = q
        BY <1>a, MinOfTwo
    <2>2. next = Segment(p, q - p)
        BY <1>a, <2>1
    <2> HIDE DEF next
    <2>3. next.start = p /\ next.size = q - p /\ next \in [start : Nat, size : Nat]
        BY <1>a, <2>2 DEF Segment
    <2>4. End(next) = q
        BY <1>a, <2>3 DEF End
    <2>5. next \in Ranges(n)
        BY <1>a, <2>3, <2>4 DEF Ranges
    <2>6. ASSUME NEW s \in got PROVE ~Overlaps(next, s)
        <3>1. s.start \in Nat /\ End(s) \in Nat
            BY RangeFields
        <3> QED
            BY <1>a, <2>3, <2>4, <3>1 DEF Overlaps
    <2> QED
        BY <1>a, <2>3, <2>4, <2>5, <2>6 DEF Aligned
<1>3. CASE got = {}
    <2>1. start = 0 /\ end = n /\ IsEdge(n, b, n)
        BY <1>3 DEF IsEdge
    <2> HIDE DEF start, end, next
    <2> QED
        BY <1>1, <1>2, <1>3, <1>a, <2>1
<1>4. CASE got # {}
    <2>1. /\ first \in got /\ \A t \in got : t = first \/ Precedes(first, t)
        BY <1>4, FirstIsLeast
    <2>2. \A t \in got : /\ t.start \in Nat /\ End(t) \in Nat /\ t.start < End(t) /\ End(t) <= n
                         /\ first.start <= t.start
        BY <2>1, RangeFields, Ordered
    <2>3. PICK k \in Nat : first.start = k * b
        BY <2>1 DEF Aligned, IsStart
    <2>4. CASE first.start > 0
        <3>1. start = 0 /\ end = first.start
            BY <1>4, <2>3, <2>4, RoundExact
        <3>2. first.start < n /\ first.start \in Nat
            BY <2>1, <2>2
        <3>3. IsEdge(first.start, b, n)
            BY <2>3 DEF IsEdge, IsStart
        <3> HIDE DEF start, end, next, first
        <3> QED
            BY <1>1, <1>2, <1>a, <2>2, <2>4, <3>1, <3>2, <3>3
    <2>5. CASE ~(first.start > 0)
        <3>1. first.start = 0
            BY <2>1, <2>2, <2>5
        <3>2. \A t \in rest : End(first) < t.start
            BY <2>1, <2>2, <3>1 DEF Apart
        <3>3. End(first) # n
            <4> SUFFICES ASSUME End(first) = n PROVE FALSE
                OBVIOUS
            <4>1. got = {first}
                BY <2>1, <2>2, <3>2
            <4>2. first = Segment(0, n)
                BY <2>1, <3>1, RangeFields
            <4> QED
                BY <4>1, <4>2 DEF IsFinished
        <3>4. PICK m \in Nat : End(first) = m * b
            BY <2>1, <3>3 DEF Aligned, IsEdge, IsStart
        <3>5. start = End(first) /\ IsStart(End(first), b)
            BY <1>4, <2>5, <3>4, RoundExact DEF IsStart
        <3>6. End(first) \in Nat /\ End(first) < n
            BY <2>1, <2>2, <3>3
        <3>7. CASE rest = {}
            <4>1. end = n /\ got = {first} /\ IsEdge(n, b, n)
                BY <1>4, <2>1, <2>5, <3>7 DEF IsEdge
            <4> HIDE DEF start, end, next, first
            <4> QED
                BY <1>1, <1>a, <2>2, <3>5, <3>6, <4>1
        <3>8. CASE rest # {}
            <4> DEFINE second == FirstSegment(rest)
            <4>1. /\ second \in rest /\ \A t \in rest : t = second \/ Precedes(second, t)
                BY <3>8, FirstIsLeast
            <4>2. PICK q \in Nat : second.start = q * b
                BY <4>1 DEF Aligned, IsStart
            <4>3. end = second.start
                BY <1>4, <2>5, <3>8, <4>2, RoundExact
            <4>4. ASSUME NEW t \in rest PROVE second.start <= t.start
                <5>1. second \in got /\ t \in got
                    BY <4>1
                <5>2. t = second \/ Precedes(second, t)
                    BY <4>1
                <5> HIDE DEF second
                <5> QED
                    BY <2>2, <5>1, <5>2 DEF Precedes
            <4>5. /\ second.start \in Nat /\ second.start < n /\ End(first) < second.start
                  /\ IsEdge(second.start, b, n)
                <5>1. second \in got
                    BY <4>1
                <5>2. second.start \in Nat /\ second.start < n
                    BY <2>2, <5>1
                <5> QED
                    BY <3>2, <4>1, <4>2, <5>2 DEF IsEdge, IsStart
            <4>6. \A s \in got : End(s) <= End(first) \/ second.start <= s.start
                BY <3>6, <4>4
            <4> HIDE DEF start, end, next, first, rest, second
            <4> QED
                BY <1>1, <1>a, <3>5, <3>6, <4>3, <4>5, <4>6
        <3> QED
            BY <3>7, <3>8
    <2> QED
        BY <2>4, <2>5
<1> QED
    BY <1>3, <1>4

-----------------------------------------------------------------------------
(* getDownloadedBytes: the sum is well defined on finite sets, and positive *)
(* as soon as something is recorded.                                       *)

Pick(s) == CHOOSE x \in s : TRUE

\* g sums the sizes of the subsets of S in D, in the order of Pick.
Sums(g, D) == g = [s \in D |-> IF s = {} THEN 0 ELSE Pick(s).size + g[s \ {Pick(s)}]]

\* DownloadedBytes is the value of some summing function, as soon as one exists.
LEMMA SumChosen ==
    ASSUME NEW S, NEW g, Sums(g, SUBSET S)
    PROVE  \E h : Sums(h, SUBSET S) /\ DownloadedBytes(S) = h[S]
<1> DEFINE h == CHOOSE h : Sums(h, SUBSET S)
<1>1. Sums(h, SUBSET S)
    OBVIOUS
<1>2. DownloadedBytes(S) = h[S]
    BY DEF DownloadedBytes, MapThenSumSet, MapThenFoldSet, Sums, Pick
<1> QED
    BY <1>1, <1>2

\* Taking one element out of a finite set.
LEMMA PickOne ==
    ASSUME NEW s, IsFiniteSet(s), s # {}
    PROVE  /\ Pick(s) \in s /\ IsFiniteSet(s \ {Pick(s)}) /\ Cardinality(s) \in Nat
           /\ Cardinality(s \ {Pick(s)}) \in Nat
           /\ Cardinality(s \ {Pick(s)}) < Cardinality(s)
<1>1. Pick(s) \in s
    BY DEF Pick
<1>2. IsFiniteSet(s \ {Pick(s)}) /\ Cardinality(s \ {Pick(s)}) = Cardinality(s) - 1
    BY <1>1, FS_RemoveElement
<1>3. Cardinality(s) \in Nat /\ Cardinality(s \ {Pick(s)}) \in Nat
    BY <1>2, FS_CardinalityType
<1> QED
    BY <1>1, <1>2, <1>3

\* There is such a function, by the least cardinality for which there is none.
LEMMA SumExists ==
    ASSUME NEW S, IsFiniteSet(S)
    PROVE  \E g : Sums(g, SUBSET S)
<1> DEFINE D(m) == {s \in SUBSET S : Cardinality(s) <= m}
           Bad  == {m \in Nat : ~\E g : Sums(g, D(m))}
<1>0. \A s \in SUBSET S : IsFiniteSet(s) /\ Cardinality(s) \in Nat /\ Cardinality(s) <= Cardinality(S)
    BY FS_Subset, FS_CardinalityType
<1>1. ASSUME Bad # {} PROVE FALSE
    <2>1. PICK m \in Bad : \A y \in Bad : m =< y
        BY <1>1, LeastNat
    <2>2. CASE m = 0
        <3>1. \A s \in D(0) : s = {}
            BY <1>0, FS_EmptySet
        <3> DEFINE g == [s \in D(0) |-> 0]
        <3>2. Sums(g, D(0))
            BY <3>1 DEF Sums
        <3> QED
            BY <2>1, <2>2, <3>2
    <2>3. CASE m # 0
        <3>1. m - 1 \in Nat /\ m - 1 \notin Bad
            BY <2>1, <2>3
        <3>2. PICK g : Sums(g, D(m - 1))
            BY <3>1
        <3> DEFINE h == [s \in D(m) |-> IF s = {} THEN 0 ELSE Pick(s).size + g[s \ {Pick(s)}]]
        <3>3. ASSUME NEW s \in D(m), s # {} PROVE h[s \ {Pick(s)}] = g[s \ {Pick(s)}]
            <4> DEFINE t == s \ {Pick(s)}
            <4>1. t \in D(m - 1) /\ t \in D(m)
                <5>1. t \in SUBSET S
                    OBVIOUS
                <5>2. Cardinality(t) \in Nat /\ Cardinality(t) < Cardinality(s) /\ Cardinality(s) \in Nat
                    BY <1>0, <3>3, PickOne
                <5>3. Cardinality(s) <= m /\ m \in Nat
                    BY <2>1
                <5> HIDE DEF t
                <5> QED
                    BY <5>1, <5>2, <5>3
            <4> HIDE DEF t
            <4>2. g[t] = IF t = {} THEN 0 ELSE Pick(t).size + g[t \ {Pick(t)}]
                BY <3>2, <4>1 DEF Sums
            <4> QED
                BY <4>1, <4>2 DEF t
        <3>4. h = [s \in D(m) |-> IF s = {} THEN 0 ELSE Pick(s).size + h[s \ {Pick(s)}]]
            BY <3>3
        <3> HIDE DEF h
        <3> QED
            BY <2>1, <3>4 DEF Sums
    <2> QED
        BY <2>2, <2>3
<1>2. Cardinality(S) \in Nat
    BY FS_CardinalityType
<1>3. D(Cardinality(S)) = SUBSET S
    BY <1>0
<1>4. \E g : Sums(g, D(Cardinality(S)))
    BY <1>1, <1>2
<1> QED
    BY <1>3, <1>4

\* A sum of sizes is a natural number, positive unless the set is empty.
LEMMA DownloadedBytesPositive ==
    ASSUME NEW n \in Nat, NEW S \in SUBSET Ranges(n), IsFiniteSet(S)
    PROVE  DownloadedBytes(S) \in Nat /\ (S # {} => DownloadedBytes(S) > 0)
<1>1. PICK h : Sums(h, SUBSET S) /\ DownloadedBytes(S) = h[S]
    BY SumExists, SumChosen
<1> DEFINE Right(s) == h[s] \in Nat /\ (s # {} => h[s] > 0)
           Bad == {s \in SUBSET S : ~Right(s)}
           Cards == {Cardinality(s) : s \in Bad}
<1>0. \A s \in SUBSET S : IsFiniteSet(s) /\ Cardinality(s) \in Nat
    BY FS_Subset, FS_CardinalityType
<1>2. ASSUME Bad # {} PROVE FALSE
    <2>1. Cards \in SUBSET Nat /\ Cards # {}
        BY <1>0, <1>2
    <2>2. PICK c \in Cards : \A y \in Cards : c =< y
        BY <2>1, LeastNat
    <2>3. PICK s \in Bad : c = Cardinality(s)
        BY <2>2
    <2>4. h[s] = IF s = {} THEN 0 ELSE Pick(s).size + h[s \ {Pick(s)}]
        BY <1>1, <2>3 DEF Sums
    <2>5. s # {}
        BY <2>3, <2>4
    <2> DEFINE t == s \ {Pick(s)}
    <2>6. t \in SUBSET S /\ Cardinality(t) \in Nat /\ Cardinality(t) < c /\ c \in Nat /\ Pick(s) \in s
        BY <1>0, <2>3, <2>5, PickOne
    <2>7. t \notin Bad
        <3> HIDE DEF t
        <3> QED
            BY <2>2, <2>6
    <2>8. h[t] \in Nat
        BY <2>6, <2>7
    <2>9. Pick(s).size \in Nat /\ Pick(s).size > 0
        BY <2>3, <2>6, RangeFields
    <2> QED
        BY <2>3, <2>4, <2>5, <2>8, <2>9
<1>3. S \notin Bad
    BY <1>2
<1> QED
    BY <1>1, <1>3

\* A file has finitely many ranges.
LEMMA FinitelyMany ==
    ASSUME NEW n \in Nat, NEW S \in SUBSET Ranges(n)
    PROVE  IsFiniteSet(S)
<1> DEFINE P == (0 .. n) \X (0 .. n)
           f == [p \in P |-> Segment(p[1], p[2])]
<1>1. IsFiniteSet(P)
    <2>1. 0 \in Int /\ n \in Int
        OBVIOUS
    <2>2. IsFiniteSet(0 .. n)
        BY <2>1, FS_Interval
    <2> QED
        BY <2>2, FS_Product
<1>2. S \subseteq {f[p] : p \in P}
    <2> SUFFICES ASSUME NEW s \in S PROVE \E p \in P : s = f[p]
        OBVIOUS
    <2>1. s = Segment(s.start, s.size) /\ s.start \in 0 .. n /\ s.size \in 0 .. n
        BY RangeFields
    <2>2. <<s.start, s.size>> \in P
        BY <2>1
    <2>3. f[<<s.start, s.size>>] = Segment(s.start, s.size)
        BY <2>2
    <2> QED
        BY <2>1, <2>2, <2>3
<1>3. IsFiniteSet({f[p] : p \in P})
    <2>1. f \in Surjection(P, {f[p] : p \in P})
        BY DEF Surjection
    <2> QED
        BY <1>1, <2>1, FS_Surjection
<1> QED
    BY <1>2, <1>3, FS_Subset

\* The loop starts with at least one block.
LEMMA TargetIsABlock ==
    ASSUME NEW n \in Nat \ {0}, NEW b \in Nat \ {0}, NEW S \in SUBSET Ranges(n), NEW wanted \in Nat
    PROVE  b <= TargetSize(S, n, b, wanted)
<1> DEFINE got    == DownloadedBytes(S)
           m      == Max({n * n, 4 * (n * n - got * got)})
           shrunk == (wanted * m) \div (4 * n * n)
<1>1. got \in Nat
    BY FinitelyMany, DownloadedBytesPositive
<1> HIDE DEF got
<1>2. n * n \in Int /\ got * got \in Int
    BY <1>1
<1>3. m \in Int /\ m >= n * n
    <2>1. 4 * (n * n - got * got) \in Int
        BY <1>2
    <2> QED
        BY <1>2, <2>1, MaxOfTwo
<1> HIDE DEF m
<1>4. wanted * m \in Int /\ 4 * n * n \in Int /\ 4 * n * n > 0
    BY <1>3
<1>5. shrunk \in Int
    BY <1>4
<1>6. TargetSize(S, n, b, wanted) = IF shrunk > b THEN RoundDown(shrunk, b) ELSE b
    BY DEF TargetSize, got, m
<1> HIDE DEF shrunk
<1>7. CASE shrunk > b
    <2> DEFINE p == shrunk + b \div 2
               q == p \div b
    <2>1. p \in Nat /\ p > b
        BY <1>5, <1>7
    <2> HIDE DEF p
    <2>2. q \in Nat /\ p < q * b + b
        BY <2>1, Division
    <2>3. RoundDown(shrunk, b) = q * b
        BY DEF RoundDown, p
    <2> HIDE DEF q
    <2>4. q * b \in Nat /\ q * b > 0
        BY <2>1, <2>2
    <2>5. q >= 1
        <3>1. CASE q = 0
            BY <2>4, <3>1
        <3> QED
            BY <2>2, <3>1
    <2>6. 1 * b \in 0 .. (q * b) /\ 1 * b = b
        BY <2>2, <2>5, BlocksMonotone
    <2> QED
        BY <1>6, <1>7, <2>3, <2>4, <2>6
<1>8. CASE ~(shrunk > b)
    BY <1>6, <1>8
<1> QED
    BY <1>7, <1>8

-----------------------------------------------------------------------------
(* Recording a part of what a download fetched.                            *)

\* Two ranges overlap exactly if they have a byte in common.
LEMMA SharedByte ==
    ASSUME NEW n \in Nat, NEW r \in Ranges(n), NEW s \in Ranges(n)
    PROVE  Overlaps(r, s) <=> \E x \in SegmentBytes(r) : x \in SegmentBytes(s)
<1>1. /\ r.start \in Nat /\ End(r) \in Nat /\ r.start < End(r)
      /\ s.start \in Nat /\ End(s) \in Nat /\ s.start < End(s)
    BY RangeFields
<1>2. ASSUME Overlaps(r, s) PROVE \E x \in SegmentBytes(r) : x \in SegmentBytes(s)
    <2> DEFINE x == IF r.start <= s.start THEN s.start ELSE r.start
    <2>1. x \in Int /\ r.start <= x /\ x < End(r) /\ s.start <= x /\ x < End(s)
        BY <1>1, <1>2 DEF Overlaps
    <2>2. x \in SegmentBytes(r) /\ x \in SegmentBytes(s)
        BY <2>1, InRange
    <2> QED
        BY <2>2
<1>3. ASSUME NEW x \in SegmentBytes(r), x \in SegmentBytes(s) PROVE Overlaps(r, s)
    <2>1. x \in Int /\ r.start <= x /\ x < End(r) /\ s.start <= x /\ x < End(s)
        BY <1>3, InRange
    <2> QED
        BY <1>1, <2>1 DEF Overlaps
<1> QED
    BY <1>2, <1>3

\* What addSegment makes of a consolidated set and a range none of it overlaps:
\* a consolidated set of exactly the bytes of both, which leaves free, and the
\* file unfinished, whatever both leave free.
LEMMA AddSegmentAdds ==
    ASSUME NEW n \in Nat, NEW b \in Nat \ {0},
           NEW got \in SUBSET Ranges(n), Apart(got), \A s \in got : Aligned(s, b, n),
           NEW part \in Ranges(n), Aligned(part, b, n), \A s \in got : ~Overlaps(part, s)
    PROVE  LET new == AddSegment(got, part)
           IN  /\ new \in SUBSET Ranges(n) /\ Apart(new) /\ \A s \in new : Aligned(s, b, n)
               /\ Bytes(new) = Bytes(got) \cup SegmentBytes(part)
               /\ \A r \in Ranges(n) :
                     (\A s \in got : ~Overlaps(r, s)) /\ ~Overlaps(r, part)
                        => ~IsFinished(new, n) /\ \A s \in new : ~Overlaps(r, s)
<1> DEFINE S == got \cup {part}
           new == AddSegment(got, part)
<1>1. S \in SUBSET Ranges(n) /\ new = Consolidate(S)
    BY DEF AddSegment
<1>2. \A s, t \in S : s # t => ~Overlaps(s, t)
    <2> SUFFICES ASSUME NEW s \in S, NEW t \in S, s # t PROVE ~Overlaps(s, t)
        OBVIOUS
    <2>1. /\ s.start \in Nat /\ End(s) \in Nat /\ s.start < End(s)
          /\ t.start \in Nat /\ End(t) \in Nat /\ t.start < End(t)
        BY <1>1, RangeFields
    <2>2. CASE s \in got /\ t \in got
        BY <2>1, <2>2 DEF Apart, Overlaps
    <2>3. CASE s = part
        BY <2>3
    <2>4. CASE t = part
        BY <2>4 DEF Overlaps
    <2> QED
        BY <2>2, <2>3, <2>4
<1>3. Bytes(S) = Bytes(got) \cup SegmentBytes(part)
    BY DEF Bytes
<1>4. Bytes(new) = Bytes(got) \cup SegmentBytes(part)
    BY <1>1, <1>2, <1>3, ConsolidateCovers
<1>5. new \in SUBSET Ranges(n) /\ Apart(new)
    BY <1>1, ConsolidateRanges
<1>6. ASSUME NEW r \in new PROVE Aligned(r, b, n)
    <2>1. (\E s \in S : r.start = s.start) /\ (\E t \in S : End(r) = End(t))
        BY <1>1, <1>6, ConsolidateRanges
    <2>2. \A s \in S : Aligned(s, b, n)
        OBVIOUS
    <2> QED
        BY <2>1, <2>2 DEF Aligned
<1> HIDE DEF new
<1>7. ASSUME NEW r \in Ranges(n), \A s \in got : ~Overlaps(r, s), ~Overlaps(r, part)
      PROVE  ~IsFinished(new, n) /\ \A s \in new : ~Overlaps(r, s)
    <2>1. ASSUME NEW x \in SegmentBytes(r), x \in Bytes(new) PROVE FALSE
        <3>1. CASE x \in SegmentBytes(part)
            BY <1>7, <2>1, <3>1, SharedByte
        <3>2. CASE x \in Bytes(got)
            <4>1. PICK s \in got : x \in SegmentBytes(s)
                BY <3>2, InBytes
            <4>2. s \in Ranges(n)
                OBVIOUS
            <4> QED
                BY <1>7, <2>1, <4>1, <4>2, SharedByte
        <3> QED
            BY <1>4, <2>1, <3>1, <3>2
    <2>2. ASSUME NEW s \in new, Overlaps(r, s) PROVE FALSE
        <3>1. s \in Ranges(n)
            BY <1>5, <2>2
        <3>2. PICK x \in SegmentBytes(r) : x \in SegmentBytes(s)
            BY <2>2, <3>1, SharedByte
        <3>3. x \in Bytes(new)
            BY <2>2, <3>2, InBytes
        <3> QED
            BY <2>1, <3>3
    <2>3. ASSUME IsFinished(new, n) PROVE FALSE
        <3>1. Segment(0, n) \in new /\ Segment(0, n).start = 0 /\ End(Segment(0, n)) = n
            BY <2>3 DEF IsFinished, Segment, End
        <3>2. r.start \in Nat /\ r.start < End(r) /\ End(r) <= n /\ End(r) \in Nat
            BY RangeFields
        <3>3. Overlaps(r, Segment(0, n))
            BY <3>1, <3>2 DEF Overlaps
        <3> QED
            BY <2>2, <3>1, <3>3
    <2> QED
        BY <2>2, <2>3
<1> QED
    BY <1>4, <1>5, <1>6, <1>7 DEF new

\* A part of a range that overlaps another range overlaps it as well.
LEMMA PartOverlaps ==
    ASSUME NEW n \in Nat, NEW r \in Ranges(n), NEW s \in Ranges(n), NEW d,
           d.start \in Int, End(d) \in Int,
           r.start <= s.start, End(s) <= End(r), Overlaps(s, d)
    PROVE  Overlaps(r, d)
<1>1. /\ r.start \in Nat /\ End(r) \in Nat /\ s.start \in Nat /\ End(s) \in Nat
    BY RangeFields
<1> QED
    BY <1>1 DEF Overlaps
=============================================================================
