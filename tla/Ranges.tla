------------------------------- MODULE Ranges -------------------------------
(***************************************************************************)
(* Index arithmetic: how the commands turn the bounds of a request into    *)
(* positions of a list, a sorted set or a string.  Positions count from    *)
(* zero, as the commands do; a range is a record of its two ends, and is   *)
(* empty when lo > hi.                                                     *)
(***************************************************************************)
EXTENDS Integers, Sequences, FiniteSets

Span(lo, hi) == [lo |-> lo, hi |-> hi]
NoSpan == Span(0, -1)
InRange(r) == r.lo .. r.hi

\* A negative index counts from the end.
FromEnd(n, i) == IF i < 0 THEN i + n ELSE i
AtLeastZero(i) == IF i < 0 THEN 0 ELSE i
AtMost(i, top) == IF i > top THEN top ELSE i

\* ZRANGE, ZREVRANGE, ZREMRANGEBYRANK and LTRIM.
ZNormalizeRankRange(n, start, stop) ==
    LET lo == AtLeastZero(FromEnd(n, start))
        hi == AtMost(FromEnd(n, stop), n - 1)
    IN  IF n = 0 \/ lo >= n \/ hi < 0 \/ lo > hi THEN NoSpan ELSE Span(lo, hi)

\* A size that forgets that the end may lie past the last position.
rangeResultCount_Unclamped(clen, start, stop) ==
    LET lo == AtLeastZero(FromEnd(clen, start))
        hi == FromEnd(clen, stop)
    IN  IF clen <= 0 \/ lo > hi THEN 0 ELSE hi - lo + 1

\* The size of the reply, computed before the read to apply the reply cap.
rangeResultCount(clen, start, stop) ==
    LET lo == AtLeastZero(FromEnd(clen, start))
        hi == AtMost(FromEnd(clen, stop), clen - 1)
    IN  IF clen <= 0 \/ lo > hi THEN 0 ELSE hi - lo + 1

\* What these bounds mean: the positions between the two ends, as counted.  The
\* reply cap is computed from their number before anything is read.
RankRangeMeans(n, i, j) ==
    /\ InRange(ZNormalizeRankRange(n, i, j)) = {k \in 0 .. n - 1 : FromEnd(n, i) <= k /\ k <= FromEnd(n, j)}
    /\ rangeResultCount(n, i, j) = Cardinality(InRange(ZNormalizeRankRange(n, i, j)))

\* BITCOUNT and BITPOS: both bounds are clamped from below.
byteRange(n, start, end) ==
    LET lo == AtLeastZero(FromEnd(n, start))
        hi == AtMost(AtLeastZero(FromEnd(n, end)), n - 1)
    IN  IF lo > hi \/ n = 0 THEN Span(1, 0) ELSE Span(lo, hi)

\* GETRANGE: a half-open range; an inverted pair of negative bounds is empty
\* before anything is clamped.
rangeBounds(strlen, start, end) ==
    LET lo == AtLeastZero(FromEnd(strlen, start))
        hi == AtMost(AtLeastZero(FromEnd(strlen, end)), strlen - 1)
    IN  IF (start < 0 /\ end < 0 /\ start > end) \/ lo > hi THEN Span(0, 0) ELSE Span(lo, hi + 1)

\* The bytes both select: the same but for an inverted pair of negative bounds, of
\* which byteRange keeps the first byte when both lie before it.
ByteRangeMeans(n, i, j) ==
    LET selected == {k \in 0 .. n - 1 : AtLeastZero(FromEnd(n, i)) <= k /\ k <= AtLeastZero(FromEnd(n, j))}
        r == rangeBounds(n, i, j)
    IN  /\ InRange(byteRange(n, i, j)) = selected
        /\ r.lo .. r.hi - 1 = IF i < 0 /\ j < 0 /\ i > j THEN {} ELSE selected
        /\ r.lo >= 0 /\ r.hi <= AtLeastZero(n)

\* LIMIT offset count of the BYSCORE and BYLEX ranges, on a reply of n members.
applyZLimit(n, offset, count) ==
    IF offset < 0 \/ offset >= n THEN NoSpan
    ELSE Span(offset, IF count >= 0 /\ count < n - offset THEN offset + count - 1 ELSE n - 1)

(***************************************************************************)
(* LREM: the positions (from 1) that are dropped.  The magnitude of the    *)
(* count is capped at the length before it is negated.                     *)
(***************************************************************************)
lremCompute(all, count, value) ==
    LET n == Len(all)
        left == IF count >= 0 THEN AtMost(count, n) ELSE IF count < -n THEN n ELSE -count
        matches == {i \in 1 .. n : all[i] = value}
        before(i) == {j \in matches : IF count > 0 THEN j < i ELSE j > i}
    IN  IF count = 0 THEN matches
        ELSE {i \in matches : Cardinality(before(i)) < left}
=============================================================================
