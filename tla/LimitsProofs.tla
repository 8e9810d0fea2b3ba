---------------------------- MODULE LimitsProofs -----------------------------
(***************************************************************************)
(* What holds of the index and expiry arithmetic for all integers: TLC     *)
(* compares the same formulas on small ones (Pure).                        *)
(***************************************************************************)
EXTENDS Calls, FiniteSetTheorems, SequenceTheorems, TLAPS

(***************************************************************************)
(* The bound computed before the sum: no time of day and no time to live,  *)
(* however large, wraps into another deadline.                             *)
(***************************************************************************)

\* A clock in seconds is also one in milliseconds.
LEMMA ClockFits ==
    ASSUME NEW now \in Clock
    PROVE  /\ now \in Int /\ now >= 0
           /\ now * 1000 <= MaxInt
           /\ now <= MaxInt \div 1000
  BY LimitsAssumption DEF Clock

\* secExpiryEpoch (keys.go): EXPIRE and SETEX end at the second asked for, or at
\* once when the milliseconds of that second would not fit in an int64.
THEOREM SecondsNeverWrap ==
    ASSUME NEW now \in Clock, NEW n \in Int64
    PROVE  SecondsKept(now, n)
<1> DEFINE room == MaxInt \div 1000 - now
<1>1. /\ now \in Int /\ now >= 0 /\ now <= MaxInt \div 1000
  BY ClockFits
<1>2. MaxInt \in Int /\ MaxInt >= 1000 /\ n \in Int /\ n >= -MaxInt - 1 /\ n <= MaxInt
  BY LimitsAssumption DEF Int64
<1>3. Wrap(room) = room
  BY <1>1, <1>2 DEF Wrap
<1>4. n <= room => Wrap(now + n) = now + n
  BY <1>1, <1>2 DEF Wrap
<1>5. n > room <=> (now + n) * 1000 > MaxInt
  BY <1>1, <1>2
<1> QED
  BY <1>1, <1>2, <1>3, <1>4, <1>5 DEF SecondsKept, secExpiryEpoch

\* msDeadlineToSec (keys.go): the second a deadline in milliseconds is cut to
\* begins at or before it, but for a deadline later in the current second, which
\* is put off to the next one.
LEMMA DeadlineSecond ==
    ASSUME NEW now \in Clock, NEW ms \in Int, ms > now * 1000
    PROVE  LET e == msDeadlineToSec(now, ms)
           IN  e > now /\ (e = now + 1 \/ e * 1000 <= ms) /\ ms < (e + 1) * 1000
  BY ClockFits DEF msDeadlineToSec, Seconds

LEMMA PastDeadlineSecond ==
    ASSUME NEW now \in Clock, NEW ms \in Int, ms <= now * 1000
    PROVE  msDeadlineToSec(now, ms) <= now
  BY ClockFits DEF msDeadlineToSec, Seconds

\* msExpiryEpoch (keys.go): PEXPIRE and PSETEX with a positive time never end
\* before they have begun, nor a second or more away from the time asked for.
THEOREM MillisNeverWrap ==
    ASSUME NEW now \in Clock, NEW n \in Int64
    PROVE  MillisKept(now, n)
<1> DEFINE end == now * 1000 + n
           e == msExpiryEpoch(now, n)
<1>1. now \in Int /\ now >= 0 /\ now * 1000 <= MaxInt
  BY ClockFits
<1>2. MaxInt \in Int /\ MaxInt >= 1000 /\ n \in Int /\ n >= -MaxInt - 1 /\ n <= MaxInt
  BY LimitsAssumption DEF Int64
<1>3. Wrap(MaxInt - now * 1000) = MaxInt - now * 1000
  BY <1>1, <1>2 DEF Wrap
<1>4. CASE end > MaxInt
  BY <1>1, <1>2, <1>3, <1>4 DEF msExpiryEpoch, MillisKept
<1>5. CASE end <= MaxInt
  <2>1. Wrap(end) = end
    BY <1>1, <1>2, <1>5 DEF Wrap
  <2>2. e = msDeadlineToSec(now, end)
    BY <1>1, <1>2, <1>3, <1>5, <2>1 DEF msExpiryEpoch
  <2>3. end \in Int /\ (n <= 0 => end <= now * 1000) /\ (n > 0 => end > now * 1000)
    BY <1>1, <1>2
  <2>4. n <= 0 => e <= now
    BY <2>2, <2>3, PastDeadlineSecond
  <2>5. n > 0 => e > now /\ (e = now + 1 \/ e * 1000 <= end) /\ end < (e + 1) * 1000
    BY <2>2, <2>3, DeadlineSecond
  <2> QED
    BY <1>5, <1>1, <1>2, <2>4, <2>5 DEF MillisKept
<1> QED
  BY <1>1, <1>2, <1>4, <1>5

-----------------------------------------------------------------------------
(***************************************************************************)
(* Ranges of positions.                                                    *)
(***************************************************************************)

\* An interval of integers is as long as its ends are apart.
LEMMA IntervalSize ==
    ASSUME NEW a \in Int, NEW b \in Int
    PROVE  Cardinality(a .. b) = IF a <= b THEN b - a + 1 ELSE 0
  BY FS_Interval

\* ZNormalizeRankRange, rangeResultCount (store_zsets.go, datacmd.go): for every
\* length and every pair of bounds the positions selected are those between the
\* two ends, and the size the reply cap is applied to is their number.
THEOREM RankRange ==
    ASSUME NEW n \in Nat, NEW i \in Int, NEW j \in Int
    PROVE  RankRangeMeans(n, i, j)
<1> DEFINE r == ZNormalizeRankRange(n, i, j)
           lo == AtLeastZero(FromEnd(n, i))
           hi == AtMost(FromEnd(n, j), n - 1)
           none == n = 0 \/ lo >= n \/ hi < 0 \/ lo > hi
<1>1. lo \in Nat /\ hi \in Int /\ hi <= n - 1
  BY DEF AtLeastZero, AtMost, FromEnd
<1>2. InRange(r) = IF none THEN 0 .. -1 ELSE lo .. hi
  BY DEF InRange, ZNormalizeRankRange, NoSpan, Span
<1>3. InRange(r) = {k \in 0 .. n - 1 : FromEnd(n, i) <= k /\ k <= FromEnd(n, j)}
  BY <1>2, <1>1 DEF AtLeastZero, AtMost, FromEnd
<1>4. rangeResultCount(n, i, j) = Cardinality(InRange(r))
  <2>1. CASE none
    <3>1. Cardinality(InRange(r)) = 0
      BY <1>2, <2>1, IntervalSize
    <3>2. n <= 0 \/ lo > hi
      BY <1>1, <2>1
    <3> QED
      BY <3>1, <3>2 DEF rangeResultCount
  <2>2. CASE ~none
    <3>1. Cardinality(InRange(r)) = hi - lo + 1
      BY <1>1, <1>2, <2>2, IntervalSize
    <3>2. rangeResultCount(n, i, j) = hi - lo + 1
      BY <1>1, <2>2 DEF rangeResultCount
    <3> QED
      BY <3>1, <3>2
  <2> QED
    BY <2>1, <2>2
<1> QED
  BY <1>3, <1>4 DEF RankRangeMeans

\* rangeBounds, byteRange (strings.go, bit.go): GETRANGE, BITCOUNT and BITPOS
\* select the bytes between the two ends and never one outside the string.
THEOREM ByteRange ==
    ASSUME NEW n \in Nat, NEW i \in Int, NEW j \in Int
    PROVE  ByteRangeMeans(n, i, j)
<1> DEFINE lo == AtLeastZero(FromEnd(n, i))
           hi == AtMost(AtLeastZero(FromEnd(n, j)), n - 1)
           selected == {k \in 0 .. n - 1 : lo <= k /\ k <= AtLeastZero(FromEnd(n, j))}
           r == rangeBounds(n, i, j)
<1>1. lo \in Nat /\ hi \in Int /\ hi <= n - 1 /\ selected = lo .. hi
  BY DEF AtLeastZero, AtMost, FromEnd
<1>2. InRange(byteRange(n, i, j)) = selected
  <2>1. InRange(byteRange(n, i, j)) = IF lo > hi \/ n = 0 THEN 1 .. 0 ELSE lo .. hi
    BY DEF byteRange, InRange, Span
  <2> QED
    BY <1>1, <2>1
<1>3. /\ r.lo .. r.hi - 1 = IF i < 0 /\ j < 0 /\ i > j THEN {} ELSE selected
      /\ r.lo >= 0 /\ r.hi <= AtLeastZero(n)
  <2>1. CASE (i < 0 /\ j < 0 /\ i > j) \/ lo > hi
    <3>1. r.lo = 0 /\ r.hi = 0
      BY <2>1 DEF rangeBounds, Span
    <3>2. r.lo .. r.hi - 1 = {} /\ (lo > hi => selected = {})
      BY <1>1, <3>1
    <3> QED
      BY <1>1, <2>1, <3>1, <3>2 DEF AtLeastZero
  <2>2. CASE ~((i < 0 /\ j < 0 /\ i > j) \/ lo > hi)
    <3>1. r.lo = lo /\ r.hi = hi + 1
      BY <2>2 DEF rangeBounds, Span
    <3>2. r.lo .. r.hi - 1 = selected
      BY <1>1, <3>1
    <3>3. r.hi <= n /\ AtLeastZero(n) = n
      BY <1>1, <3>1 DEF AtLeastZero
    <3>4. r.lo >= 0
      BY <1>1, <3>1
    <3> QED
      BY <2>2, <3>2, <3>3, <3>4
  <2> QED
    BY <2>1, <2>2
<1> QED
  BY <1>2, <1>3 DEF ByteRangeMeans

-----------------------------------------------------------------------------
(***************************************************************************)
(* SETRANGE.                                                               *)
(***************************************************************************)

\* handleSetRange (strings_rmw.go): the check made before the sum refuses what
\* would wrap; otherwise the sum is the true end of the value.
LEMMA EndOfValue ==
    ASSUME NEW offset \in 0 .. MaxInt, NEW len \in 0 .. MaxInt
    PROVE  /\ offset > MaxInt - len => offset + len > MaxValue
           /\ offset <= MaxInt - len => Wrap(offset + len) = offset + len
  BY LimitsAssumption DEF Wrap

\* A string of length nl with val at offset and the bytes of base around it.
IsCopy(buf, base, offset, val, nl) ==
    /\ buf \in Seq(Nat) /\ Len(buf) = nl
    /\ \A i \in 1 .. Len(val) : buf[offset + i] = val[i]
    /\ \A i \in 1 .. nl : i <= offset \/ i > offset + Len(val) =>
          buf[i] = IF i <= Len(base) THEN base[i] ELSE 0

\* handleSetRange's two copies (strings_rmw.go) make such a string.
LEMMA CopyProperties ==
    ASSUME NEW base \in Seq(Nat), NEW val \in Seq(Nat), NEW offset \in Nat, NEW nl \in Nat,
           offset + Len(val) <= nl
    PROVE  IsCopy(Copied(base, offset, val, offset + Len(val), nl), base, offset, val, nl)
<1> DEFINE end == offset + Len(val)
           at(i) == IF i > offset /\ i <= end THEN val[i - offset]
                    ELSE IF i <= Len(base) THEN base[i] ELSE 0
           buf == [i \in 1 .. nl |-> at(i)]
<1>1. Len(val) \in Nat /\ Len(base) \in Nat
  BY LenProperties
<1>2. Copied(base, offset, val, end, nl) = buf
  BY DEF Copied
<1>3. \A i \in 1 .. nl : at(i) \in Nat
  <2> SUFFICES ASSUME NEW i \in 1 .. nl PROVE at(i) \in Nat
    OBVIOUS
  <2>1. CASE i > offset /\ i <= end
    <3>1. i - offset \in 1 .. Len(val)
      BY <1>1, <2>1
    <3> QED
      BY <2>1, <3>1, ElementOfSeq
  <2>2. CASE ~(i > offset /\ i <= end)
    <3>1. i <= Len(base) => i \in 1 .. Len(base)
      BY <1>1
    <3> QED
      BY <2>2, <3>1, ElementOfSeq
  <2> QED
    BY <2>1, <2>2
<1>4. buf \in [1 .. nl -> Nat]
  BY <1>3
<1>5. buf \in Seq(Nat) /\ DOMAIN buf = 1 .. nl
  BY <1>4, SeqDef
<1>6. Len(buf) = nl
  <2> HIDE DEF buf
  <2> QED
    BY <1>5, LenProperties
<1>7. \A i \in 1 .. Len(val) : buf[offset + i] = val[i]
  <2> SUFFICES ASSUME NEW i \in 1 .. Len(val) PROVE buf[offset + i] = val[i]
    OBVIOUS
  <2>1. /\ offset + i \in 1 .. nl /\ offset + i > offset /\ offset + i <= end
        /\ offset + i - offset = i
    BY <1>1
  <2> QED
    BY <2>1
<1>8. \A i \in 1 .. nl : i <= offset \/ i > end =>
          buf[i] = IF i <= Len(base) THEN base[i] ELSE 0
  BY <1>1
<1> QED
  BY <1>2, <1>5, <1>6, <1>7, <1>8 DEF IsCopy

\* handleSetRange, handleGetRange: a value, wherever it is put, either fits and is
\* read back from there with the rest of the string kept, or changes nothing.
THEOREM SetRange ==
    ASSUME NEW base \in Seq(Nat), NEW val \in Seq(Nat), NEW offset \in 0 .. MaxInt,
           val # <<>>, Len(val) <= MaxInt, Len(base) <= MaxInt
    PROVE  SetRangeKept(base, offset, val)
<1> DEFINE done == handleSetRange(base, offset, val)
           end == offset + Len(val)
           nl == IF end > Len(base) THEN end ELSE Len(base)
           buf == Copied(base, offset, val, end, nl)
<1>1. /\ MaxInt \in Nat /\ MaxValue \in Nat /\ MaxValue < MaxInt
      /\ offset \in Nat /\ Len(val) \in Nat /\ Len(base) \in Nat /\ Len(val) >= 1
      /\ end \in Nat /\ nl \in Nat /\ end <= nl /\ Len(base) <= nl
  <2>1. Len(val) \in Nat \ {0} /\ Len(base) \in Nat
    BY EmptySeq, LenProperties
  <2> QED
    BY <2>1, LimitsAssumption
<1>2. CASE end > MaxValue \/ Len(base) > MaxValue
  <2>1. done = Refused(base)
    <3>1. CASE offset > MaxInt - Len(val)
      BY <3>1 DEF handleSetRange
    <3>2. CASE offset <= MaxInt - Len(val)
      <4>1. Wrap(offset + Len(val)) = end
        BY <1>1, <3>2, EndOfValue
      <4>2. nl > MaxValue
        BY <1>1, <1>2
      <4> QED
        BY <4>1, <4>2 DEF handleSetRange
    <3> QED
      BY <1>1, <3>1, <3>2
  <2> QED
    BY <1>2, <2>1 DEF SetRangeKept
<1>3. CASE ~(end > MaxValue \/ Len(base) > MaxValue)
  <2>1. done = [ok |-> TRUE, buf |-> buf]
    <3>1. ~(offset > MaxInt - Len(val) \/ nl > MaxValue)
      BY <1>1, <1>3
    <3>2. Wrap(offset + Len(val)) = end
      BY <1>1, <3>1, EndOfValue
    <3> QED
      BY <3>1, <3>2 DEF handleSetRange
  <2>2. IsCopy(buf, base, offset, val, nl)
    <3>1. offset \in Nat /\ nl \in Nat /\ offset + Len(val) <= nl
      BY <1>1
    <3> HIDE DEF nl
    <3> QED
      BY <3>1, CopyProperties
  <2> HIDE DEF buf
  <2>3. handleGetRange(buf, offset, end - 1) = val
    <3>1. /\ rangeBounds(nl, offset, end - 1).lo = offset
          /\ rangeBounds(nl, offset, end - 1).hi = end
      <4>1. AtLeastZero(FromEnd(nl, offset)) = offset
        BY <1>1 DEF FromEnd, AtLeastZero
      <4>2. AtMost(AtLeastZero(FromEnd(nl, end - 1)), nl - 1) = end - 1
        <5>1. end - 1 \in Nat /\ end - 1 <= nl - 1
          BY <1>1
        <5> HIDE DEF end, nl
        <5> QED
          BY <1>1, <5>1 DEF FromEnd, AtLeastZero, AtMost
      <4>3. ~(offset < 0) /\ offset <= end - 1 /\ end - 1 + 1 = end
        BY <1>1
      <4> QED
        BY <4>1, <4>2, <4>3 DEF rangeBounds, Span
    <3>2. handleGetRange(buf, offset, end - 1) = SubSeq(buf, offset + 1, end)
      BY <2>2, <3>1 DEF handleGetRange, IsCopy
    <3>3. \A i \in offset + 1 .. end : buf[i] \in Nat
      <4>1. \A i \in offset + 1 .. end : i \in 1 .. Len(buf)
        BY <1>1, <2>2 DEF IsCopy
      <4> QED
        BY <2>2, <4>1, ElementOfSeq DEF IsCopy
    <3> DEFINE read == SubSeq(buf, offset + 1, end)
    <3>4. /\ read \in Seq(Nat) /\ Len(read) = Len(val)
          /\ \A i \in 1 .. Len(val) : read[i] = buf[offset + i]
      <4>1. /\ end - (offset + 1) + 1 = Len(val) /\ offset + 1 <= end
            /\ offset + 1 \in Int /\ end \in Int
        BY <1>1
      <4>2. /\ read \in Seq(Nat)
            /\ Len(read) = IF offset + 1 <= end THEN end - (offset + 1) + 1 ELSE 0
            /\ \A i \in 1 .. end - (offset + 1) + 1 : read[i] = buf[offset + 1 + i - 1]
        BY <3>3, <4>1, SubSeqProperties
      <4>3. \A i \in 1 .. Len(val) : offset + 1 + i - 1 = offset + i
        BY <1>1
      <4> QED
        BY <4>1, <4>2, <4>3
    <3> HIDE DEF read
    <3>5. read = val
      BY <2>2, <3>4, SeqEqual DEF IsCopy
    <3> QED
      BY <3>2, <3>5 DEF read
  <2>4. \A i \in 1 .. offset \cup (end + 1) .. Len(buf) :
            buf[i] = IF i \in DOMAIN base THEN base[i] ELSE 0
    <3>1. DOMAIN base = 1 .. Len(base)
      BY LenProperties
    <3>2. \A i \in 1 .. offset \cup (end + 1) .. Len(buf) :
              /\ i \in 1 .. nl /\ (i <= offset \/ i > end)
              /\ i <= Len(base) <=> i \in 1 .. Len(base)
      BY <1>1, <2>2 DEF IsCopy
    <3> QED
      BY <2>2, <3>1, <3>2 DEF IsCopy
  <2>5. done.ok = TRUE /\ done.buf = buf
    BY <2>1
  <2> HIDE DEF done
  <2> QED
    BY <1>1, <1>3, <2>2, <2>3, <2>4, <2>5 DEF SetRangeKept, IsCopy, done
<1> QED
  BY <1>2, <1>3

-----------------------------------------------------------------------------
(***************************************************************************)
(* The properties of the run `pure` about these calls, for every input a   *)
(* request can have: any length, any bounds, any clock, any int64, any     *)
(* bytes whose number an int64 counts.                                     *)
(***************************************************************************)
RangeInputs == [n : Nat, i : Int, j : Int]
ExpiryInputs == [now : Clock, n : Int64]
Bounded == {s \in Seq(Nat) : Len(s) <= MaxInt}
SetRangeInputs == [base : Bounded, val : Bounded \ {<<>>}, offset : 0 .. MaxInt]

\* ZNormalizeRankRange, rangeResultCount, byteRange, rangeBounds: no request for a range,
\* on a key of whatever length, selects other positions than it asks for.
THEOREM RangesAlwaysMean ==
    ASSUME Asked("range") => \E r \in RangeInputs : call.n = r.n /\ call.i = r.i /\ call.j = r.j
    PROVE  RangesMean
<1>1. ASSUME Asked("range")
      PROVE  RankRangeMeans(call.n, call.i, call.j) /\ ByteRangeMeans(call.n, call.i, call.j)
  <2>1. call.n \in Nat /\ call.i \in Int /\ call.j \in Int
    BY <1>1 DEF RangeInputs
  <2> QED
    BY <2>1, RankRange, ByteRange
<1> QED
  BY <1>1 DEF RangesMean

\* secExpiryEpoch, msExpiryEpoch, msDeadlineToSec, handleSetRange: no int64 a client
\* may send wraps into another expiry or past the size guard.
THEOREM LimitsAlwaysKept ==
    ASSUME Asked("expiry") => \E r \in ExpiryInputs : call.now = r.now /\ call.n = r.n,
           Asked("setrange") => \E r \in SetRangeInputs :
               call.base = r.base /\ call.val = r.val /\ call.offset = r.offset
    PROVE  LimitsKept
<1>1. ASSUME Asked("expiry")
      PROVE  /\ SecondsKept(call.now, call.n) /\ MillisKept(call.now, call.n)
             /\ call.n <= call.now * 1000 => msDeadlineToSec(call.now, call.n) <= call.now
  <2>1. call.now \in Clock /\ call.n \in Int64 /\ call.n \in Int
    BY <1>1, LimitsAssumption DEF ExpiryInputs, Int64
  <2>2. SecondsKept(call.now, call.n)
    BY <2>1, SecondsNeverWrap
  <2>3. MillisKept(call.now, call.n)
    BY <2>1, MillisNeverWrap
  <2>4. call.n <= call.now * 1000 => msDeadlineToSec(call.now, call.n) <= call.now
    BY <2>1, PastDeadlineSecond
  <2> QED
    BY <2>2, <2>3, <2>4
<1>2. ASSUME Asked("setrange")
      PROVE  SetRangeKept(call.base, call.offset, call.val)
  <2>1. /\ call.base \in Seq(Nat) /\ Len(call.base) <= MaxInt
        /\ call.val \in Seq(Nat) /\ Len(call.val) <= MaxInt /\ call.val # <<>>
        /\ call.offset \in 0 .. MaxInt
    BY <1>2 DEF SetRangeInputs, Bounded
  <2> QED
    BY <2>1, SetRange
<1> QED
  BY <1>1, <1>2 DEF LimitsKept
=============================================================================
