-------------------------------- MODULE Calls --------------------------------
(***************************************************************************)
(* A call of one of the algorithms, and what the calls that only compute   *)
(* with integers promise: index ranges, expiry times, SETRANGE.            *)
(***************************************************************************)
EXTENDS Limits

VARIABLE call   \* the call under way: its command and its inputs

Asked(fn) == call.fn = fn

\* ZNormalizeRankRange, rangeResultCount, byteRange, rangeBounds: the positions the
\* bounds of a request select are those Redis selects, and the reply cap counts them.
RangesMean ==
    Asked("range") => RankRangeMeans(call.n, call.i, call.j) /\ ByteRangeMeans(call.n, call.i, call.j)

\* secExpiryEpoch, msExpiryEpoch, msDeadlineToSec, handleSetRange: int64 sums that may wrap
\* never give an expiry other than the one asked for, keep a deadline in the past there,
\* and never let a write past the size guard; see SecondsKept, MillisKept, SetRangeKept.
LimitsKept ==
    /\ Asked("expiry") =>
         /\ SecondsKept(call.now, call.n) /\ MillisKept(call.now, call.n)
         /\ call.n <= call.now * 1000 => msDeadlineToSec(call.now, call.n) <= call.now
    /\ Asked("setrange") => SetRangeKept(call.base, call.offset, call.val)
==============================================================================
