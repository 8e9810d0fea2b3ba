------------------------------- MODULE Limits --------------------------------
(***************************************************************************)
(* The arithmetic that may leave the int64 domain: expiry times and        *)
(* SETRANGE's offset.  MaxInt stands for math.MaxInt64; sums wrap.         *)
(***************************************************************************)
EXTENDS Ranges

CONSTANTS MaxInt,     \* math.MaxInt64
          MaxValue    \* the size guard's cap on a value

ASSUME LimitsAssumption ==
    /\ MaxInt \in Nat /\ MaxInt >= 1000
    /\ MaxValue \in Nat /\ MaxValue < MaxInt

Int64 == (-MaxInt - 1) .. MaxInt

\* Two's complement, for a sum of two values in range.
Wrap(x) == IF x > MaxInt THEN x - 2 * MaxInt - 2
           ELSE IF x < -MaxInt - 1 THEN x + 2 * MaxInt + 2 ELSE x

\* Go's integer division by 1000 truncates towards zero.
Seconds(ms) == IF ms >= 0 THEN ms \div 1000 ELSE -((-ms) \div 1000)

\* The times of day the process can run at: epoch milliseconds fit.
Clock == 0 .. MaxInt \div 1000

\* A deadline in ms cut to seconds; a future one is not cut to the past.
msDeadlineToSec(now, deadlineMs) ==
    LET sec == Seconds(deadlineMs)
    IN  IF deadlineMs > now * 1000 /\ sec <= now THEN now + 1 ELSE sec

\* EXPIRE, SETEX, SET EX.
secExpiryEpoch(now, n) ==
    IF n > Wrap(MaxInt \div 1000 - now) THEN now ELSE Wrap(now + n)

\* A guard that forgets the clock.
msExpiryEpoch_LateGuard(now, n) ==
    IF n > MaxInt THEN now ELSE msDeadlineToSec(now, Wrap(now * 1000 + n))

\* PEXPIRE, PSETEX, SET PX.
msExpiryEpoch(now, n) ==
    IF n > Wrap(MaxInt - now * 1000) THEN now ELSE msDeadlineToSec(now, Wrap(now * 1000 + n))

(***************************************************************************)
(* What the expiry commands promise: a time to live that fits is cut to    *)
(* whole seconds, so it ends in the second before the time asked for, but  *)
(* a positive one never ends before it has begun; one that does not fit    *)
(* ends at once; none wraps around into another one.                       *)
(***************************************************************************)
SecondsKept(now, n) ==
    secExpiryEpoch(now, n) = IF (now + n) * 1000 > MaxInt THEN now ELSE now + n

MillisKept(now, n) ==
    LET end == now * 1000 + n
        e == msExpiryEpoch(now, n)
    IN  IF end > MaxInt THEN e = now
        ELSE /\ n <= 0 => e <= now
             /\ n > 0 => e > now /\ (e = now + 1 \/ e * 1000 <= end) /\ end < (e + 1) * 1000

-----------------------------------------------------------------------------
(***************************************************************************)
(* SETRANGE on the bytes of a string, and GETRANGE.  A refused SETRANGE    *)
(* leaves the string as it is.                                             *)
(***************************************************************************)
Refused(base) == [ok |-> FALSE, buf |-> base]

\* The string of length nl with val copied over it up to end; zeros fill a gap.
Copied(base, offset, val, end, nl) ==
    [i \in 1 .. nl |-> IF i > offset /\ i <= end THEN val[i - offset]
                       ELSE IF i <= Len(base) THEN base[i] ELSE 0]

handleSetRange(base, offset, val) ==
    LET end == Wrap(offset + Len(val))
        nl == IF end > Len(base) THEN end ELSE Len(base)
    IN  IF offset > MaxInt - Len(val) \/ nl > MaxValue THEN Refused(base)
        ELSE [ok |-> TRUE, buf |-> Copied(base, offset, val, end, nl)]

handleGetRange(cur, start, end) ==
    LET r == rangeBounds(Len(cur), start, end)
    IN  SubSeq(cur, r.lo + 1, r.hi)

\* A value that fits is written: it reads back, what it does not cover is kept,
\* and a gap before it reads as zeros.  One that does not fit changes nothing.
SetRangeKept(base, offset, val) ==
    LET done == handleSetRange(base, offset, val)
        end == offset + Len(val)
        byte(s, i) == IF i \in DOMAIN s THEN s[i] ELSE 0
    IN  IF end > MaxValue \/ Len(base) > MaxValue THEN done = Refused(base)
        ELSE /\ done.ok
             /\ handleGetRange(done.buf, offset, end - 1) = val
             /\ \A i \in 1 .. offset \cup (end + 1) .. Len(done.buf) : done.buf[i] = byte(base, i)
             /\ Len(done.buf) = IF end > Len(base) THEN end ELSE Len(base)
=============================================================================
