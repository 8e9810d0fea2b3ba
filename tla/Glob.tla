-------------------------------- MODULE Glob ---------------------------------
(***************************************************************************)
(* The MATCH filter of the SCAN commands.  Patterns and strings are        *)
(* sequences of bytes; positions in them count from one.                   *)
(***************************************************************************)
EXTENDS Integers, Sequences

Star == 42      \* *
Question == 63  \* ?
Open == 91      \* [
Backslash == 92 \* \
Close == 93     \* ]
Caret == 94     \* ^
Dash == 45      \* -

AllStars(pattern, p) == \A i \in p .. Len(pattern) : pattern[i] = Star

\* A range whose ends are not swapped.
InClassRange_Ordered(lo, hi, ch) == lo <= ch /\ ch <= hi

\* A range may be given from its upper end.
InClassRange(lo, hi, ch) == (lo <= ch /\ ch <= hi) \/ (hi <= ch /\ ch <= lo)

(***************************************************************************)
(* The scan of a character class from position p on, for byte ch: whether  *)
(* a member matched, and the position the walk goes on from.  A class that *)
(* is not closed, or that ends in a bare backslash, ends with the pattern. *)
(***************************************************************************)
ScanClass(pattern, from, ch) ==
    LET n == Len(pattern)
        here(m, next) == [match |-> m, next |-> next]
        scan[p \in 1 .. n + 1] ==
          LET on(m, next) == here(m \/ scan[next].match, scan[next].next)
          IN  IF p > n THEN here(FALSE, n + 1)
              ELSE IF pattern[p] = Backslash
                THEN IF p = n THEN here(FALSE, n + 1) ELSE on(pattern[p + 1] = ch, p + 2)
              ELSE IF pattern[p] = Close THEN here(FALSE, p + 1)
              ELSE IF p + 2 <= n /\ pattern[p + 1] = Dash
                THEN on(InClassRange(pattern[p], pattern[p + 2], ch), p + 3)
              ELSE on(pattern[p] = ch, p + 1)
    IN  scan[from]

(***************************************************************************)
(* The walk over pattern and string in lockstep; a star tries every suffix *)
(* of the string.                                                          *)
(***************************************************************************)
stringMatchLen(pattern, str) ==
    LET np == Len(pattern)
        ns == Len(str)
        class(p, ch) ==
          LET negated == p + 1 <= np /\ pattern[p + 1] = Caret
              scanned == ScanClass(pattern, IF negated THEN p + 2 ELSE p + 1, ch)
          IN  [match |-> negated # scanned.match, next |-> scanned.next]
        m[p \in 1 .. np + 1, s \in 1 .. ns + 1] ==
          IF p > np \/ s > ns THEN s > ns /\ AllStars(pattern, p)
          ELSE CASE pattern[p] = Star -> p = np \/ \E i \in s .. ns + 1 : m[p + 1, i]
                 [] pattern[p] = Question -> m[p + 1, s + 1]
                 [] pattern[p] = Open -> class(p, str[s]).match /\ m[class(p, str[s]).next, s + 1]
                 [] pattern[p] = Backslash /\ p < np -> pattern[p + 1] = str[s] /\ m[p + 2, s + 1]
                 [] OTHER -> pattern[p] = str[s] /\ m[p + 1, s + 1]
    IN  m[1, 1]
=============================================================================
