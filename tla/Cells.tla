-------------------------------- MODULE Cells --------------------------------
(***************************************************************************)
(* GEO: a position is stored as the number of its cell, the bits of its    *)
(* two coordinates interleaved, in the float64 score of a sorted-set       *)
(* member.  A coordinate is taken after its scaling to 2^StepBits cells,   *)
(* so it is the number of a cell; the upper end of the range, which the    *)
(* range check lets in, is the number after the last.                      *)
(***************************************************************************)
EXTENDS Integers, SequencesExt, Bitwise

CONSTANTS Levels,     \* 5: a coordinate is a word of 2^Levels bits (uint32)
          StepBits,   \* geoStepBits, 26
          FloatBits   \* 53: the integers a float64 can hold

ASSUME CellsAssumption ==
    /\ Levels \in Nat \ {0} /\ StepBits \in Nat \ {0}
    /\ StepBits < 2 ^ Levels /\ FloatBits = 2 * StepBits + 1

WordBits == 2 ^ Levels
LongWord == 2 ^ (2 * WordBits)

\* validGeoCoord, after scaling.
Coordinates == 0 .. 2 ^ StepBits

\* The masks B: groups of 2^k bits, every other group set.
B(k) == (LongWord - 1) \div (2 ^ (2 ^ k) + 1)

shiftLeft(x, s) == (x * 2 ^ s) % LongWord
shiftRight(x, s) == x \div 2 ^ s

\* Every bit moves to twice its position, in steps of half the distance each.
spread(x) ==
    FoldLeft(LAMBDA y, k : (y | shiftLeft(y, 2 ^ k)) & B(k), x, [i \in 1 .. Levels |-> Levels - i])
interleave64(xlo, ylo) == spread(xlo) | shiftLeft(spread(ylo), 1)

\* The way back, without the last step.
squeeze_Short(x) ==
    FoldLeft(LAMBDA y, k : (y | shiftRight(y, 2 ^ (k - 1))) & B(k), x & B(0), [i \in 1 .. Levels - 1 |-> i])
\* The way back, of the bits at even positions.
squeeze(x) ==
    FoldLeft(LAMBDA y, k : (y | shiftRight(y, 2 ^ (k - 1))) & B(k), x & B(0), [i \in 1 .. Levels |-> i])
deinterleave64(interleaved) == [x |-> squeeze(interleaved), y |-> squeeze(shiftRight(interleaved, 1))]

\* A number with one bit more than a float64 holds is rounded to an even one; a tie
\* goes to the multiple of four.
toFloat(x) ==
    IF x < 2 ^ FloatBits \/ x % 2 = 0 THEN x ELSE IF x % 4 = 1 THEN x - 1 ELSE x + 1

geohashEncode52(lat, lon) == toFloat(interleave64(lat, lon))
geohashDecode52(score) ==
    LET cell == deinterleave64(score) IN [lat |-> cell.x, lon |-> cell.y]
=============================================================================
