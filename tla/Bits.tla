-------------------------------- MODULE Bits ---------------------------------
(***************************************************************************)
(* Strings as bits: GETBIT, SETBIT, BITCOUNT, BITPOS, BITOP, BITFIELD and  *)
(* the packed registers of a HyperLogLog.  A string is a sequence of       *)
(* bytes, and bit 0 is the highest of the first byte; a byte has ByteBits  *)
(* bits instead of 8.  Positions count from zero, sequences from one.      *)
(***************************************************************************)
EXTENDS Ranges, SequencesExt, FiniteSetsExt, Bitwise

CONSTANTS ByteBits,      \* 8
          HllBits,       \* hllBits, 6: a register
          HllRegisters,  \* hllRegisters, 2^14
          HllP, HllQ     \* hllP and hllQ, 14 and 50: the bits of a hash for the register and the pattern

ASSUME BitsAssumption ==
    /\ ByteBits \in Nat \ {0} /\ HllBits \in 1 .. ByteBits
    /\ HllRegisters = 2 ^ HllP /\ HllQ + 1 < 2 ^ HllBits
    /\ (HllRegisters * HllBits) % ByteBits = 0

Bytes == 0 .. 2 ^ ByteBits - 1
Larger(m, n) == IF m > n THEN m ELSE n

\* Bit i of a byte counted from the highest, and the byte with that bit replaced.
bitOf(byte, i) == (byte \div 2 ^ (ByteBits - 1 - i)) % 2
withBit(byte, i, bit) == byte + (bit - bitOf(byte, i)) * 2 ^ (ByteBits - 1 - i)

getBit(val, offset) ==
    LET b == offset \div ByteBits
    IN  IF b >= Len(val) THEN 0 ELSE bitOf(val[b + 1], offset % ByteBits)
putBit(val, offset, bit) ==
    [val EXCEPT ![offset \div ByteBits + 1] = withBit(@, offset % ByteBits, bit)]

\* The bytes a write up to bit position last needs, and a string grown to them.
needBytes(last) == (last + ByteBits - 1) \div ByteBits
grown(val, n) == [i \in 1 .. Larger(n, Len(val)) |-> IF i <= Len(val) THEN val[i] ELSE 0]

handleSetBit(base, offset, bit) ==
    LET next == grown(base, offset \div ByteBits + 1)
    IN  [reply |-> getBit(next, offset), val |-> putBit(next, offset, bit)]

-----------------------------------------------------------------------------
OnesCount(byte) == Cardinality({i \in 0 .. ByteBits - 1 : bitOf(byte, i) = 1})

\* args are the given bounds, in bytes: none, or both.
handleBitCount(cur, args) ==
    LET r == IF args = <<>> THEN Span(0, Len(cur) - 1) ELSE byteRange(Len(cur), args[1], args[2])
        inverted == args # <<>> /\ args[1] < 0 /\ args[2] < 0 /\ args[1] > args[2]
    IN  IF inverted THEN 0 ELSE MapThenSumSet(LAMBDA i : OnesCount(cur[i + 1]), InRange(r))

\* The first byte of the range that is not all of the other bit has the bit.
bitPos(val, bit, lo, hi) ==
    LET skip == IF bit = 0 THEN 2 ^ ByteBits - 1 ELSE 0
        bytes == {i \in lo .. hi : val[i + 1] # skip}
        first == Min(bytes)
    IN  IF bytes = {} THEN -1
        ELSE first * ByteBits + Min({j \in 0 .. ByteBits - 1 : bitOf(val[first + 1], j) = bit})

\* A search for a clear bit that finds the end of its range, whatever was given.
handleBitPos_EndIgnored(cur, bit, args) ==
    LET n == Len(cur)
        end == IF Len(args) = 2 THEN args[2] ELSE n - 1
        r == IF args = <<>> THEN Span(0, n - 1) ELSE byteRange(n, args[1], end)
        pos == bitPos(cur, bit, r.lo, r.hi)
    IN  IF n = 0 \/ r.lo > r.hi THEN -1
        ELSE IF pos < 0 /\ bit = 0 THEN (r.hi + 1) * ByteBits ELSE pos

\* args: none, a start, or a start and an end.  Without an end the string is taken
\* to go on with zeros.  (A missing key is answered before: 0, or -1 for a set bit.)
handleBitPos(cur, bit, args) ==
    LET n == Len(cur)
        end == IF Len(args) = 2 THEN args[2] ELSE n - 1
        r == IF args = <<>> THEN Span(0, n - 1) ELSE byteRange(n, args[1], end)
        pos == bitPos(cur, bit, r.lo, r.hi)
    IN  IF n = 0 \/ r.lo > r.hi THEN -1
        ELSE IF pos < 0 /\ bit = 0 /\ Len(args) < 2 THEN (r.hi + 1) * ByteBits ELSE pos

-----------------------------------------------------------------------------
ApplyBitOp(op, x, y) == CASE op = "AND" -> x & y [] op = "OR" -> x | y [] op = "XOR" -> x ^^ y

\* Shorter operands are padded with zeros.
bitopCompute(op, srcs) ==
    LET maxLen == Max({Len(srcs[k]) : k \in DOMAIN srcs})
        at(k, i) == grown(srcs[k], maxLen)[i]
    IN  IF op = "NOT"
          THEN [i \in DOMAIN srcs[1] |-> 2 ^ ByteBits - 1 - srcs[1][i]]
          ELSE [i \in 1 .. maxLen |->
                  FoldLeft(LAMBDA acc, b : ApplyBitOp(op, acc, b), at(1, i),
                           [k \in 1 .. Len(srcs) - 1 |-> at(k + 1, i)])]

-----------------------------------------------------------------------------
(***************************************************************************)
(* BITFIELD.  An op is a record of its kind, the type (signed, nbits), the *)
(* offset, and for a write its argument and the OVERFLOW mode in force.    *)
(***************************************************************************)
bfDecode(v, nbits, signed) == IF signed /\ v >= 2 ^ (nbits - 1) THEN v - 2 ^ nbits ELSE v
bfEncode(v, nbits) == v % 2 ^ nbits

bfGet(val, offset, nbits, signed) ==
    bfDecode(MapThenSumSet(LAMBDA i : getBit(val, offset + i) * 2 ^ (nbits - 1 - i), 0 .. nbits - 1),
             nbits, signed)

\* A loop that runs one bit too far.
bfSet_Overruns(val, offset, nbits, v) ==
    FoldLeft(LAMBDA s, i : putBit(s, offset + nbits + 1 - i, ((2 * v) \div 2 ^ (i - 1)) % 2),
             grown(val, needBytes(offset + nbits + 1)), [i \in 1 .. nbits + 1 |-> i])

bfSet(val, offset, nbits, v) ==
    FoldLeft(LAMBDA s, i : putBit(s, offset + nbits - i, (v \div 2 ^ (i - 1)) % 2),
             grown(val, needBytes(offset + nbits)), [i \in 1 .. nbits |-> i])

bfMin(signed, nbits) == IF signed THEN -(2 ^ (nbits - 1)) ELSE 0
bfMax(signed, nbits) == IF signed THEN 2 ^ (nbits - 1) - 1 ELSE 2 ^ nbits - 1

\* Saturation that forgets the sign.
bfClampToWidth_Unsigned(mode, signed, nbits, want) ==
    LET fits == want \in bfMin(signed, nbits) .. bfMax(signed, nbits)
    IN  [ok |-> mode # "FAIL" \/ fits,
         stored |-> IF mode = "SAT" /\ want > bfMax(FALSE, nbits) THEN bfEncode(bfMax(FALSE, nbits), nbits)
                    ELSE IF mode = "SAT" /\ want < bfMin(signed, nbits) THEN bfEncode(bfMin(signed, nbits), nbits)
                    ELSE bfEncode(want, nbits)]

bfClampToWidth(mode, signed, nbits, want) ==
    LET fits == want \in bfMin(signed, nbits) .. bfMax(signed, nbits)
    IN  [ok |-> mode # "FAIL" \/ fits,
         stored |-> IF mode = "SAT" /\ want > bfMax(signed, nbits) THEN bfEncode(bfMax(signed, nbits), nbits)
                    ELSE IF mode = "SAT" /\ want < bfMin(signed, nbits) THEN bfEncode(bfMin(signed, nbits), nbits)
                    ELSE bfEncode(want, nbits)]

\* A reply element: an integer, or the nil reply.
Nil == <<>>
Value(v) == <<v>>

\* One op on the string so far: SET replies the old value, INCRBY the new one, and
\* an overflow under FAIL the nil reply.
applyOp(st, op) ==
    LET old == bfGet(st.val, op.offset, op.nbits, op.signed)
        want == IF op.kind = "SET" THEN op.arg ELSE old + op.arg
        w == bfClampToWidth(op.overflow, op.signed, op.nbits, want)
        reply == IF op.kind = "SET" THEN old ELSE bfDecode(w.stored, op.nbits, op.signed)
    IN  IF op.kind = "GET" THEN [st EXCEPT !.replies = Append(@, Value(old))]
        ELSE IF ~w.ok THEN [st EXCEPT !.replies = Append(@, Nil)]
        ELSE [val |-> bfSet(st.val, op.offset, op.nbits, w.stored), replies |-> Append(st.replies, Value(reply))]

\* A string is grown for all its writes before the first, those that fail included.
handleBitField(base, ops) ==
    LET writes == {i \in DOMAIN ops : ops[i].kind # "GET"}
        maxBytes == Max({0} \cup {needBytes(ops[i].offset + ops[i].nbits) : i \in writes})
    IN  FoldLeft(applyOp, [val |-> grown(base, maxBytes), replies |-> <<>>], ops)

-----------------------------------------------------------------------------
(***************************************************************************)
(* The dense HyperLogLog: registers of HllBits bits, packed from the low   *)
(* end of each byte, so that some straddle two bytes.                      *)
(***************************************************************************)
hllRegisterMax == 2 ^ HllBits - 1
newDenseHLL == [i \in 1 .. (HllRegisters * HllBits) \div ByteBits |-> 0]
lowByte(x) == x % 2 ^ ByteBits

denseGetRegister(regs, regnum) ==
    LET b == (regnum * HllBits) \div ByteBits
        fb == (regnum * HllBits) % ByteBits
        b0 == regs[b + 1]
        b1 == IF b + 1 < Len(regs) THEN regs[b + 2] ELSE 0
    IN  ((b0 \div 2 ^ fb) | (b1 * 2 ^ (ByteBits - fb))) & hllRegisterMax

\* Clears a byte where mask has ones, and sets what v has.
Overlay(byte, mask, v) == (byte & (2 ^ ByteBits - 1 - mask)) | v

\* The part of a register that lies in the next byte is not cleared first.
denseSetRegister_TailKept(regs, regnum, v) ==
    LET b == (regnum * HllBits) \div ByteBits
        fb == (regnum * HllBits) % ByteBits
        head == [regs EXCEPT ![b + 1] = Overlay(@, lowByte(hllRegisterMax * 2 ^ fb), lowByte(v * 2 ^ fb))]
    IN  IF b + 1 < Len(regs)
          THEN [head EXCEPT ![b + 2] = Overlay(@, 0, v \div 2 ^ (ByteBits - fb))]
          ELSE head

denseSetRegister(regs, regnum, v) ==
    LET b == (regnum * HllBits) \div ByteBits
        fb == (regnum * HllBits) % ByteBits
        head == [regs EXCEPT ![b + 1] = Overlay(@, lowByte(hllRegisterMax * 2 ^ fb), lowByte(v * 2 ^ fb))]
    IN  IF b + 1 < Len(regs)
          THEN [head EXCEPT ![b + 2] = Overlay(@, hllRegisterMax \div 2 ^ (ByteBits - fb), v \div 2 ^ (ByteBits - fb))]
          ELSE head

\* An element is its hash: the low bits choose the register, the length of the run
\* of zeros above them is the value.
hllIndex(hash) == hash % 2 ^ HllP
hllPatLen(hash) ==
    LET rest == (hash \div 2 ^ HllP) | 2 ^ HllQ
    IN  1 + Min({i \in 0 .. HllQ : (rest \div 2 ^ i) % 2 = 1})

hllAdd(regs, hash) ==
    IF hllPatLen(hash) > denseGetRegister(regs, hllIndex(hash))
      THEN denseSetRegister(regs, hllIndex(hash), hllPatLen(hash))
      ELSE regs

hllMergeInto(dst, src) ==
    LET into(regs, i) == IF denseGetRegister(src, i) > denseGetRegister(regs, i)
                           THEN denseSetRegister(regs, i, denseGetRegister(src, i)) ELSE regs
    IN  FoldLeft(into, dst, [i \in 1 .. HllRegisters |-> i - 1])

\* PFADD of some elements, and PFMERGE of some sources into the destination.
handlePFAdd(base, hashes) ==
    LET blob == IF base = <<>> THEN newDenseHLL ELSE base
        next == FoldLeft(hllAdd, blob, hashes)
    IN  [val |-> next, changed |-> base = <<>> \/ next # blob]
handlePFMerge(base, srcs) ==
    FoldLeft(hllMergeInto, IF base = <<>> THEN newDenseHLL ELSE base, srcs)
=============================================================================
