-------------------------------- MODULE Pure ---------------------------------
(***************************************************************************)
(* The algorithms of the commands that need no store call between their    *)
(* steps: index arithmetic, sorted-set queries, bit strings, HyperLogLog   *)
(* registers, geohash cells, glob patterns, expiry times.  A call is one   *)
(* input of one of them; the run goes through them all, and each property  *)
(* compares what the code computes with what the command means (RangesMean *)
(* and LimitsKept are in Calls).                                           *)
(***************************************************************************)
EXTENDS Sorted, Bits, Cells, Glob, Calls

CONSTANTS MaxLen,       \* bound: bytes of a string, elements of a list
          MaxBound,     \* bound: the magnitude of an index
          ByteSamples,  \* bytes strings are made of
          Arguments,    \* bound: BITFIELD arguments go from -Arguments to Arguments
          HashSamples,  \* hashes elements have
          MaxTokens,    \* bound: parts of a pattern; twice as many without classes
          Letters       \* bytes of the strings patterns are matched with

ASSUME PureAssumption ==
    /\ MaxLen \in Nat /\ MaxBound \in Nat /\ Arguments \in Nat /\ MaxTokens \in Nat
    /\ ByteSamples \subseteq Bytes
    /\ HashSamples \subseteq 0 .. 2 ^ (HllP + HllQ) - 1
    /\ Letters \subseteq 0 .. 255

NoCall == [fn |-> "none"]
Init == call = NoCall
Asks(inputs) == call = NoCall /\ call' \in inputs
Answered == call # NoCall /\ call' = NoCall

-----------------------------------------------------------------------------
Indices3 == -MaxBound .. MaxBound
Strings == BoundedSeq(ByteSamples, MaxLen)

\* Index pairs against a length.
AskRange == Asks([fn : {"range"}, n : 0 .. MaxLen + 1, i : Indices3, j : Indices3])

\* Sorted sets of up to three members; a score bound may lie beside the scores.
ScoredMembers == UNION {[ms -> 1 .. 2] : ms \in SUBSET (1 .. 3)}
Windows == {<<0, -1>>, <<0, 1>>, <<1, 1>>, <<1, 5>>, <<-1, 2>>}
AskRank == Asks([fn : {"rank"}, z : ScoredMembers, i : Indices3, j : Indices3])
AskScores ==
    Asks([fn : {"scores"}, z : ScoredMembers, min : [value : 0 .. 3, exclusive : BOOLEAN],
          max : [value : 0 .. 3, exclusive : BOOLEAN], window : Windows])
LexBounds == [marker : {"-", "+"}, value : {0}] \cup [marker : {"[", "("}, value : 1 .. 3]
AskLex ==
    Asks([fn : {"lex"}, z : {s \in ScoredMembers : \A m \in DOMAIN s : s[m] = 1},
          min : LexBounds, max : LexBounds, window : Windows])

\* Operands of a store; weights as a client may give them.
Operands == UNION {[ms -> {-1, 0, 2}] : ms \in SUBSET (1 .. 2)}
AskStore ==
    Asks([fn : {"zstore"}, operands : [1 .. 2 -> Operands] \cup [1 .. 1 -> Operands],
          weights : [1 .. 2 -> {-2, 0, 1, Inf}], agg : {"SUM", "MIN", "MAX"}])

\* Members at some distance, members 1 to 3 in the order of their cells.
AskNear ==
    Asks([fn : {"near"}, dist : UNION {[1 .. k -> 1 .. 3] : k \in 0 .. 3}, radius : 1 .. 3,
          order : {"none", "asc", "desc"}, count : 0 .. 3])

\* Bits of a string.
AskBits == Asks([fn : {"bits"}, val : Strings, bit : {0, 1}, offset : 0 .. (MaxLen + 1) * ByteBits,
                 args : BoundedSeq(Indices3, 2)])
AskBitOp == Asks([fn : {"bitop"}, x : Strings, y : Strings, op : {"AND", "OR", "XOR", "NOT"}])

\* A write to a field and a read of another, or of the same.
Kinds == [kind : {"SET", "INCRBY"}, signed : BOOLEAN, nbits : 1 .. ByteBits + 1,
          offset : 0 .. ByteBits + 1, arg : -Arguments .. Arguments, overflow : {"WRAP", "SAT", "FAIL"}]
AskField == Asks([fn : {"field"}, val : Strings, op : Kinds])

\* HyperLogLogs of a few elements each.
Elements3 == {s \in BoundedSeq(HashSamples, 2) : Len(s) > 0}
AskLogs == Asks([fn : {"hll"}, x : Elements3, y : Elements3])
AskRegisters ==
    Asks([fn : {"registers"}, vs : [0 .. HllRegisters - 1 -> {0, 1, hllRegisterMax - 1, hllRegisterMax}],
          reg : 0 .. HllRegisters - 1, v : 0 .. hllRegisterMax])

AskCell == Asks([fn : {"cell"}, lat : Coordinates, lon : Coordinates])

-----------------------------------------------------------------------------
(***************************************************************************)
(* Patterns are built from parts and written as a client would write them: *)
(* a part is a literal, escaped or not, any byte, a star, or a class of    *)
(* bytes and ranges.                                                       *)
(***************************************************************************)
Special == {Star, Question, Open, Backslash, Close, Caret, Dash}
Literals == [part : {"literal"}, ch : Letters]
ClassItems == [lo : Letters, hi : Letters]
Classes == [part : {"class"}, negated : BOOLEAN, items : BoundedSeq(ClassItems, 2)]
Parts == Literals \cup Classes \cup {[part |-> "any"], [part |-> "star"]}

Escaped(ch) == IF ch \in Special THEN <<Backslash, ch>> ELSE <<ch>>
ItemText(it) == IF it.lo = it.hi THEN Escaped(it.lo) ELSE <<it.lo, Dash, it.hi>>
PartText(x) ==
    CASE x.part = "any" -> <<Question>>
      [] x.part = "star" -> <<Star>>
      [] x.part = "literal" -> Escaped(x.ch)
      [] x.part = "class" -> (IF x.negated THEN <<Open, Caret>> ELSE <<Open>>)
                             \o FlattenSeq([i \in DOMAIN x.items |-> ItemText(x.items[i])]) \o <<Close>>
Text(parts) == FlattenSeq([i \in DOMAIN parts |-> PartText(parts[i])])

\* A range whose first end is a special byte has to be written otherwise.
Writable(x) ==
    x.part = "class" => \A i \in DOMAIN x.items :
        x.items[i].lo = x.items[i].hi \/ {x.items[i].lo, x.items[i].hi} \cap Special = {}

Patterns == BoundedSeq({x \in Parts : Writable(x)}, MaxTokens)
            \cup BoundedSeq(Parts \ Classes, 2 * MaxTokens)
AskGlob == Asks([fn : {"glob"}, parts : Patterns, str : BoundedSeq(Letters, 3)])

\* The strings a part stands for; a pattern matches a string that can be cut into
\* pieces its parts stand for.
Stands(x, piece) ==
    CASE x.part = "star" -> TRUE
      [] x.part = "any" -> Len(piece) = 1
      [] x.part = "literal" -> piece = <<x.ch>>
      [] x.part = "class" ->
           Len(piece) = 1 /\ x.negated # (\E i \in DOMAIN x.items :
              \/ piece[1] \in x.items[i].lo .. x.items[i].hi
              \/ piece[1] \in x.items[i].hi .. x.items[i].lo)
Means(parts, str) ==
    \E cut \in [0 .. Len(parts) -> 0 .. Len(str)] :
        /\ cut[0] = 0 /\ cut[Len(parts)] = Len(str)
        /\ \A k \in DOMAIN parts : cut[k - 1] <= cut[k] /\ Stands(parts[k], SubSeq(str, cut[k - 1] + 1, cut[k]))

-----------------------------------------------------------------------------
\* Times to live around whole seconds and around the largest that fits.
Seconds3 == {s * 1000 + d : s \in 0 .. MaxInt \div 1000, d \in {0, 1, 200, 999}}
TimesToLive == (Seconds3 \cup {-t : t \in Seconds3} \cup (0 .. 5) \cup (MaxInt - 5 .. MaxInt)
                \cup {-MaxInt - 1}) \cap Int64
AskExpiry == Asks([fn : {"expiry"}, now : Clock, n : TimesToLive])
AskSetRange ==
    Asks([fn : {"setrange"}, base : Strings, val : Strings \ {<<>>},
          offset : 0 .. MaxValue \cup MaxInt - 3 .. MaxInt])

Next == \/ AskRange \/ AskRank \/ AskScores \/ AskLex \/ AskStore \/ AskNear
        \/ AskBits \/ AskBitOp \/ AskField \/ AskLogs \/ AskRegisters
        \/ AskCell \/ AskGlob \/ AskExpiry \/ AskSetRange
        \/ Answered

Spec == Init /\ [][Next]_call

-----------------------------------------------------------------------------
(***************************************************************************)
(* Properties.  Each is about the calls of some commands.                  *)
(***************************************************************************)
\* ZRANGE, ZREVRANGE, ZRANK, ZREMRANGEBYRANK: a range shows every member at its rank,
\* in both directions, and the removal takes what the range shows.
RanksAgree ==
    Asked("rank") =>
      LET up == ZRangeByRank(call.z, call.i, call.j, FALSE)
          down == ZRangeByRank(call.z, call.i, call.j, TRUE)
          n == Cardinality(DOMAIN call.z)
          lo == ZNormalizeRankRange(n, call.i, call.j).lo
      IN  /\ \A q \in DOMAIN up : ZRank(call.z, up[q].member, FALSE) = lo + q - 1
          /\ \A q \in DOMAIN down : ZRank(call.z, down[q].member, TRUE) = lo + q - 1
          /\ down = Reverse(ZRangeByRank(call.z, -call.j - 1, -call.i - 1, FALSE))
          /\ DOMAIN ZRemRangeByRank(call.z, call.i, call.j) = DOMAIN call.z \ MembersOf(up)

\* The reply of a BYSCORE or BYLEX range whose members are chosen: the set's order,
\* or its reverse, and of that the window LIMIT asks for.
Window(ms) ==
    SelectSeq([q \in DOMAIN ms |-> [at |-> q - 1, x |-> ms[q]]],
              LAMBDA y : /\ call.window[1] >= 0 /\ y.at >= call.window[1]
                         /\ call.window[2] < 0 \/ y.at < call.window[1] + call.window[2])
Shown(ms) == LET w == Window(ms) IN [q \in DOMAIN w |-> w[q].x]
InOrder(chosen) == SelectSeq(zAscending(call.z), LAMBDA x : x.member \in chosen)

\* ZRANGEBYSCORE, ZREVRANGEBYSCORE, ZCOUNT, ZREMRANGEBYSCORE and the BYLEX commands:
\* all of a family choose the same members, the reverse forms with swapped bounds.
IntervalsAgree ==
    /\ Asked("scores") =>
         LET chosen == {m \in DOMAIN call.z : ZScoreInRange(call.z[m], call.min, call.max)}
         IN  /\ zRangeByScore(call.z, call.min, call.max, FALSE, call.window[1], call.window[2]) = Shown(InOrder(chosen))
             /\ zRangeByScore(call.z, call.max, call.min, TRUE, call.window[1], call.window[2]) = Shown(Reverse(InOrder(chosen)))
             /\ ZCount(call.z, call.min, call.max) = Cardinality(chosen)
             /\ DOMAIN ZRemRangeByScore(call.z, call.min, call.max) = DOMAIN call.z \ chosen
    /\ Asked("lex") =>
         LET from(m) == [b \in {"-", "[", "("} |-> b = "-" \/ call.min.value < m \/ (b = "[" /\ call.min.value = m)]
             upto(m) == [b \in {"+", "[", "("} |-> b = "+" \/ m < call.max.value \/ (b = "[" /\ call.max.value = m)]
             chosen == IF call.min.marker = "+" \/ call.max.marker = "-" THEN {}
                       ELSE {m \in DOMAIN call.z : from(m)[call.min.marker] /\ upto(m)[call.max.marker]}
         IN  /\ zRangeByLex(call.z, call.min, call.max, FALSE, call.window[1], call.window[2]) = Shown(InOrder(chosen))
             /\ zRangeByLex(call.z, call.max, call.min, TRUE, call.window[1], call.window[2]) = Shown(Reverse(InOrder(chosen)))
             /\ handleZLexCount(call.z, call.min, call.max) = Cardinality(chosen)
             /\ DOMAIN handleZRemRangeByLex(call.z, call.min, call.max) = DOMAIN call.z \ chosen

\* combineZStores: the intersection and the union are two loops; where a member is in
\* every operand they give it the same score, and under MIN and MAX whatever the order
\* of the operands.  checkScoreDomain: the command is refused exactly if one of the
\* scores it would store is infinite, which opposite infinities are not when added up,
\* nor an infinity that MIN or MAX passes over.
StoresAgree ==
    Asked("zstore") =>
      LET ws == SubSeq(call.weights, 1, Len(call.operands))
          union == combineZStores(call.operands, ws, call.agg, FALSE)
          inter == combineZStores(call.operands, ws, call.agg, TRUE)
          turned == combineZStores(Reverse(call.operands), Reverse(ws), call.agg, FALSE)
          has(m) == {k \in DOMAIN call.operands : m \in DOMAIN call.operands[k]}
          infinite(m, sign) == {k \in has(m) : ws[k] = Inf /\ call.operands[k][m] * sign > 0}
          refused(m) ==
            CASE call.agg = "SUM" -> (infinite(m, 1) = {}) # (infinite(m, -1) = {})
              [] call.agg = "MIN" -> infinite(m, -1) # {} \/ infinite(m, 1) = has(m)
              [] call.agg = "MAX" -> infinite(m, 1) # {} \/ infinite(m, -1) = has(m)
          members == UNION {DOMAIN call.operands[k] : k \in DOMAIN call.operands}
          common == {m \in members : has(m) = DOMAIN call.operands}
      IN  /\ DOMAIN union = members /\ DOMAIN inter = common
          /\ \A m \in common : inter[m] = union[m]
          /\ call.agg # "SUM" => turned = union
          /\ handleZStore(call.operands, ws, call.agg, FALSE).stored <=> \A m \in members : ~refused(m)
          /\ handleZStore(call.operands, ws, call.agg, TRUE).stored <=> \A m \in common : ~refused(m)

\* geoRadiusReply: with COUNT n and no order, or ASC, no member left out is nearer than
\* one that is shown; the members shown are as many as asked for, or all in the radius.
NearestShown ==
    Asked("near") =>
      LET z == [m \in DOMAIN call.dist |-> m]
          shown == geoRadiusReply(z, call.dist, call.radius, call.order, call.count)
          within == {m \in DOMAIN z : call.dist[m] <= call.radius}
          rest == within \ {shown[q] : q \in DOMAIN shown}
      IN  /\ \A q \in DOMAIN shown : shown[q] \in within
          /\ Cardinality(rest) = IF call.count = 0 THEN 0 ELSE Cardinality(within) - Min({call.count, Cardinality(within)})
          /\ \A q \in DOMAIN shown, m \in rest :
               IF call.order = "desc" THEN call.dist[shown[q]] >= call.dist[m] ELSE call.dist[shown[q]] <= call.dist[m]

\* BITCOUNT, BITPOS, SETBIT and BITOP against GETBIT: a count is the number of set bits
\* in the range; a position is that of the first bit asked for, which for a clear bit and
\* no end may be the first past the string; a set bit is set and nothing else changes.
\* BITCOUNT wants both ends or none.  Two negative ends out of order, which the clamp
\* would both move to the first byte, are left to RangesMean.
Ones(val, bytes) == {p \in 0 .. Len(val) * ByteBits - 1 : p \div ByteBits \in bytes /\ getBit(val, p) = 1}
BitsAgree ==
    /\ Asked("bits") =>
         LET n == Len(call.val)
             given(k, default) == IF Len(call.args) >= k THEN AtLeastZero(FromEnd(n, call.args[k])) ELSE default
             bytes == {k \in 0 .. n - 1 : given(1, 0) <= k /\ k <= given(2, n - 1)}
             area == {p \in 0 .. n * ByteBits - 1 : p \div ByteBits \in bytes}
             hits == {p \in area : getBit(call.val, p) = call.bit}
             set == handleSetBit(call.val, call.offset, call.bit).val
         IN  /\ handleBitPos(call.val, call.bit, call.args) =
                  IF hits # {} THEN Min(hits)
                  ELSE IF area # {} /\ call.bit = 0 /\ Len(call.args) < 2 THEN n * ByteBits ELSE -1
             /\ Len(call.args) # 1 /\ ~(Len(call.args) = 2 /\ call.args[1] < 0 /\ call.args[2] < call.args[1]) =>
                  handleBitCount(call.val, call.args) = Cardinality(Ones(call.val, bytes))
             /\ \A p \in 0 .. Len(set) * ByteBits - 1 :
                  getBit(set, p) = IF p = call.offset THEN call.bit ELSE getBit(call.val, p)
             /\ getBit(set, call.offset) = call.bit
    /\ Asked("bitop") =>
         LET out == bitopCompute(call.op, IF call.op = "NOT" THEN <<call.x>> ELSE <<call.x, call.y>>)
             x(p) == getBit(call.x, p)
             y(p) == getBit(call.y, p)
         IN  \A p \in 0 .. Len(out) * ByteBits - 1 :
               getBit(out, p) = CASE call.op = "AND" -> x(p) * y(p)
                                  [] call.op = "OR" -> Larger(x(p), y(p))
                                  [] call.op = "XOR" -> (x(p) + y(p)) % 2
                                  [] call.op = "NOT" -> 1 - x(p)

\* applyBitfield: a write that lands is what a GET of the same field reads next, in the
\* same command too; no other bit changes, whatever bytes the field straddles.
FieldsAgree ==
    Asked("field") =>
      LET op == call.op
          get == [op EXCEPT !.kind = "GET"]
          done == handleBitField(call.val, <<get, op, get>>)
          old == done.replies[1]
          new == done.replies[3]
          field == op.offset .. op.offset + op.nbits - 1
      IN  /\ old = Value(bfGet(call.val, op.offset, op.nbits, op.signed))
          /\ \A p \in 0 .. Len(done.val) * ByteBits - 1 :
               p \notin field => getBit(done.val, p) = getBit(call.val, p)
          /\ Len(done.val) = Larger(Len(call.val), needBytes(op.offset + op.nbits))
          /\ (done.replies[2] = Nil /\ new = old) \/ done.replies[2] = (IF op.kind = "SET" THEN old ELSE new)

\* bfClampToWidth: WRAP keeps the value modulo the width, SAT the nearest value of the
\* type, FAIL the value or nothing.
OverflowKept ==
    Asked("field") =>
      LET op == call.op
          done == handleBitField(call.val, <<[op EXCEPT !.kind = "GET"], op, [op EXCEPT !.kind = "GET"]>>)
          want == IF op.kind = "SET" THEN op.arg ELSE done.replies[1][1] + op.arg
          new == done.replies[3][1]
          type == bfMin(op.signed, op.nbits) .. bfMax(op.signed, op.nbits)
      IN  /\ new \in type
          /\ op.overflow = "WRAP" => (new - want) % 2 ^ op.nbits = 0
          /\ op.overflow = "SAT" => \A v \in type : (v <= want => v <= new) /\ (v >= want => v >= new)
          /\ op.overflow = "FAIL" => (done.replies[2] = Nil <=> want \notin type)

\* denseSetRegister, hllAdd, hllMergeInto: a register is written without touching its
\* neighbours in the same bytes; PFADD and PFMERGE only ever take maxima, so neither the
\* order of the elements nor the key they were added to matters, nor a second PFADD.
RegisterOf(regs) == [i \in 0 .. HllRegisters - 1 |-> denseGetRegister(regs, i)]
LogsAgree ==
    /\ Asked("registers") =>
         LET packed == FoldLeft(LAMBDA r, i : denseSetRegister(r, i, call.vs[i]), newDenseHLL,
                                [i \in 1 .. HllRegisters |-> i - 1])
         IN  /\ RegisterOf(packed) = call.vs
             /\ RegisterOf(denseSetRegister(packed, call.reg, call.v)) = [call.vs EXCEPT ![call.reg] = call.v]
    /\ Asked("hll") =>
         LET x == handlePFAdd(<<>>, call.x).val
             y == handlePFAdd(<<>>, call.y).val
             both == handlePFAdd(x, call.y)
         IN  /\ both.val = handlePFAdd(y, call.x).val
             /\ both.val = handlePFMerge(x, <<y>>) /\ both.val = handlePFMerge(<<>>, <<y, x>>)
             /\ ~handlePFAdd(both.val, call.x).changed
             /\ both.changed <=> \E i \in DOMAIN RegisterOf(x) : RegisterOf(y)[i] > RegisterOf(x)[i]

\* geohashEncode52 and geohashDecode52: a position comes back in the cell it was stored
\* in; only on the eastern edge, where the number has a bit too many for a float64, it
\* may come back one cell further south.
CellsAgree ==
    Asked("cell") =>
      LET back == geohashDecode52(geohashEncode52(call.lat, call.lon))
      IN  /\ back.lon = call.lon
          /\ back.lat = call.lat \/ (call.lon = 2 ^ StepBits /\ back.lat = call.lat - 1)

\* stringMatchLen: a pattern matches the strings its parts stand for, one after another.
PatternsMean == Asked("glob") => (stringMatchLen(Text(call.parts), call.str) <=> Means(call.parts, call.str))
=============================================================================
