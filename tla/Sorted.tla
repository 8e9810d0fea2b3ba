------------------------------- MODULE Sorted --------------------------------
(***************************************************************************)
(* How the sorted-set commands read: by rank, by score, by member, by      *)
(* distance, and how ZUNIONSTORE and ZINTERSTORE combine scores.  A sorted *)
(* set is a function from its members to their scores; members are numbers *)
(* in the order of their bytes.  Every query reads the whole set in the    *)
(* order of the score index and works on that sequence in process.         *)
(***************************************************************************)
EXTENDS Ranges, SequencesExt

\* SortZMembers: by score, equal scores by member.
Before(x, y) == x.score < y.score \/ (x.score = y.score /\ x.member < y.member)
zAscending(z) == SetToSortSeq({[member |-> m, score |-> z[m]] : m \in DOMAIN z}, Before)

Directed(ms, rev) == IF rev THEN Reverse(ms) ELSE ms
Slice(ms, r) == SubSeq(ms, r.lo + 1, r.hi + 1)
MembersOf(ms) == {ms[i].member : i \in DOMAIN ms}
WithoutMembers(z, ms) == [m \in DOMAIN z \ ms |-> z[m]]

-----------------------------------------------------------------------------
\* A slice taken before the reversal.
ZRangeByRank_SlicedFirst(z, start, stop, rev) ==
    Directed(Slice(zAscending(z), ZNormalizeRankRange(Cardinality(DOMAIN z), start, stop)), rev)

\* ZRANGE and ZREVRANGE: ranks count from the end the reply starts at.
ZRangeByRank(z, start, stop, rev) ==
    Slice(Directed(zAscending(z), rev), ZNormalizeRankRange(Cardinality(DOMAIN z), start, stop))

\* ZRANK and ZREVRANK: the fork counts what is before the member.
ZRank(z, m, rev) ==
    LET x == [member |-> m, score |-> z[m]]
        y(n) == [member |-> n, score |-> z[n]]
    IN  Cardinality({n \in DOMAIN z : IF rev THEN Before(x, y(n)) ELSE Before(y(n), x)})

ZRemRangeByRank(z, start, stop) ==
    WithoutMembers(z, MembersOf(ZRangeByRank(z, start, stop, FALSE)))

-----------------------------------------------------------------------------
ScoreBound(value, exclusive) == [value |-> value, exclusive |-> exclusive]

ZScoreInRange(score, min, max) ==
    /\ IF min.exclusive THEN score > min.value ELSE score >= min.value
    /\ IF max.exclusive THEN score < max.value ELSE score <= max.value

InScoreRange(z, min, max) ==
    SelectSeq(zAscending(z), LAMBDA x : ZScoreInRange(x.score, min, max))

\* A LIMIT that counts from the low end of the reverse form too.
zRangeByScore_LimitFirst(z, first, second, rev, offset, count) ==
    LET ms == IF rev THEN InScoreRange(z, second, first) ELSE InScoreRange(z, first, second)
    IN  Directed(Slice(ms, applyZLimit(Len(ms), offset, count)), rev)

\* The reverse form takes its bounds as max, min.  LIMIT applies to the reply's order.
zRangeByScore(z, first, second, rev, offset, count) ==
    LET ms == Directed(IF rev THEN InScoreRange(z, second, first) ELSE InScoreRange(z, first, second), rev)
    IN  Slice(ms, applyZLimit(Len(ms), offset, count))

ZCount(z, min, max) ==
    Cardinality({m \in DOMAIN z : ZScoreInRange(z[m], min, max)})

ZRemRangeByScore(z, min, max) == WithoutMembers(z, MembersOf(InScoreRange(z, min, max)))

-----------------------------------------------------------------------------
\* A bound of the BYLEX commands: "-", "+", "[" or "(", the last two with a member.
LexBound(marker, value) == [marker |-> marker, value |-> value]

lexInRange(m, min, max) ==
    /\ min.marker # "+"
    /\ min.marker = "[" => m >= min.value
    /\ min.marker = "(" => m > min.value
    /\ max.marker # "-"
    /\ max.marker = "[" => m <= max.value
    /\ max.marker = "(" => m < max.value

InLexRange(z, min, max) ==
    SelectSeq(zAscending(z), LAMBDA x : lexInRange(x.member, min, max))

zRangeByLex(z, first, second, rev, offset, count) ==
    LET ms == Directed(IF rev THEN InLexRange(z, second, first) ELSE InLexRange(z, first, second), rev)
    IN  Slice(ms, applyZLimit(Len(ms), offset, count))

handleZLexCount(z, min, max) == Cardinality({m \in DOMAIN z : lexInRange(m, min, max)})

handleZRemRangeByLex(z, min, max) == WithoutMembers(z, MembersOf(InLexRange(z, min, max)))

-----------------------------------------------------------------------------
(***************************************************************************)
(* Scores with the infinities a WEIGHTS clause may bring in.  What IEEE    *)
(* arithmetic calls NaN the commands flush to 0.                           *)
(***************************************************************************)
Inf == 1000
Infinite(x) == x \in {Inf, -Inf}

PlusOrZero(x, y) ==
    IF Infinite(x) THEN (IF y = -x THEN 0 ELSE x) ELSE IF Infinite(y) THEN y ELSE x + y

weightScore(score, weight) ==
    IF Infinite(weight)
      THEN IF score = 0 THEN 0 ELSE IF score > 0 THEN weight ELSE -weight
      ELSE score * weight

aggregateScore(agg, acc, next) ==
    IF agg = "MIN" THEN IF next < acc THEN next ELSE acc
    ELSE IF agg = "MAX" THEN IF next > acc THEN next ELSE acc
    ELSE PlusOrZero(acc, next)

Indices(operands) == [i \in DOMAIN operands |-> i]

\* The union folds every operand into what has been accumulated so far.
Union(operands, weights, agg) ==
    LET into(acc, i) ==
          LET w == [m \in DOMAIN operands[i] |-> weightScore(operands[i][m], weights[i])]
          IN  [m \in DOMAIN acc \cup DOMAIN w |->
                 IF m \notin DOMAIN acc THEN w[m]
                 ELSE IF m \notin DOMAIN w THEN acc[m]
                 ELSE aggregateScore(agg, acc[m], w[m])]
    IN  FoldLeft(into, <<>>, Indices(operands))

\* An intersection whose first operand is not weighted.
Intersection_SeedUnweighted(operands, weights, agg) ==
    [m \in {n \in DOMAIN operands[1] : \A i \in DOMAIN operands : n \in DOMAIN operands[i]} |->
       FoldLeft(LAMBDA acc, i : aggregateScore(agg, acc, weightScore(operands[i][m], weights[i])),
                operands[1][m], Tail(Indices(operands)))]

\* The intersection goes through the members of the first operand.
Intersection(operands, weights, agg) ==
    [m \in {n \in DOMAIN operands[1] : \A i \in DOMAIN operands : n \in DOMAIN operands[i]} |->
       FoldLeft(LAMBDA acc, i : aggregateScore(agg, acc, weightScore(operands[i][m], weights[i])),
                weightScore(operands[1][m], weights[1]), Tail(Indices(operands)))]

combineZStores(operands, weights, agg, inter) ==
    IF inter THEN Intersection(operands, weights, agg) ELSE Union(operands, weights, agg)

\* A result score DynamoDB cannot hold refuses the whole command.
checkScoreDomain(score) == ~Infinite(score)
handleZStore(operands, weights, agg, inter) ==
    LET result == combineZStores(operands, weights, agg, inter)
    IN  [stored |-> \A m \in DOMAIN result : checkScoreDomain(result[m]), result |-> result]

-----------------------------------------------------------------------------
(***************************************************************************)
(* GEORADIUS: dist gives each member's distance from the centre.  order is *)
(* "asc", "desc" or "none", count 0 without COUNT.  The sort is stable.    *)
(***************************************************************************)
Nearer(dist, rank, order, m, n) ==
    IF dist[m] = dist[n] THEN rank[m] < rank[n]
    ELSE IF order = "desc" THEN dist[m] > dist[n] ELSE dist[m] < dist[n]

\* COUNT without an order keeps the first of the score index.
geoRadiusReply_Unsorted(z, dist, radius, order, count) ==
    LET rank == [m \in DOMAIN z |-> ZRank(z, m, FALSE)]
        within == {m \in DOMAIN z : dist[m] <= radius}
        all == IF order = "none"
                 THEN SetToSortSeq(within, LAMBDA m, n : rank[m] < rank[n])
                 ELSE SetToSortSeq(within, LAMBDA m, n : Nearer(dist, rank, order, m, n))
    IN  IF count > 0 /\ count < Len(all) THEN SubSeq(all, 1, count) ELSE all

\* COUNT without an order sorts by distance.
geoRadiusReply(z, dist, radius, order, count) ==
    LET rank == [m \in DOMAIN z |-> ZRank(z, m, FALSE)]
        within == {m \in DOMAIN z : dist[m] <= radius}
        all == IF order = "none" /\ count = 0
                 THEN SetToSortSeq(within, LAMBDA m, n : rank[m] < rank[n])
                 ELSE SetToSortSeq(within, LAMBDA m, n : Nearer(dist, rank, order, m, n))
    IN  IF count > 0 /\ count < Len(all) THEN SubSeq(all, 1, count) ELSE all
=============================================================================
