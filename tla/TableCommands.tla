---------------------------- MODULE TableCommands ----------------------------
(***************************************************************************)
(* The list commands and the commands on several keys, as the store calls  *)
(* their handlers make, in order.  Meta.Load calls that only shape a reply *)
(* (pushCommon's last one, the liveness DEL counts) are left out.  So is   *)
(* the size guard where it stands before every call, as MSET's and         *)
(* MSETNX's does, or looks at what is stored already (SMOVE, the STOREs).  *)
(***************************************************************************)
EXTENDS TableCore

\* LReplaceAll without the DeleteMembers that clears the list first.
LReplaceAll_NotCleared(k) == <<S("refill", k, TList)>>

LReplaceAll(k) == DeleteMembers(k) \o <<S("refill", k, TList)>>

\* guard.CheckWrite: a command with an oversized value ends after its first n calls.
Guarded(cmd, n, calls) == IF cmd.big THEN SubSeq(calls, 1, n) ELSE calls

Push(k, call) == <<S("ensure", k, TList), S(call, k, TList), S("count", k, TList)>>
PushX(k, call) == <<S("live", k, TList), S(call, k, TList), S("count", k, TList)>>
Pop(k, call) == <<S("live", k, TList), S(call, k, TList), S("count", k, TList)>>

\* LSET leaves the count alone.
LSet(k) == <<S("live", k, TList), S("readall", k, TList)>> \o LReplaceAll(k)
Edit(k) == LSet(k) \o <<S("count", k, TList)>>

\* The destination's type looked at only when it is pushed to.
RPopLPush_TypeUnchecked(k, l) ==
    IF k = l
      THEN <<S("live", k, TList), S("rpop", k, TList), S("lpush", k, TList)>>
      ELSE <<S("live", k, TList), S("rpop", k, TList), S("count", k, TList)>> \o Push(l, "lpush")

\* The destination's type is checked before the source is popped.
RPopLPush(k, l) ==
    IF k = l
      THEN <<S("live", k, TList), S("rpop", k, TList), S("lpush", k, TList)>>
      ELSE <<S("live", k, TList), S("type", l, TList), S("rpop", k, TList), S("count", k, TList)>>
           \o Push(l, "lpush")

SMove(k, l) ==
    IF k = l
      THEN <<S("live", k, TSet), S("ismember", k, TSet)>>
      ELSE <<S("live", k, TSet), S("type", l, TSet), S("ismember", k, TSet),
             S("srem", k, TSet), S("count", k, TSet),
             S("ensure", l, TSet), S("sadd", l, TSet), S("count", l, TSet)>>

\* The operands are read first, so that the destination may be one of them.
SStore(dest, a, b) ==
    <<S("operand", a, TSet), S("operand", b, TSet), S("delmeta", dest, NoType)>>
    \o DeleteMembers(dest)
    \o <<S("some", dest, TSet), S("ensure", dest, TSet), S("sadd", dest, TSet), S("count", dest, TSet)>>

\* MSET, MSETNX and DEL with two keys, possibly the same one.
WriteString(k) == <<S("ensure", k, TStr), S("setstring", k, TStr), S("persist", k, TStr)>>
MSetKey(k) == <<S("overwrite", k, TStr)>> \o WriteString(k)
MSet(k, l) == MSetKey(k) \o MSetKey(l)

\* Every key is checked before any is written.
AbsentKey(k) == <<S("absent", k, TStr)>>
MSetNX(k, l) == AbsentKey(k) \o AbsentKey(l) \o WriteString(k) \o WriteString(l)

DelKey(k) == <<S("delmeta", k, NoType)>>
Del(k, l) == DelKey(k) \o DelKey(l)

Handler(cmd) ==
    LET k == cmd.keys[1]
        l == cmd.keys[Len(cmd.keys)]
    IN  CASE cmd.op \in {"lpush", "rpush"} -> Guarded(cmd, 1, Push(k, cmd.op))
          [] cmd.op = "lpushx" -> Guarded(cmd, 1, PushX(k, "lpush"))
          [] cmd.op = "rpushx" -> Guarded(cmd, 1, PushX(k, "rpush"))
          [] cmd.op \in {"lpop", "rpop"} -> Pop(k, cmd.op)
          [] cmd.op = "lset" -> Guarded(cmd, 2, LSet(k))
          [] cmd.op = "linsert" -> Guarded(cmd, 2, Edit(k))
          [] cmd.op \in {"ltrim", "lrem"} -> Edit(k)
          [] cmd.op = "rpoplpush" -> RPopLPush(k, l)
          [] cmd.op = "smove" -> SMove(k, l)
          [] cmd.op \in {"sinterstore", "sunionstore", "sdiffstore"} -> SStore(k, cmd.keys[2], l)
          [] cmd.op = "mset" -> MSet(k, l)
          [] cmd.op = "msetnx" -> MSetNX(k, l)
          [] cmd.op = "del" -> Del(k, l)

-----------------------------------------------------------------------------
(***************************************************************************)
(* LSET, LTRIM, LREM and LINSERT: the whole list is read, edited in the    *)
(* proxy and written back by the calls that follow.                        *)
(***************************************************************************)
Rewrite(c, new, n) == Go(c, [cl[c] EXCEPT !.all = new, !.n = n]) /\ Local

LSetEdit(c, all) ==
    LET i == FromEnd(Len(all), cl[c].cmd.lo)
    IN  IF i < 0 \/ i >= Len(all) THEN Done(c) /\ Local
        ELSE Rewrite(c, [all EXCEPT ![i + 1] = cl[c].cmd.new], 0)

\* LTRIM's count: from what loadMetaState loaded to what is left.
LTrimEdit(c, all) ==
    LET r == ZNormalizeRankRange(Len(all), cl[c].cmd.lo, cl[c].cmd.hi)
        new == SubSeq(all, r.lo + 1, r.hi + 1)
    IN  Rewrite(c, new, Len(new) - cl[c].cnt)

LRemEdit(c, all) ==
    LET drop == lremCompute(all, cl[c].cmd.lo, cl[c].cmd.elem)
        new == SE!FoldLeftDomain(LAMBDA acc, i : IF i \in drop THEN acc ELSE Append(acc, all[i]), <<>>, all)
    IN  IF drop = {} THEN Done(c) /\ Local ELSE Rewrite(c, new, -Cardinality(drop))

\* cmd.lo says before (0) or after (1) the pivot.
LInsertEdit(c, all) ==
    LET pivot == SE!SelectInSeq(all, LAMBDA e : e = cl[c].cmd.elem)
    IN  IF pivot = 0 THEN Done(c) /\ Local
        ELSE Rewrite(c, SE!InsertAt(all, pivot + cl[c].cmd.lo, cl[c].cmd.new), 1)

LRangeAllStep(c) ==
    /\ Calls(c, "readall")
    /\ LET all == At(c).data.list
           op == cl[c].cmd.op
       IN  \/ op = "lset" /\ LSetEdit(c, all)
           \/ op = "ltrim" /\ LTrimEdit(c, all)
           \/ op = "lrem" /\ LRemEdit(c, all)
           \/ op = "linsert" /\ LInsertEdit(c, all)

\* computeSetAlgebra over what was read, and the empty result that leaves the
\* destination deleted.
Algebra(op, sets) ==
    CASE op = "sinterstore" -> IF Len(sets) = 1 THEN {} ELSE sets[1] \cap sets[2]
      [] op = "sunionstore" -> sets[1] \cup sets[2]
      [] op = "sdiffstore" -> sets[1] \ sets[2]
SomeStep(c) ==
    /\ Calls(c, "some")
    /\ LET result == Algebra(cl[c].cmd.op, cl[c].sets)
       IN  IF result = {} THEN Done(c) ELSE Go(c, [cl[c] EXCEPT !.all = SE!SetToSeq(result)])
    /\ Local

-----------------------------------------------------------------------------
Checks(c) == LiveStep(c) \/ TypeStep(c) \/ AbsentStep(c) \/ IsMemberStep(c) \/ OperandStep(c) \/ SomeStep(c)
MetaCalls(c) ==
    \/ EnsureStep(c) \/ CountStep(c) \/ DropStep(c)
    \/ DeleteMetaStep(c) \/ GuardStep(c) \/ OverwriteStep(c) \/ PersistStep(c)
DataCalls(c) ==
    \/ PushStep(c) \/ PopStep(c) \/ LRangeAllStep(c)
    \/ QueryStep(c) \/ DeleteStep(c) \/ RefillStep(c)
    \/ SAddStep(c) \/ SRemStep(c) \/ SetStringStep(c)
Continue(c) == Checks(c) \/ MetaCalls(c) \/ DataCalls(c)
=============================================================================
