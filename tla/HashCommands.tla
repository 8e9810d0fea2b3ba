---------------------------- MODULE HashCommands -----------------------------
(***************************************************************************)
(* The Hash commands that write one key: HSET and HMSET, HSETNX, HDEL,     *)
(* HINCRBY and HINCRBYFLOAT.  A field is an item with a value.             *)
(***************************************************************************)
EXTENDS Items

CONSTANT THash   \* meta.TypeHash

ASSUME HashAssumption == THash \in Types

\* handleHSet, handleHMSet: ensureHashWritable, Store.HSet, adjustCount by the
\* number of fields that were new.
HSetStart(c) ==
    \E fs \in (SUBSET Members) \ {{}}, v \in Vals :
        Begin(c, [Idle EXCEPT !.op = "hset", !.pc = "ensure", !.args = fs, !.val = v])
HSet(c) == cl[c].op = "hset" /\ AddMembers(c, THash, TRUE)

\* handleHSetNX: the write is conditional on the field's absence.
HSetNXStart(c) ==
    \E f \in Members, v \in Vals :
        Begin(c, [Idle EXCEPT !.op = "hsetnx", !.pc = "ensure", !.args = {f}, !.val = v])

\* The field is there already: nothing is written.
FieldThere(c) == At(c, "write") /\ \A f \in cl[c].args : item.data[f] # Gone
HSetNX(c) ==
    /\ cl[c].op = "hsetnx"
    /\ \/ FieldThere(c) /\ Return(c) /\ LocalStep /\ Untold
       \/ ~FieldThere(c) /\ AddMembers(c, THash, TRUE)

\* handleHDel: hashState, Store.HDel, adjustCount by minus the number removed.
HDelStart(c) ==
    \E fs \in (SUBSET Members) \ {{}} :
        Begin(c, [Idle EXCEPT !.op = "hdel", !.pc = "load", !.args = fs])
HDel(c) == cl[c].op = "hdel" /\ TakeMembers(c, THash)

\* handleHIncrBy, handleHIncrByFloat: ensureHashWritable, the compare-and-set loop
\* on the field, adjustCount when the winning attempt created it.
HIncrStart(c) ==
    \E f \in Members :
        Begin(c, [Idle EXCEPT !.op = "hincr", !.pc = "ensure", !.args = {f}])
HIncr(c) ==
    /\ cl[c].op = "hincr"
    /\ \/ \E f \in cl[c].args : CompareAndSet(c, "cas", "read", f)
       \/ /\ \/ EnsureTypeExpiringStep(c, THash, "read")
             \/ DeleteMembersSteps(c)
             \/ \E f \in cl[c].args : IncrRead(c, f)
             \/ AdjustCountSteps(c, THash)
          /\ Untold

-----------------------------------------------------------------------------
HashCommandStart(c, enabled) ==
    \/ "hset" \in enabled /\ HSetStart(c)
    \/ "hsetnx" \in enabled /\ HSetNXStart(c)
    \/ "hdel" \in enabled /\ HDelStart(c)
    \/ "hincr" \in enabled /\ HIncrStart(c)

HashCommand(c) == HSet(c) \/ HSetNX(c) \/ HDel(c) \/ HIncr(c)
=============================================================================
