---------------------------- MODULE ZSetCommands -----------------------------
(***************************************************************************)
(* The Sorted Set commands that write one key: ZADD with and without its   *)
(* flags, ZINCRBY, ZREM, ZREMRANGEBY*, and the destination side of         *)
(* ZUNIONSTORE and ZINTERSTORE.  Scores are left out: which members there  *)
(* are does not depend on them, but for the ranges, which may be any.      *)
(***************************************************************************)
EXTENDS Items

CONSTANT TZSet   \* meta.TypeZSet

ASSUME ZSetAssumption == TZSet \in Types

Scored == 0

\* zaddFastPath, without flags: the count moves by what ZAdd says was new.
ZAddStart(c) ==
    \E ms \in (SUBSET Members) \ {{}} :
        Begin(c, [Idle EXCEPT !.op = "zadd", !.pc = "ensure", !.args = ms, !.val = Scored])
ZAdd(c) == cl[c].op = "zadd" /\ AddMembers(c, TZSet, TRUE)

\* zaddFlagPath: NX, XX or CH.
Flags == {"zadd nx", "zadd xx", "zadd ch"}
ZAddFlagStart(c, op) ==
    \E ms \in (SUBSET Members) \ {{}} :
        Begin(c, [Idle EXCEPT !.op = op, !.pc = "load", !.args = ms, !.val = Scored])

\* zsetState ahead of the gates: only a live key of another type ends the command.
WrongTypeOnly(c) ==
    /\ At(c, "load")
    /\ IF Live(item, now) /\ item.t # TZSet
         THEN Return(c)
         ELSE cl' = [cl EXCEPT ![c].pc = "look", ![c].lst = cl[c].args]
    /\ LocalStep

\* One ZScore: the pair is dropped if the flag gates it out, and the member counted
\* as added if the read did not find it.  With no pair left the command is done.
Gated(op, there) ==
    \/ op \in {"zadd nx", "zincr nx"} /\ there
    \/ op \in {"zadd xx", "zincr xx"} /\ ~there
Look(c) ==
    /\ At(c, "look")
    /\ \E m \in cl[c].lst :
         LET there == item.data[m] # Gone
             gated == Gated(cl[c].op, there)
             kept == IF gated THEN cl[c].args \ {m} ELSE cl[c].args
             rest == cl[c].lst \ {m}
         IN  IF rest = {} /\ kept = {}
               THEN Return(c)
               ELSE cl' = [cl EXCEPT ![c].args = kept, ![c].lst = rest,
                                     ![c].n = IF gated \/ there THEN @ ELSE @ + 1,
                                     ![c].pc = IF rest = {} THEN "ensure" ELSE "look"]
    /\ LocalStep

ZAddFlag(c) ==
    /\ cl[c].op \in Flags
    /\ \/ AddMembers(c, TZSet, FALSE)
       \/ (WrongTypeOnly(c) \/ Look(c)) /\ Untold

-----------------------------------------------------------------------------
\* handleZIncrBy, and zaddIncr with NX or XX, which checks the type and looks at the
\* member before it ensures the type.
ZIncrOps == {"zincr", "zincr nx", "zincr xx"}
ZIncrStart(c, op) ==
    \E m \in Members :
        Begin(c, [Idle EXCEPT !.op = op, !.pc = IF op = "zincr" THEN "ensure" ELSE "load",
                              !.args = {m}, !.val = Scored])

\* Store.ZIncrBy, first call: ZSCORE says whether the member is new.
ZIncrRead(c) ==
    /\ At(c, "isnew")
    /\ \E m \in cl[c].args :
         cl' = [cl EXCEPT ![c].pc = "write", ![c].n = IF item.data[m] = Gone THEN 1 ELSE 0]
    /\ LocalStep

\* Store.ZIncrBy, second call: a native ADD, which creates a missing member.  It
\* writes as ZAdd does, and nobody looks at whether it created one.
ZIncr(c) ==
    /\ cl[c].op \in ZIncrOps
    /\ \/ WriteMember(c, FALSE)
       \/ /\ \/ WrongTypeOnly(c) \/ Look(c)
             \/ EnsureTypeExpiringStep(c, TZSet, "isnew")
             \/ DeleteMembersSteps(c) \/ ZIncrRead(c)
             \/ AdjustCountSteps(c, TZSet)
          /\ Untold

-----------------------------------------------------------------------------
\* handleZRem, and the ZREMRANGE commands, which list the members first and delete
\* those in range.
ZRemStart(c) ==
    \E ms \in (SUBSET Members) \ {{}} :
        Begin(c, [Idle EXCEPT !.op = "zrem", !.pc = "load", !.args = ms])
ZRem(c) == cl[c].op = "zrem" /\ TakeMembers(c, TZSet)

ZRemRangeStart(c) == Begin(c, [Idle EXCEPT !.op = "zremrange", !.pc = "load"])
ZRemRange(c) == cl[c].op = "zremrange" /\ PickMembers(c, TZSet)

\* handleZStore: as the Set commands' STORE.
ZStoreStart(c) ==
    \E ms \in SUBSET Members :
        Begin(c, [Idle EXCEPT !.op = "zstore", !.pc = "delmeta", !.args = ms, !.val = Scored])
ZStore(c) == cl[c].op = "zstore" /\ StoreMembers(c, TZSet)

-----------------------------------------------------------------------------
ZSetCommandStart(c, enabled) ==
    \/ "zadd" \in enabled /\ ZAddStart(c)
    \/ \E op \in enabled \cap Flags : ZAddFlagStart(c, op)
    \/ \E op \in enabled \cap ZIncrOps : ZIncrStart(c, op)
    \/ "zrem" \in enabled /\ ZRemStart(c)
    \/ "zremrange" \in enabled /\ ZRemRangeStart(c)
    \/ "zstore" \in enabled /\ ZStoreStart(c)

ZSetCommand(c) == \/ ZAdd(c) \/ ZAddFlag(c) \/ ZIncr(c)
                  \/ ZRem(c) \/ ZRemRange(c) \/ ZStore(c)
=============================================================================
