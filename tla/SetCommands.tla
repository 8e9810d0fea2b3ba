----------------------------- MODULE SetCommands -----------------------------
(***************************************************************************)
(* The Set commands that write one key: SADD, SREM, SPOP and the           *)
(* destination side of SUNIONSTORE, SINTERSTORE and SDIFFSTORE.            *)
(***************************************************************************)
EXTENDS Items

CONSTANT TSet   \* meta.TypeSet

ASSUME SetAssumption == TSet \in Types

\* A set member is an item with no value of its own.
InSet == 0

\* handleSAdd: ensureSetWritable, Store.SAdd, adjustCount by the number added.
SAddStart(c) ==
    \E ms \in (SUBSET Members) \ {{}} :
        Begin(c, [Idle EXCEPT !.op = "sadd", !.pc = "ensure", !.args = ms, !.val = InSet])
SAdd(c) == cl[c].op = "sadd" /\ AddMembers(c, TSet, TRUE)

\* handleSRem: setState, Store.SRem, adjustCount by minus the number removed.
SRemStart(c) ==
    \E ms \in (SUBSET Members) \ {{}} :
        Begin(c, [Idle EXCEPT !.op = "srem", !.pc = "load", !.args = ms])
SRem(c) == cl[c].op = "srem" /\ TakeMembers(c, TSet)

\* handleSPop: Store.SPop lists the members, picks in process and deletes its
\* pick; what it returns, and what the count is lowered by, is what the delete
\* confirmed.
SPopStart(c) == Begin(c, [Idle EXCEPT !.op = "spop", !.pc = "load"])
SPop(c) == cl[c].op = "spop" /\ PickMembers(c, TSet)

\* handleSetAlgebraStore: the result was computed from the sources; replace the
\* destination by it.
SStoreStart(c) ==
    \E ms \in SUBSET Members :
        Begin(c, [Idle EXCEPT !.op = "sstore", !.pc = "delmeta", !.args = ms, !.val = InSet])
SStore(c) == cl[c].op = "sstore" /\ StoreMembers(c, TSet)

-----------------------------------------------------------------------------
SetCommandStart(c, enabled) ==
    \/ "sadd" \in enabled /\ SAddStart(c)
    \/ "srem" \in enabled /\ SRemStart(c)
    \/ "spop" \in enabled /\ SPopStart(c)
    \/ "sstore" \in enabled /\ SStoreStart(c)

SetCommand(c) == SAdd(c) \/ SRem(c) \/ SPop(c) \/ SStore(c)
=============================================================================
