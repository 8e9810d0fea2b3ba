--------------------------- MODULE StringCommands ---------------------------
(***************************************************************************)
(* The String commands that write one key.  A string is a meta item of     *)
(* type TStr and one value item.                                           *)
(***************************************************************************)
EXTENDS Items

CONSTANT TStr   \* meta.TypeString

ASSUME StringAssumption == TStr \in Types

Value(k) == k.data[ValueSK]

-----------------------------------------------------------------------------
\* handleSet without NX, setWithExpiry and each key of handleMSet: XX first
\* checks keyLive; then overwriteAnyType, ensureTypeExpiring, SetString, and
\* SetExpire or Persist.
SetStart(c) ==
    \E xx \in BOOLEAN, v \in Vals, exp \in {0, now + 1} :
        Begin(c, [Idle EXCEPT !.op = "set", !.pc = IF xx THEN "xx" ELSE "overwrite",
                              !.val = v, !.exp = exp])

SetXX(c) ==
    /\ At(c, "xx")
    /\ IF Live(item, now) THEN Goto(c, "overwrite") ELSE Return(c)
    /\ LocalStep

\* overwriteAnyType: a key of another type, expired or not, loses its data and
\* then its meta item.
OverwriteAnyType(c) ==
    /\ At(c, "overwrite")
    /\ IF HasMeta(item) /\ item.t # TStr
         THEN cl' = [cl EXCEPT ![c].pc = "list", ![c].ret = "delmeta"]
         ELSE Goto(c, "ensure")
    /\ LocalStep

\* Store.SetString, unconditional.
PutValue(c, next) ==
    /\ At(c, "put")
    /\ item' = Put(item, ValueSK, cl[c].val)
    /\ landed' = [landed EXCEPT ![ValueSK] = cl[c].val]
    /\ IF next = "idle" THEN Return(c) ELSE Goto(c, next)
    /\ ClientStep /\ UNCHANGED ledger

SetCmd(c) ==
    /\ cl[c].op = "set"
    /\ \/ PutValue(c, IF cl[c].exp = 0 THEN "persist" ELSE "setexp")
       \/ /\ \/ SetXX(c) \/ OverwriteAnyType(c) \/ DeleteMembersSteps(c)
             \/ DeleteMetaStep(c, "ensure") \/ EnqueueStep(c)
             \/ EnsureTypeExpiringStep(c, TStr, "put")
             \/ SetExpireStep(c) \/ PersistStep(c)
          /\ Untold

\* handleSet with NX: claim the key, reclaim what an expired key left, write.
SetNXOptStart(c) ==
    \E v \in Vals, exp \in {0, now + 1} :
        Begin(c, [Idle EXCEPT !.op = "set nx", !.pc = "claim", !.val = v, !.exp = exp])

\* A claim that only a key of the same type refuses.
Claim_OwnTypeOnly(c, next, ret) ==
    /\ At(c, "claim")
    /\ IF Live(item, now) /\ item.t = TStr
         THEN Return(c) /\ UNCHANGED item
         ELSE /\ item' = Claimed(item, TStr)
              /\ cl' = [cl EXCEPT ![c].pc = next, ![c].ret = ret]
    /\ ClientStep

\* MetaStore.CreateTypeIfAbsent: a live key of any type refuses the claim.
Claim(c, next, ret) ==
    /\ At(c, "claim")
    /\ item' = CreateTypeIfAbsent(item, TStr, now)
    /\ IF Live(item, now)
         THEN Return(c)
         ELSE cl' = [cl EXCEPT ![c].pc = next, ![c].ret = ret]
    /\ ClientStep

SetNXOpt(c) ==
    /\ cl[c].op = "set nx"
    /\ \/ PutValue(c, IF cl[c].exp = 0 THEN "idle" ELSE "setexp")
       \/ /\ Claim(c, "list", "put") \/ DeleteMembersSteps(c) \/ SetExpireStep(c)
          /\ Untold

\* handleSetNX: claim the key and write.
SetNXStart(c) ==
    \E v \in Vals : Begin(c, [Idle EXCEPT !.op = "setnx", !.pc = "claim", !.val = v])

SetNX(c) ==
    /\ cl[c].op = "setnx"
    /\ PutValue(c, "idle") \/ (Claim(c, "put", "idle") /\ Untold)

\* handleGetSet: the write returns the old value; then the expiry is cleared.
GetSetStart(c) ==
    \E v \in Vals : Begin(c, [Idle EXCEPT !.op = "getset", !.pc = "ensure", !.val = v])

GetSetValue(c) ==
    /\ At(c, "getset")
    /\ item' = Put(item, ValueSK, cl[c].val)
    /\ landed' = [landed EXCEPT ![ValueSK] = cl[c].val]
    /\ cl' = [cl EXCEPT ![c] = [@ EXCEPT !.pc = "persist", !.seen = Value(item)]]
    /\ ClientStep /\ UNCHANGED ledger

GetSet(c) ==
    /\ cl[c].op = "getset"
    /\ \/ GetSetValue(c)
       \/ /\ \/ EnsureTypeExpiringStep(c, TStr, "getset")
             \/ DeleteMembersSteps(c) \/ PersistStep(c)
          /\ Untold

-----------------------------------------------------------------------------
\* incrBy: ensure the type, then Store.IncrBy.
IncrStart(c) == Begin(c, [Idle EXCEPT !.op = "incr", !.pc = "ensure"])

Incr(c) ==
    /\ cl[c].op = "incr"
    /\ \/ CompareAndSet(c, "cas", "read", ValueSK)
       \/ /\ \/ EnsureTypeExpiringStep(c, TStr, "read")
             \/ DeleteMembersSteps(c) \/ IncrRead(c, ValueSK)
          /\ Untold

\* rmwString (APPEND, SETRANGE): each attempt loads the meta item, reads the
\* value item, computes from the logical value, ensures the type and writes
\* back on the condition that the value item is the one it read.
AppendStart(c) == Begin(c, [Idle EXCEPT !.op = "append", !.pc = "load"])

\* readStringForRMW, first call: val = 0 stands for "build on the value item",
\* val = Gone for "build on the empty string".
AppendLoad(c) ==
    /\ At(c, "load")
    /\ IF Live(item, now) /\ item.t # TStr
         THEN Return(c)
         ELSE cl' = [cl EXCEPT ![c] = [@ EXCEPT !.pc = "get",
                                                !.val = IF Live(item, now) THEN 0 ELSE Gone]]
    /\ LocalStep

AppendGet(c) ==
    /\ At(c, "get")
    /\ LET base == IF cl[c].val = Gone THEN 0 ELSE Base(Value(item))
       IN  IF base + 1 \in Vals
             THEN cl' = [cl EXCEPT ![c] = [@ EXCEPT !.pc = "ensure", !.seen = Value(item),
                                                    !.val = base + 1]]
             ELSE Return(c)     \* the size guard of the compute function
    /\ LocalStep

AppendCmd(c) ==
    /\ cl[c].op = "append"
    /\ \/ CompareAndSet(c, "swap", "load", ValueSK)
       \/ /\ \/ AppendLoad(c) \/ AppendGet(c) \/ DeleteMembersSteps(c)
             \/ EnsureTypeExpiringStep(c, TStr, "swap")
          /\ Untold

-----------------------------------------------------------------------------
StringCommandStart(c, enabled) ==
    \/ "set" \in enabled /\ SetStart(c)
    \/ "set nx" \in enabled /\ SetNXOptStart(c)
    \/ "setnx" \in enabled /\ SetNXStart(c)
    \/ "getset" \in enabled /\ GetSetStart(c)
    \/ "incr" \in enabled /\ IncrStart(c)
    \/ "append" \in enabled /\ AppendStart(c)

StringCommand(c) == SetCmd(c) \/ SetNXOpt(c) \/ SetNX(c) \/ GetSet(c) \/ Incr(c) \/ AppendCmd(c)
=============================================================================
