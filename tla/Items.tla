-------------------------------- MODULE Items --------------------------------
(***************************************************************************)
(* The store calls that write or delete a data item, shared by the         *)
(* families: set members, hash fields and sorted-set members are the same  *)
(* kind of item, and so is the value of a string.                          *)
(*                                                                         *)
(* A value is abstracted to a number: INCR, HINCRBY and APPEND all make it *)
(* one larger; a set member, or a sorted-set member with whatever score,   *)
(* has the value 0.                                                        *)
(***************************************************************************)
EXTENDS KeyCore

CONSTANT MaxTries    \* storage.MaxRMWRetries

ASSUME ItemsAssumption == MaxTries \in Nat \ {0} /\ Vals \subseteq Nat /\ 0 \in Vals

\* Histories of what the store answered; nothing in the proxy.
VARIABLES ledger,   \* per member: writes that found it absent, less deletes that found it
          landed    \* per item: the value last written, plus the increments since

Base(v) == IF v = Gone THEN 0 ELSE v

\* A step that writes no data item: what was counted is gone when the item is.
KeepLanded == landed' = [sk \in SK |-> IF item'.data[sk] = Gone THEN 0 ELSE landed[sk]]
Untold == KeepLanded /\ UNCHANGED ledger

-----------------------------------------------------------------------------
\* The members of a command are independent items, one write each.  The store
\* tells which ones were new; the command adds them up (counted) or does not look.
WriteMember(c, counted) ==
    /\ At(c, "write")
    /\ \E m \in cl[c].args :
         LET new == item.data[m] = Gone
             rest == cl[c].args \ {m}
         IN  /\ item' = Put(item, m, cl[c].val)
             /\ cl' = [cl EXCEPT ![c].args = rest,
                                 ![c].n = IF new /\ counted THEN @ + 1 ELSE @,
                                 ![c].pc = IF rest = {} THEN "adjust" ELSE "write"]
             /\ ledger' = IF new THEN [ledger EXCEPT ![m] = @ + 1] ELSE ledger
             /\ landed' = [landed EXCEPT ![m] = cl[c].val]
    /\ ClientStep

\* A delete that is taken to have removed the member, whether it was there or not.
RemoveMember_Unconditional(c) ==
    /\ At(c, "remove")
    /\ \E m \in cl[c].args :
         LET rest == cl[c].args \ {m}
         IN  /\ item' = Remove(item, {m})
             /\ cl' = [cl EXCEPT ![c].args = rest, ![c].n = @ - 1,
                                 ![c].pc = IF rest = {} THEN "adjust" ELSE "remove"]
             /\ ledger' = [ledger EXCEPT ![m] = @ - 1]
             /\ KeepLanded
    /\ ClientStep

\* One delete: the member counts as removed only if it was there.
RemoveMember(c) ==
    /\ At(c, "remove")
    /\ \E m \in cl[c].args :
         LET there == item.data[m] # Gone
             rest == cl[c].args \ {m}
         IN  /\ item' = Remove(item, {m})
             /\ cl' = [cl EXCEPT ![c].args = rest,
                                 ![c].n = IF there THEN @ - 1 ELSE @,
                                 ![c].pc = IF rest = {} THEN "adjust" ELSE "remove"]
             /\ ledger' = IF there THEN [ledger EXCEPT ![m] = @ - 1] ELSE ledger
             /\ KeepLanded
    /\ ClientStep

\* The members a command deletes are listed first, and picked in process.
ChooseMembers(c) ==
    /\ At(c, "choose")
    /\ IF Present(item) \cap Members = {}
         THEN Return(c)
         ELSE \E pick \in (SUBSET (Present(item) \cap Members)) \ {{}} :
                cl' = [cl EXCEPT ![c].pc = "remove", ![c].args = pick]
    /\ LocalStep

-----------------------------------------------------------------------------
\* The write path of every collection: ensureTypeExpiring, the writes, adjustCount.
AddMembers(c, type, counted) ==
    \/ WriteMember(c, counted)
    \/ /\ \/ EnsureTypeExpiringStep(c, type, "write")
          \/ DeleteMembersSteps(c)
          \/ AdjustCountSteps(c, type)
       /\ Untold

\* The delete path: the type and liveness check, the deletes, adjustCount.
TakeMembers(c, type) ==
    \/ RemoveMember(c)
    \/ (LoadState(c, type, "remove") \/ AdjustCountSteps(c, type)) /\ Untold

\* The same for members the command finds in the collection.
PickMembers(c, type) ==
    \/ RemoveMember(c)
    \/ (LoadState(c, type, "choose") \/ ChooseMembers(c) \/ AdjustCountSteps(c, type)) /\ Untold

\* The STORE commands delete the destination, reclaim its members whatever the
\* deleter did with it, and fill it; an empty result leaves it deleted.
StoreReclaim(c) ==
    /\ At(c, "replace")
    /\ cl' = [cl EXCEPT ![c].pc = "list", ![c].ret = "result"]
    /\ LocalStep

StoreResult(c) ==
    /\ At(c, "result")
    /\ IF cl[c].args = {} THEN Return(c) ELSE Goto(c, "ensure")
    /\ LocalStep

StoreMembers(c, type) ==
    \/ AddMembers(c, type, TRUE)
    \/ (DeleteMetaStep(c, "replace") \/ EnqueueStep(c) \/ StoreReclaim(c) \/ StoreResult(c)) /\ Untold

-----------------------------------------------------------------------------
\* Store.IncrBy, HIncrBy: read the item, whatever the meta item says.
IncrRead(c, sk) ==
    /\ At(c, "read")
    /\ LET next == Base(item.data[sk]) + 1
       IN  IF next \in Vals
             THEN cl' = [cl EXCEPT ![c] = [@ EXCEPT !.pc = "cas", !.seen = item.data[sk], !.val = next]]
             ELSE Return(c)     \* the overflow check
    /\ LocalStep

\* A write back that does not compare.
CompareAndSet_Blind(c, label, reread, sk) ==
    /\ At(c, label)
    /\ item' = Put(item, sk, cl[c].val)
    /\ landed' = [landed EXCEPT ![sk] = @ + 1]
    /\ Return(c)
    /\ ClientStep /\ UNCHANGED ledger

\* SetStringIfEquals, SETCAS and HSETCAS under casRetry: the write lands only if
\* the item is what the command read, and a hash field it created is counted.  A
\* lost race goes back to reread, at most MaxRMWRetries times.
CompareAndSet(c, label, reread, sk) ==
    /\ At(c, label)
    /\ IF item.data[sk] = cl[c].seen
         THEN /\ item' = Put(item, sk, cl[c].val)
              /\ landed' = [landed EXCEPT ![sk] = @ + 1]
              /\ IF sk \in Members /\ cl[c].seen = Gone
                   THEN /\ cl' = [cl EXCEPT ![c].pc = "adjust", ![c].n = 1]
                        /\ ledger' = [ledger EXCEPT ![sk] = @ + 1]
                   ELSE Return(c) /\ UNCHANGED ledger
         ELSE /\ IF cl[c].tries + 1 < MaxTries
                   THEN cl' = [cl EXCEPT ![c].pc = reread, ![c].tries = @ + 1]
                   ELSE Return(c)
              /\ UNCHANGED <<item, ledger, landed>>
    /\ ClientStep
=============================================================================
