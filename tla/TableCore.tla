------------------------------ MODULE TableCore ------------------------------
(***************************************************************************)
(* Several keys, and connections that run list and multi-key commands on   *)
(* them through the embedded client (its deleter reclaims inline).  The    *)
(* clock stands still: exp is 0, or 1 for a key that has expired, or 2 for *)
(* one that still lives.                                                   *)
(*                                                                         *)
(* A command is a sequence of store calls that TableCommands gives it; a   *)
(* step [call, key, type] is one of them, and each action here executes    *)
(* the first call that is left.  A call that finds nothing to do, or is    *)
(* refused with WRONGTYPE, ends the command.                               *)
(***************************************************************************)
EXTENDS Redimo, Ranges

SE == INSTANCE SequencesExt

CONSTANTS Keys, Clients, TList, TSet, TStr,
          MaxOps,       \* bound: commands started, over all connections
          MaxFaults     \* bound: store calls that fail

ASSUME TableAssumption == MaxOps \in Nat /\ MaxFaults \in Nat
ASSUME TypesAssumption ==
    NoType \notin {TList, TSet, TStr} /\ TList # TSet /\ TList # TStr /\ TSet # TStr
ASSUME ClientsAssumption == IsFiniteSet(Clients)

Now == 1

VARIABLES db,       \* the table: [t, exp, cnt, data] for every key
          cl,       \* the command each connection runs
          ops,      \* commands started so far
          faults    \* store calls that failed so far

\* The data items of a key, by the type that reads them: a list's elements in
\* order, a set's members, a string's value.
NoData == [list |-> <<>>, set |-> {}, str |-> Gone]
Absent == [t |-> NoType, exp |-> 0, cnt |-> 0, data |-> NoData]

(***************************************************************************)
(* cmd is the command, steps the calls it has left; hand holds an element  *)
(* it took out of a list and has yet to put into another, n the change of  *)
(* the count it owes, cnt the count it loaded, all the list it read or     *)
(* will write, sets the operands it read, lst the items a Query listed.    *)
(***************************************************************************)
NoCmd == [op |-> "none", keys |-> <<>>, elem |-> 0, new |-> 0, lo |-> 0, hi |-> 0, big |-> FALSE]
Idle == [cmd |-> NoCmd, steps |-> <<>>, hand |-> <<>>, n |-> 0, cnt |-> 0,
         all |-> <<>>, sets |-> <<>>, lst |-> NoData]

Busy(c) == cl[c].steps # <<>>
Call(c) == Head(cl[c].steps)
Calls(c, call) == Busy(c) /\ Call(c).call = call
At(c) == db[Call(c).key]

S(call, key, type) == [call |-> call, key |-> key, type |-> type]
DeleteMembers(k) == <<S("query", k, NoType), S("delete", k, NoType)>>

\* The command goes on with more calls before those it has left; it goes on; it
\* ends.  rec holds what the call changed of the local state.
GoVia(c, rec, more) ==
    LET left == more \o Tail(cl[c].steps)
    IN  cl' = [cl EXCEPT ![c] = IF left = <<>> THEN Idle ELSE [rec EXCEPT !.steps = left]]
Go(c, rec) == GoVia(c, rec, <<>>)
GoOn(c) == Go(c, cl[c])
Done(c) == cl' = [cl EXCEPT ![c] = Idle]

Local == UNCHANGED <<db, ops, faults>>
Write(c, k) == db' = [db EXCEPT ![Call(c).key] = k] /\ UNCHANGED <<ops, faults>>

-----------------------------------------------------------------------------
(***************************************************************************)
(* The checks a command makes before it writes.                            *)
(***************************************************************************)

\* loadMetaState where an absent key ends the command too.
LiveStep(c) ==
    /\ Calls(c, "live")
    /\ IF Live(At(c), Now) /\ At(c).t = Call(c).type
         THEN Go(c, [cl[c] EXCEPT !.cnt = At(c).cnt]) ELSE Done(c)
    /\ Local

\* loadMetaState where only a live key of another type does.
TypeStep(c) ==
    /\ Calls(c, "type")
    /\ IF Live(At(c), Now) /\ At(c).t # Call(c).type THEN Done(c) ELSE GoOn(c)
    /\ Local

\* keyLive of MSETNX.
AbsentStep(c) ==
    /\ Calls(c, "absent")
    /\ IF Live(At(c), Now) THEN Done(c) ELSE GoOn(c)
    /\ Local

IsMemberStep(c) ==
    /\ Calls(c, "ismember")
    /\ IF cl[c].cmd.elem \in At(c).data.set THEN GoOn(c) ELSE Done(c)
    /\ Local

\* loadSetMembers of one operand.  An intersection reads no more operands once
\* one is empty.
OperandStep(c) ==
    /\ Calls(c, "operand")
    /\ LET live == Live(At(c), Now)
           members == IF live THEN At(c).data.set ELSE {}
           rec == [cl[c] EXCEPT !.sets = Append(@, members)]
           rest == SelectSeq(cl[c].steps, LAMBDA s : s.call # "operand")
       IN  IF live /\ At(c).t # TSet THEN Done(c)
           ELSE IF cl[c].cmd.op = "sinterstore" /\ members = {}
             THEN cl' = [cl EXCEPT ![c] = [rec EXCEPT !.steps = rest]]
             ELSE Go(c, rec)
    /\ Local

-----------------------------------------------------------------------------
(***************************************************************************)
(* The meta item.                                                          *)
(***************************************************************************)

\* ensureTypeExpiring: taking over an expired key reclaims its data items.
EnsureStep(c) ==
    /\ Calls(c, "ensure")
    /\ IF ~ExpiringAllows(At(c), Call(c).type, Now)
         THEN Done(c) /\ Local
         ELSE /\ GoVia(c, cl[c], IF TakesOver(At(c), Now) THEN DeleteMembers(Call(c).key) ELSE <<>>)
              /\ Write(c, EnsureTypeExpiring(At(c), Call(c).type, Now))

\* adjustCount: a removal that leaves none goes on to DeleteMetaIfEmpty.
CountStep(c) ==
    /\ Calls(c, "count")
    /\ LET after == EnsureType(At(c), Call(c).type, cl[c].n)
           emptied == cl[c].n < 0 /\ after.cnt <= 0
       IN  IF cl[c].n = 0 THEN GoOn(c) /\ Local
           ELSE IF ~TypeAllows(At(c), Call(c).type) THEN Done(c) /\ Local
           ELSE /\ GoVia(c, cl[c], IF emptied THEN <<S("drop", Call(c).key, NoType)>> ELSE <<>>)
                /\ Write(c, after)

\* The unconditional delete that DeleteMetaIfEmpty replaced.
DropStep_Unconditional(c) ==
    /\ Calls(c, "drop")
    /\ GoOn(c)
    /\ Write(c, DeleteMeta(At(c)))

DropStep(c) ==
    /\ Calls(c, "drop")
    /\ GoOn(c)
    /\ Write(c, DeleteMetaIfEmpty(At(c)))

\* MetaStore.DeleteMeta, and the inline reclaim if there was a meta item.
DeleteMetaStep(c) ==
    /\ Calls(c, "delmeta")
    /\ GoVia(c, cl[c], IF HasMeta(At(c)) THEN <<S("guard", Call(c).key, NoType)>> ELSE <<>>)
    /\ Write(c, DeleteMeta(At(c)))

\* Deleter.process: the recreate guard.
GuardStep(c) ==
    /\ Calls(c, "guard")
    /\ GoVia(c, cl[c], IF HasMeta(At(c)) THEN <<>> ELSE DeleteMembers(Call(c).key))
    /\ Local

\* overwriteAnyType: a key of another type, expired or not, is cleared.
OverwriteStep(c) ==
    /\ Calls(c, "overwrite")
    /\ GoVia(c, cl[c], IF TypeAllows(At(c), TStr) THEN <<>>
                       ELSE DeleteMembers(Call(c).key) \o <<S("delmeta", Call(c).key, NoType)>>)
    /\ Local

PersistStep(c) == Calls(c, "persist") /\ GoOn(c) /\ Write(c, Persist(At(c)))

-----------------------------------------------------------------------------
(***************************************************************************)
(* The data items.                                                         *)
(***************************************************************************)
WithList(k, s) == [k EXCEPT !.data.list = s]
WithSet(k, ms) == [k EXCEPT !.data.set = ms]

\* LPush and RPush of what the command carries, or of its argument.
PushStep(c) ==
    LET e == IF cl[c].hand = <<>> THEN <<cl[c].cmd.new>> ELSE cl[c].hand
        s == At(c).data.list
    IN  /\ \/ Calls(c, "lpush") /\ Write(c, WithList(At(c), e \o s))
           \/ Calls(c, "rpush") /\ Write(c, WithList(At(c), s \o e))
        /\ Go(c, [cl[c] EXCEPT !.hand = <<>>, !.n = 1])

\* LPop and RPop: the element is taken out, or there is none.
PopStep(c) ==
    LET s == At(c).data.list
        take(e, rest) == /\ Go(c, [cl[c] EXCEPT !.hand = <<e>>, !.n = -1])
                         /\ Write(c, WithList(At(c), rest))
    IN  /\ Calls(c, "lpop") \/ Calls(c, "rpop")
        /\ IF s = <<>> THEN Done(c) /\ Local
           ELSE IF Call(c).call = "lpop" THEN take(Head(s), Tail(s))
           ELSE take(SE!Last(s), SE!Front(s))

\* DeleteMembers: the Query, then the deletes of what it listed.
QueryStep(c) ==
    /\ Calls(c, "query")
    /\ Go(c, [cl[c] EXCEPT !.lst = At(c).data])
    /\ Local
Without(data, listed) ==
    [list |-> SelectSeq(data.list, LAMBDA e : ~SE!Contains(listed.list, e)),
     set |-> data.set \ listed.set,
     str |-> IF data.str = listed.str THEN Gone ELSE data.str]
DeleteStep(c) ==
    /\ Calls(c, "delete")
    /\ Go(c, [cl[c] EXCEPT !.lst = NoData])
    /\ Write(c, [At(c) EXCEPT !.data = Without(@, cl[c].lst)])

\* The RPush of LReplaceAll.
RefillStep(c) ==
    /\ Calls(c, "refill")
    /\ Go(c, [cl[c] EXCEPT !.all = <<>>])
    /\ Write(c, WithList(At(c), At(c).data.list \o cl[c].all))

SAddStep(c) ==
    /\ Calls(c, "sadd")
    /\ LET ms == SE!ToSet(cl[c].all)
       IN  /\ Go(c, [cl[c] EXCEPT !.n = Cardinality(ms \ At(c).data.set), !.all = <<>>])
           /\ Write(c, WithSet(At(c), At(c).data.set \cup ms))

SRemStep(c) ==
    /\ Calls(c, "srem")
    /\ LET m == cl[c].cmd.elem
       IN  /\ Go(c, [cl[c] EXCEPT !.n = IF m \in At(c).data.set THEN -1 ELSE 0, !.all = <<m>>])
           /\ Write(c, WithSet(At(c), At(c).data.set \ {m}))

SetStringStep(c) ==
    /\ Calls(c, "setstring")
    /\ GoOn(c)
    /\ Write(c, [At(c) EXCEPT !.data.str = cl[c].cmd.new])

\* A store call that fails ends its command with an error.
Fail(c) ==
    /\ Busy(c)
    /\ faults < MaxFaults
    /\ faults' = faults + 1
    /\ Done(c)
    /\ UNCHANGED <<db, ops>>
=============================================================================
