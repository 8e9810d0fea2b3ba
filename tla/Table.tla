-------------------------------- MODULE Table --------------------------------
(***************************************************************************)
(* List and multi-key commands on a table, in two settings.  Serial: one   *)
(* command at a time, on any contents of the keys; the table then is a     *)
(* RedisTable.  Otherwise connections overlap and store calls fail; then   *)
(* no element is in two places, and none is hidden once all is quiet.      *)
(*                                                                         *)
(* The elements of the lists and the members of the sets are numbers; an   *)
(* element that a command writes is a new one, so that each can be told    *)
(* from every other.  It may be over the size limit.                       *)
(***************************************************************************)
EXTENDS TableCommands

CONSTANTS MaxIndex, \* bound: indices in requests, from either end
          Elements  \* the elements requests look for

ASSUME ElementsAssumption == Elements \subseteq Nat

VARIABLES serial,   \* commands do not overlap
          out,      \* elements handed to a client by LPOP and RPOP
          shown,    \* the visible table when all connections were last idle
          last,     \* the command answered last
          kinds     \* the types of the commands that overlap, so far

vars == <<db, cl, ops, faults, serial, out, shown, last, kinds>>

-----------------------------------------------------------------------------
(***************************************************************************)
(* Requests, and the tables they meet.                                     *)
(***************************************************************************)
Request(op, keys, elem, lo, hi) ==
    [op |-> op, keys |-> keys, elem |-> elem, new |-> 0, lo |-> lo, hi |-> hi, big |-> FALSE]

Indices == -MaxIndex .. MaxIndex

OneKey == {Request(op, <<k>>, 0, 0, 0) : k \in Keys,
             op \in {"lpush", "rpush", "lpushx", "rpushx", "lpop", "rpop"}}
Edits ==
    {Request("lset", <<k>>, 0, i, 0) : k \in Keys, i \in Indices}
    \cup {Request("ltrim", <<k>>, 0, i, j) : k \in Keys, i \in Indices, j \in Indices}
    \cup {Request("lrem", <<k>>, e, i, 0) : k \in Keys, e \in Elements, i \in {-1, 0}}
    \cup {Request("linsert", <<k>>, e, i, 0) : k \in Keys, e \in Elements, i \in {0, 1}}
Moves ==
    {Request("rpoplpush", <<k, l>>, 0, 0, 0) : k \in Keys, l \in Keys}
    \cup {Request("smove", <<k, l>>, e, 0, 0) : k \in Keys, l \in Keys, e \in Elements}
\* Those requests whose value may be over the size limit, and is.
Valued == {"lpush", "rpush", "lpushx", "rpushx", "lset", "linsert"}
Oversized(requests) == {[r EXCEPT !.big = TRUE] : r \in {q \in requests : q.op \in Valued}}
Stores == {Request(op, <<k, a, b>>, 0, 0, 0) : k \in Keys, a \in Keys, b \in Keys,
             op \in {"sinterstore", "sunionstore", "sdiffstore"}}
Several ==
    {Request(op, <<k, l>>, 0, 0, 0) : k \in Keys, l \in Keys, op \in {"mset", "msetnx"}}
    \cup {Request("del", <<k, l>>, 0, 0, 0) : k \in Keys, l \in Keys}
\* The requests that overlap write and delete single data items; those that
\* rewrite or clear a whole key are not atomic by the code's own account.
Requests ==
    IF serial THEN OneKey \cup Edits \cup Oversized(OneKey \cup Edits) \cup Moves \cup Stores \cup Several
    ELSE OneKey \cup Oversized(OneKey) \cup Moves \cup {r \in Several : r.op = "msetnx"}

\* handleLPush and handleRPush claim the key before the guard looks at the value; where
\* it is not live, the refused push leaves a live empty list, as no Redis command does.
\* The serial setting leaves these requests out, and nothing else.
LeavesEmpty(cmd) ==
    cmd.big /\ cmd.op \in {"lpush", "rpush"} /\ ~Live(db[cmd.keys[1]], Now)

ListKey(s, exp) == [t |-> TList, exp |-> exp, cnt |-> Len(s), data |-> [NoData EXCEPT !.list = s]]
SetKey(ms, exp) == [t |-> TSet, exp |-> exp, cnt |-> Cardinality(ms), data |-> [NoData EXCEPT !.set = ms]]
StringKey(v) == [t |-> TStr, exp |-> 0, cnt |-> 0, data |-> [NoData EXCEPT !.str = v]]

\* Two keys that are absent or hold a list (expired, living or with no expiry), a
\* set or a string, and no others; overlapping commands meet lists and sets.
First == {Absent, ListKey(<<1, 2>>, 0), ListKey(<<1, 2>>, 1), SetKey({4, 5}, 0), StringKey(7)}
Second == {Absent, ListKey(<<3>>, 2), SetKey({5}, 0), SetKey({5, 6}, 1)}
Tables == {f \in [Keys -> First \cup Second] :
             \E k, l \in Keys :
               /\ k # l /\ f[k] \in First /\ f[l] \in Second
               /\ \A m \in Keys \ {k, l} : f[m] = Absent}

Init ==
    /\ serial \in BOOLEAN
    /\ db \in Tables
    /\ ~serial => \A k \in Keys : db[k].t # TStr /\ db[k].exp # 1
    /\ cl = [c \in Clients |-> Idle]
    /\ ops = 0 /\ faults = 0
    /\ out = {}
    /\ shown = [k \in Keys |-> IF Live(db[k], Now) THEN db[k] ELSE Absent]
    /\ last = NoCmd
    /\ kinds = {}

\* The type of the keys an overlapping command writes.
Kind(op) == CASE op = "smove" -> TSet [] op = "msetnx" -> TStr [] OTHER -> TList

AllIdle == \A c \in Clients : ~Busy(c)

Start(c) ==
    /\ IF serial THEN AllIdle ELSE ~Busy(c)
    /\ ops < MaxOps
    /\ ops' = ops + 1
    /\ \E request \in Requests :
         LET cmd == [request EXCEPT !.new = 10 + ops]
         IN  /\ serial => ~LeavesEmpty(cmd)
             /\ cl' = [cl EXCEPT ![c] = [Idle EXCEPT !.cmd = cmd, !.steps = Handler(cmd)]]
             /\ kinds' = IF serial THEN {} ELSE kinds \cup {Kind(cmd.op)}
    /\ UNCHANGED <<db, faults, serial, out, shown, last>>

\* LPOP and RPOP hand out what the pop returned.
HandsOut(c) == cl[c].cmd.op \in {"lpop", "rpop"} /\ Call(c).call = cl[c].cmd.op

Record(c) ==
    LET idle == \A d \in Clients : cl'[d].steps = <<>>
    IN  /\ shown' = IF serial /\ idle
                      THEN [k \in Keys |-> IF Live(db'[k], Now) THEN db'[k] ELSE Absent] ELSE shown
        /\ last' = IF serial /\ idle THEN cl[c].cmd ELSE last
        /\ out' = IF HandsOut(c) THEN out \cup SE!ToSet(cl'[c].hand) ELSE out
        /\ UNCHANGED <<serial, kinds>>

Step(c) == Continue(c) /\ Record(c)
Failure(c) == ~serial /\ Fail(c) /\ Record(c)

Next == \E c \in Clients : Start(c) \/ Step(c) \/ Failure(c)

Spec == Init /\ [][Next]_vars

-----------------------------------------------------------------------------
(***************************************************************************)
(* Properties.                                                             *)
(***************************************************************************)

\* Every key has a type, an expiry, a count and data items of its kinds; calls
\* that are left belong to a command in progress.
TypeOK ==
    /\ \A k \in Keys :
         /\ db[k].t \in {NoType, TList, TSet, TStr} /\ db[k].exp \in 0 .. 2 /\ db[k].cnt \in Int
         /\ db[k].data.list \in Seq(Nat) /\ db[k].data.set \subseteq Nat
         /\ db[k].data.str \in Nat \cup {Gone}
    /\ \A c \in Clients : ~Busy(c) => cl[c] = Idle
    /\ ops \in 0 .. MaxOps /\ faults \in 0 .. MaxFaults
    /\ serial \in BOOLEAN /\ out \subseteq Nat

\* RPop + LPush of RPOPLPUSH, LPOP and RPOP, LReplaceAll (lists2.go,
\* store_lists.go): an element is in one place at most: once in one list, or in the
\* hand of the RPOPLPUSH that moves it, or handed out by a pop.  A failing call may
\* lose one, never double it.
Occurrences(e) ==
    LET list(k) == db[k].data.list
        lists == {p \in Keys \X (1 .. 9) : p[2] \in DOMAIN list(p[1]) /\ list(p[1])[p[2]] = e}
        hands == {c \in Clients : Busy(c) /\ cl[c].cmd.op = "rpoplpush" /\ cl[c].hand = <<e>>}
    IN  Cardinality(lists) + Cardinality(hands) + (IF e \in out THEN 1 ELSE 0)
MovedOnce == \A e \in {1, 2, 3} \cup 10 .. 9 + MaxOps : Occurrences(e) <= 1

\* The data items of a key are those of its type, and its count covers them.
Visible(k) ==
    LET d == k.data
    IN  CASE k.t = NoType -> d = NoData
          [] k.t = TList -> d = [list |-> d.list, set |-> {}, str |-> Gone] /\ k.cnt >= Len(d.list)
          [] k.t = TSet -> d = [list |-> <<>>, set |-> d.set, str |-> Gone] /\ k.cnt >= Cardinality(d.set)
          [] k.t = TStr -> d = [list |-> <<>>, set |-> {}, str |-> d.str]

(***************************************************************************)
(* adjustCount, DeleteMetaIfEmpty (datacmd.go, lists.go): when no command  *)
(* is in progress and none failed, no data item is hidden: its key has a   *)
(* meta item of its type, with a count that covers it.  Overlapping pushes *)
(* and pops may leave a count that is too high, never one that is too low. *)
(* This is promised where all commands that overlap are of one type: what  *)
(* an LPUSH has yet to count does not keep an RPOP from emptying the       *)
(* count, and an MSETNX from claiming the key.                             *)
(***************************************************************************)
NothingHidden ==
    AllIdle /\ faults = 0 /\ (\A s, t \in kinds : s = t) => \A k \in Keys : Visible(db[k])

\* doc/redis-3.2-compatibility.md, single connection: the handlers of the list and
\* multi-key commands, whatever store calls they take and whatever an expired key
\* left behind, have the effect of the one Redis command on the whole table; one that
\* is refused for the size of its value has none (guard/size.go, "before any backend
\* write"), but for the pushes of LeavesEmpty.
Redis == INSTANCE RedisTable WITH table <- shown
ImplementsRedisTable == Redis!Spec
=============================================================================
