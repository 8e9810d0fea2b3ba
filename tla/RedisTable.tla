----------------------------- MODULE RedisTable -----------------------------
(***************************************************************************)
(* What Redis promises of the list commands and of the commands that take  *)
(* several keys: each is one step on the whole table, a key whose last     *)
(* element is gone is not there, and a command that meets a key of another *)
(* type changes nothing (RPOPLPUSH and SMOVE of an absent source do not    *)
(* look at the destination).  A command whose value is over the size limit *)
(* changes nothing either (internal/guard/size.go).                        *)
(*                                                                         *)
(* A command is a record [op, keys, elem, new, lo, hi, big]: elem is an    *)
(* element it looks for or moves, new the one it writes, big whether that  *)
(* one is oversized, lo and hi its indices.                                *)
(***************************************************************************)
EXTENDS Integers, Sequences, FiniteSets

CONSTANTS Keys, NoType, Gone, TList, TSet, TStr

SE == INSTANCE SequencesExt

VARIABLES table,  \* the visible value of every key: [t, exp, cnt, data]
          last    \* the command answered last

NoData == [list |-> <<>>, set |-> {}, str |-> Gone]
NoKey == [t |-> NoType, exp |-> 0, cnt |-> 0, data |-> NoData]
ListOf(s, exp) ==
    IF s = <<>> THEN NoKey
    ELSE [t |-> TList, exp |-> exp, cnt |-> Len(s), data |-> [NoData EXCEPT !.list = s]]
SetOf(ms, exp) ==
    IF ms = {} THEN NoKey
    ELSE [t |-> TSet, exp |-> exp, cnt |-> Cardinality(ms), data |-> [NoData EXCEPT !.set = ms]]
StringOf(v) == [t |-> TStr, exp |-> 0, cnt |-> 0, data |-> [NoData EXCEPT !.str = v]]

Is(k, type) == table[k].t \in {NoType, type}
List(k) == table[k].data.list
Set(k) == table[k].data.set
PutList(tb, k, s) == [tb EXCEPT ![k] = ListOf(s, @.exp)]
PutSet(tb, k, ms) == [tb EXCEPT ![k] = SetOf(ms, @.exp)]

\* A negative index counts from the end; the indices of s from lo to hi.
Index(s, i) == IF i < 0 THEN i + Len(s) + 1 ELSE i + 1
Within(s, lo, hi) == {i \in DOMAIN s : Index(s, lo) <= i /\ i <= Index(s, hi)}
Keep(s, kept) == SE!FoldLeftDomain(LAMBDA acc, i : IF i \in kept THEN Append(acc, s[i]) ELSE acc, <<>>, s)

Edited(cmd, s) ==
    LET at == SE!SelectInSeq(s, LAMBDA e : e = cmd.elem)
    IN  CASE cmd.op = "lset" -> [i \in DOMAIN s |-> IF i = Index(s, cmd.lo) THEN cmd.new ELSE s[i]]
          [] cmd.op = "ltrim" -> Keep(s, Within(s, cmd.lo, cmd.hi))
          [] cmd.op = "lrem" -> Keep(s, DOMAIN s \ {at})
          [] cmd.op = "linsert" -> IF at = 0 THEN s ELSE SE!InsertAt(s, at + cmd.lo, cmd.new)
          [] cmd.op = "lpop" -> Tail(s)
          [] cmd.op = "rpop" -> SE!Front(s)
          [] cmd.op \in {"lpush", "lpushx"} -> <<cmd.new>> \o s
          [] cmd.op \in {"rpush", "rpushx"} -> Append(s, cmd.new)

\* RPOPLPUSH: from the tail of one list to the head of another, or the same.
Rotated(k, l) ==
    LET e == SE!Last(List(k))
        popped == PutList(table, k, SE!Front(List(k)))
    IN  IF k = l THEN PutList(table, k, <<e>> \o SE!Front(List(k)))
                 ELSE PutList(popped, l, <<e>> \o List(l))

Moved(k, l, m) == PutSet(PutSet(table, k, Set(k) \ {m}), l, Set(l) \cup {m})

Combined(op, k, l) ==
    CASE op = "sinterstore" -> Set(k) \cap Set(l)
      [] op = "sunionstore" -> Set(k) \cup Set(l)
      [] op = "sdiffstore" -> Set(k) \ Set(l)

Effect(cmd) ==
    LET k == cmd.keys[1]
        l == cmd.keys[Len(cmd.keys)]
        named == {cmd.keys[i] : i \in DOMAIN cmd.keys}
    IN  CASE cmd.op \in {"lpush", "rpush"} ->
               IF Is(k, TList) THEN PutList(table, k, Edited(cmd, List(k))) ELSE table
          [] cmd.op \in {"lpushx", "rpushx", "lpop", "rpop", "lset", "ltrim", "lrem", "linsert"} ->
               IF List(k) # <<>> THEN PutList(table, k, Edited(cmd, List(k))) ELSE table
          [] cmd.op = "rpoplpush" ->
               IF List(k) # <<>> /\ Is(l, TList) THEN Rotated(k, l) ELSE table
          [] cmd.op = "smove" ->
               IF k # l /\ cmd.elem \in Set(k) /\ Is(l, TSet) THEN Moved(k, l, cmd.elem) ELSE table
          [] cmd.op \in {"sinterstore", "sunionstore", "sdiffstore"} ->
               LET a == cmd.keys[2]
                   ms == Combined(cmd.op, a, l)
                   skips == cmd.op = "sinterstore" /\ table[a].t = NoType
               IN  IF Is(a, TSet) /\ (skips \/ Is(l, TSet))
                     THEN [table EXCEPT ![k] = SetOf(ms, 0)] ELSE table
          [] cmd.op = "mset" -> [x \in Keys |-> IF x \in named THEN StringOf(cmd.new) ELSE table[x]]
          [] cmd.op = "msetnx" ->
               IF \A x \in named : table[x].t = NoType
                 THEN [x \in Keys |-> IF x \in named THEN StringOf(cmd.new) ELSE table[x]] ELSE table
          [] cmd.op = "del" -> [x \in Keys |-> IF x \in named THEN NoKey ELSE table[x]]

Next == last'.op # "none" /\ table' = IF last'.big THEN table ELSE Effect(last')

Spec == last.op = "none" /\ [][Next]_<<table, last>>
=============================================================================
