------------------------------ MODULE RedisKey ------------------------------
(***************************************************************************)
(* What Redis 3.2 promises of one key: every command is one step, an       *)
(* expired key is not there, and a key that has become empty is not there  *)
(* either.  This is the abstract specification the command handlers        *)
(* implement on a table; last is the command that was answered last.       *)
(***************************************************************************)
EXTENDS Integers, FiniteSets

CONSTANTS Members, ValueSK, Vals, NoType, Gone, TSet, THash, TZSet, TStr, MaxTime

VARIABLES key,    \* [t, exp, cnt, data]
          now,
          last    \* [op, n]: n members were added (removed, when negative)

SK == Members \cup {ValueSK}
NoKey == [t |-> NoType, exp |-> 0, cnt |-> 0, data |-> [sk \in SK |-> Gone]]

\* A collection holds the members f gives a value; a string one value.
Collection(type, f, exp) ==
    LET there == {m \in Members : f[m] # Gone}
    IN  IF there = {} THEN NoKey
        ELSE [t |-> type, exp |-> exp, cnt |-> Cardinality(there),
              data |-> [sk \in SK |-> IF sk \in there THEN f[sk] ELSE Gone]]
StringOf(v, exp) ==
    [t |-> TStr, exp |-> exp, cnt |-> 0, data |-> [sk \in SK |-> IF sk = ValueSK THEN v ELSE Gone]]

TheMembers == {m \in Members : key.data[m] # Gone}
Number(sk) == IF key.data[sk] = Gone THEN 0 ELSE key.data[sk]

Answer(op, n) == last' = [op |-> op, n |-> n] /\ UNCHANGED now
Refuse(op) == Answer(op, 0) /\ UNCHANGED key

Init == key = NoKey /\ now = 1 /\ last = [op |-> "none", n |-> 0]

\* Collections: WRONGTYPE on a live key of another type; deleting from a key that
\* is not there does nothing; the STORE commands replace a key of any type.
Is(type) == key.t \in {NoType, type}
Add(op, type, ms, v) ==
    /\ Is(type)
    /\ key' = Collection(type, [m \in Members |-> IF m \in ms THEN v ELSE key.data[m]], key.exp)
    /\ Answer(op, Cardinality(ms \ TheMembers))
Take(op, type, ms) ==
    /\ key.t = type
    /\ key' = Collection(type, [m \in Members |-> IF m \in ms THEN Gone ELSE key.data[m]], key.exp)
    /\ Answer(op, -Cardinality(ms \cap TheMembers))
TakeFound(op, type, ms) == ms # {} /\ ms \subseteq TheMembers /\ Take(op, type, ms)
Store(op, type, ms) ==
    /\ key' = Collection(type, [m \in Members |-> IF m \in ms THEN 0 ELSE Gone], 0)
    /\ Answer(op, Cardinality(ms))
AddNew(op, type, m, v) == m \notin TheMembers /\ Add(op, type, {m}, v)
Increment(op, type, m) == Number(m) + 1 \in Vals /\ Add(op, type, {m}, Number(m) + 1)

\* String commands.
Set(v, exp) == key' = StringOf(v, exp) /\ Answer("set", 0)
SetIfAbsent(op, v, exp) == key.t = NoType /\ key' = StringOf(v, exp) /\ Answer(op, 0)
GetSet(v) == Is(TStr) /\ key' = StringOf(v, 0) /\ Answer("getset", 0)
AddOne(op) ==
    /\ Is(TStr) /\ Number(ValueSK) + 1 \in Vals
    /\ key' = StringOf(Number(ValueSK) + 1, key.exp)
    /\ Answer(op, 0)

\* Commands of every type.
Del(op) == key' = NoKey /\ Answer(op, 0)
Expire(exp) == key.t # NoType /\ exp > now /\ key' = [key EXCEPT !.exp = exp] /\ Answer("expire", 0)
Persist == key.t # NoType /\ key' = [key EXCEPT !.exp = 0] /\ Answer("persist", 0)

Tick ==
    /\ now < MaxTime
    /\ now' = now + 1
    /\ key' = IF key.exp > 0 /\ key.exp <= now' THEN NoKey ELSE key
    /\ UNCHANGED last

-----------------------------------------------------------------------------
\* When a command may be answered without any effect.
Takers == {"srem", "spop", "hdel", "zrem", "zremrange"}
WrongType ==
    \/ ~Is(TSet) /\ \E op \in {"sadd", "srem", "spop"} : Refuse(op)
    \/ ~Is(THash) /\ \E op \in {"hset", "hsetnx", "hdel", "hincr"} : Refuse(op)
    \/ ~Is(TZSet) /\ \E op \in {"zadd", "zincr", "zrem", "zremrange"} : Refuse(op)
    \/ ~Is(TStr) /\ \E op \in {"getset", "incr", "append"} : Refuse(op)
Overflow ==
    \/ key.t = TStr /\ Number(ValueSK) + 1 \notin Vals /\ \E op \in {"incr", "append"} : Refuse(op)
    \/ key.t = THash /\ (\E m \in Members : Number(m) + 1 \notin Vals) /\ Refuse("hincr")
MayRefuse ==
    \/ WrongType \/ Overflow
    \/ key.t = NoType /\ \E op \in Takers \cup {"set", "expire", "expirepast", "persist"} : Refuse(op)
    \/ key.t # NoType /\ \E op \in {"setnx", "set nx"} : Refuse(op)
    \/ key.t = THash /\ TheMembers # {} /\ Refuse("hsetnx")

CollectionCommand ==
    \/ \E ms \in SUBSET Members :
         \/ Store("sstore", TSet, ms) \/ Store("zstore", TZSet, ms)
         \/ TakeFound("spop", TSet, ms) \/ TakeFound("zremrange", TZSet, ms)
         \/ /\ ms # {}
            /\ \/ Add("sadd", TSet, ms, 0) \/ Take("srem", TSet, ms)
               \/ Add("zadd", TZSet, ms, 0) \/ Take("zrem", TZSet, ms)
               \/ Take("hdel", THash, ms)
               \/ \E v \in Vals : Add("hset", THash, ms, v)
    \/ \E m \in Members :
         \/ Add("zincr", TZSet, {m}, 0) \/ Increment("hincr", THash, m)
         \/ \E v \in Vals : AddNew("hsetnx", THash, m, v)

Next ==
    \/ CollectionCommand
    \/ \E v \in Vals, exp \in {0, now + 1} :
         Set(v, exp) \/ SetIfAbsent("set nx", v, exp) \/ SetIfAbsent("setnx", v, 0) \/ GetSet(v)
    \/ AddOne("incr") \/ AddOne("append")
    \/ Del("del") \/ Del("expirepast") \/ Persist
    \/ \E exp \in now + 1 .. now + 1 : Expire(exp)
    \/ MayRefuse \/ Tick

Spec == Init /\ [][Next]_<<key, now, last>>
=============================================================================
