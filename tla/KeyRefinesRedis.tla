--------------------------- MODULE KeyRefinesRedis ---------------------------
(***************************************************************************)
(* A single connection of the embedded client implements RedisKey: between *)
(* two commands the table shows what Redis would, whatever number of store *)
(* calls each command took and whatever expired keys left behind.          *)
(*                                                                         *)
(* The clock moves between commands only: expiry is in whole seconds, and  *)
(* a command that reads it twice is the subject of the other runs.         *)
(***************************************************************************)
EXTENDS Key

(***************************************************************************)
(* One connection whose deleter runs inline (NewInProc).  A string is not  *)
(* a collection, a first INCR or APPEND does not overflow, and APPEND may  *)
(* lose one compare-and-set: on an expired string it loses the first to    *)
(* its own reclaim.  SETNX writes over what an expired key left behind,    *)
(* and the flags of ZADD read the items of an expired key: their effect is *)
(* not the one Redis has.                                                  *)
(***************************************************************************)
ASSUME SerialAssumption ==
    /\ Cardinality(Clients) = 1 /\ Synchronous
    /\ IsFiniteSet(Members) /\ 1 \in Vals
    /\ TStr \notin {TSet, THash, TZSet}
    /\ MaxTries > 1
    /\ Commands \cap ({"setnx", "zincr nx", "zincr xx"} \cup Flags) = {}

\* What the table shows, and which command was answered, when the connection
\* was last idle: histories that change only when a command ends.
VARIABLES shown, last

allVars == <<vars, shown, last>>

Logical(k) == IF Live(k, now') THEN k ELSE Absent

Record ==
    LET idle == \A c \in Clients : cl'[c].pc = "idle"
        busy == {c \in Clients : ~At(c, "idle")}
    IN  /\ shown' = IF idle THEN Logical(item') ELSE shown
        /\ last' = IF idle /\ busy # {}
                     THEN LET c == CHOOSE c \in busy : TRUE
                          IN  [op |-> cl[c].op, n |-> cl[c].n]
                     ELSE last

SerialNext ==
    /\ \/ \E c \in Clients : Start(c) \/ Continue(c)
       \/ AllIdle /\ Tick /\ Untold
    /\ Record

SerialSpec ==
    /\ Init /\ shown = Absent /\ last = [op |-> "none", n |-> 0]
    /\ [][SerialNext]_allVars

Redis == INSTANCE RedisKey WITH key <- shown

\* Single-connection compatibility (doc/redis-3.2-compatibility.md): every
\* handler, with its type check, takeover, reclaim and count update, has the
\* effect of the one Redis command, and leaves no other state behind.
ImplementsRedis == Redis!Spec
=============================================================================
