----------------------------- MODULE RedisProofs -----------------------------
(***************************************************************************)
(* A single connection implements RedisKey: the refinement the run `redis` *)
(* checks, for any members, values, number of commands and clock.          *)
(***************************************************************************)
EXTENDS KeyRefinesRedis, KeyProofs, FiniteSetTheorems

-----------------------------------------------------------------------------
(***************************************************************************)
(* What the table shows between commands.                                  *)
(***************************************************************************)
Collections == {TSet, THash, TZSet}
Mem(k) == {m \in Members : k.data[m] # Gone}

\* The keys that commands leave behind: none, a collection with members and their
\* number, or a string with its value; no other data item.
Shapely(k) ==
    /\ k \in ItemType
    /\ \/ k = Absent
       \/ /\ k.t \in Collections /\ k.data[ValueSK] = Gone
          /\ Mem(k) # {} /\ k.cnt = Cardinality(Mem(k))
       \/ k.t = TStr /\ k.cnt = 0 /\ k.data[ValueSK] # Gone /\ Mem(k) = {}

\* Between two commands: k is in the table, and s is what is shown at time t.
Whole(k, s, t) == Shapely(k) /\ s = IF Live(k, t) THEN k ELSE Absent

\* Inside a command: a meta item alone; no meta item; an expired key taken over
\* (or a type claimed) whose data items are still to be reclaimed; a string's meta
\* item, whatever its value.
Ready(k, from, type) == from.t \in {NoType, type} /\ k = EnsureType(from, type, 0)
Bare(k) == k \in ItemType /\ k.t = NoType /\ k.exp = 0 /\ k.cnt = 0
Hollow(k, type) == k \in ItemType /\ k.t = type /\ k.exp = 0 /\ k.cnt = 0
Stringy(k) == k \in ItemType /\ k.t = TStr /\ k.cnt = 0 /\ Mem(k) = {}
Written(k, v) == Stringy(k) /\ k.data[ValueSK] = v

\* The two calls of DeleteMembers, on the way to the label ret.
Reclaims(r, ret, k) ==
    r.pc \in {"list", "reclaim"} /\ r.ret = ret /\ (r.pc = "reclaim" => r.lst = Present(k))

-----------------------------------------------------------------------------
(***************************************************************************)
(* The commands in flight, one operator per call of a handler: r is the    *)
(* client record, k the key, s what is shown, t the time.                  *)
(***************************************************************************)
Stores == {"sstore", "zstore"}
AddOps == {"sadd", "hset", "hsetnx", "hincr", "zadd", "zincr"} \cup Stores
AddType(op) == IF op \in {"sadd", "sstore"} THEN TSet
               ELSE IF op \in {"hset", "hsetnx", "hincr"} THEN THash ELSE TZSet
AddNext(op) == IF op = "hincr" THEN "read" ELSE IF op = "zincr" THEN "isnew" ELSE "write"

\* The key the members are added to: a STORE command starts from none.
From(r, s) == IF r.op \in Stores THEN Absent ELSE s

\* What the command was given: one field or member, a value, the score 0.
Given(r, ms) ==
    /\ ms # {}
    /\ r.op \in {"hsetnx", "hincr", "zincr"} => \E m \in Members : ms = {m}
    /\ r.op \in {"sadd", "sstore", "zadd", "zincr", "zstore"} => r.val = 0

\* The members done are written, the others are as they were.
Filled(r, k, from, done) ==
    /\ k \in ItemType /\ k.t = AddType(r.op) /\ k.exp = from.exp /\ k.cnt = from.cnt
    /\ k.data[ValueSK] = Gone /\ from.t \in {NoType, AddType(r.op)}
    /\ \A m \in Members : k.data[m] = IF m \in done THEN r.val ELSE from.data[m]

\* How many of the members ms the key did not have.
New(ms, from) == Cardinality(ms \ Mem(from))

AddEnsure(r, k, s, t) ==
    /\ r.pc = "ensure" /\ r.n = 0 /\ Given(r, r.args)
    /\ IF r.op \in Stores THEN k = Absent ELSE Whole(k, s, t)
AddReclaim(r, k, s) ==
    /\ Reclaims(r, AddNext(r.op), k) /\ r.n = 0 /\ Given(r, r.args)
    /\ Hollow(k, AddType(r.op)) /\ From(r, s) = Absent
AddRead(r, k, s) ==
    /\ r.pc = AddNext(r.op) /\ r.op \in {"hincr", "zincr"} /\ r.n = 0 /\ Given(r, r.args)
    /\ Filled(r, k, From(r, s), {})
AddCas(r, k, s) ==
    /\ r.pc = "cas" /\ r.op = "hincr" /\ r.n = 0 /\ Given(r, r.args)
    /\ Filled(r, k, From(r, s), {})
    /\ \A m \in r.args : r.seen = k.data[m]
AddWrite(r, k, s) ==
    /\ r.pc = "write" /\ r.op # "hincr" /\ r.args # {}
    /\ \E done \in SUBSET Members :
         /\ Given(r, done \cup r.args) /\ done \cap r.args = {}
         /\ Filled(r, k, From(r, s), done)
         /\ r.n = New(IF r.op = "zincr" THEN done \cup r.args ELSE done, From(r, s))
AddAdjust(r, k, s) ==
    /\ r.pc = "adjust" /\ r.val \in Vals
    /\ \E done \in SUBSET Members :
         /\ Given(r, done) /\ Filled(r, k, From(r, s), done) /\ r.n = New(done, From(r, s))
         /\ r.op = "hsetnx" => done \cap Mem(s) = {}
         /\ r.op = "hincr" => \A m \in done : r.val = Base(s.data[m]) + 1
AddPhase(r, k, s, t) ==
    /\ r.op \in AddOps
    /\ \/ AddEnsure(r, k, s, t) \/ AddReclaim(r, k, s) \/ AddRead(r, k, s) \/ AddCas(r, k, s)
       \/ AddWrite(r, k, s) \/ AddAdjust(r, k, s)

\* SREM, HDEL, ZREM; SPOP and ZREMRANGE find the members they delete.
Finders == {"spop", "zremrange"}
TakeOps == {"srem", "hdel", "zrem"} \cup Finders
TakeType(op) == IF op \in {"srem", "spop"} THEN TSet ELSE IF op = "hdel" THEN THash ELSE TZSet
Found(r, s, ms) == ms # {} /\ (r.op \in Finders => ms \subseteq Mem(s))

\* The members done are deleted; the meta item is as it was.
Emptied(r, k, s, done) ==
    /\ k \in ItemType /\ s.t = TakeType(r.op) /\ k.t = s.t /\ k.exp = s.exp
    /\ k.data[ValueSK] = Gone
    /\ \A m \in Members : k.data[m] = IF m \in done THEN Gone ELSE s.data[m]
Gave(ms, s) == Cardinality(ms \cap Mem(s))

TakeLoad(r, k, s, t) ==
    /\ r.pc = "load" /\ r.n = 0 /\ Whole(k, s, t)
    /\ r.op \notin Finders => r.args # {}
TakeChoose(r, k, s, t) ==
    r.pc = "choose" /\ r.op \in Finders /\ r.n = 0 /\ Whole(k, s, t) /\ s.t = TakeType(r.op)
TakeRemove(r, k, s) ==
    /\ r.pc = "remove" /\ r.args # {}
    /\ \E done \in SUBSET Members :
         /\ Found(r, s, done \cup r.args)
         /\ Emptied(r, k, s, done) /\ k.cnt = s.cnt /\ r.n = -Gave(done, s)
TakeAdjust(r, k, s) ==
    /\ r.pc = "adjust"
    /\ \E done \in SUBSET Members :
         /\ Found(r, s, done)
         /\ Emptied(r, k, s, done) /\ k.cnt = s.cnt /\ r.n = -Gave(done, s)
TakeDrop(r, k, s) ==
    /\ r.pc = "drop"
    /\ \E done \in SUBSET Members :
         /\ Found(r, s, done) /\ Mem(s) \subseteq done
         /\ Emptied(r, k, s, done) /\ k.cnt = 0 /\ r.n = -Gave(done, s)
TakePhase(r, k, s, t) ==
    /\ r.op \in TakeOps
    /\ \/ TakeLoad(r, k, s, t) \/ TakeChoose(r, k, s, t)
       \/ TakeRemove(r, k, s) \/ TakeAdjust(r, k, s) \/ TakeDrop(r, k, s)

\* DEL, an EXPIRE in the past, and the STORE commands before they fill the key.
DropOps == {"del", "expirepast"} \cup Stores
DropNext(op) == IF op \in Stores THEN "replace" ELSE "idle"
DropLoad(r, k, s, t) == r.pc = "load" /\ r.op \notin Stores /\ Whole(k, s, t)
DropMeta(r, k) == r.pc = "delmeta" /\ Shapely(k)
DropEnqueue(r, k) == r.pc = "enqueue" /\ r.ret = DropNext(r.op) /\ Bare(k)
DropReclaim(r, k) == Reclaims(r, DropNext(r.op), k) /\ Bare(k)
DropReplace(r, k) == r.pc \in {"replace", "result"} /\ r.op \in Stores /\ k = Absent
DropAgain(r, k) == Reclaims(r, "result", k) /\ r.op \in Stores /\ Bare(k)
DropPhase(r, k, s, t) ==
    /\ r.op \in DropOps /\ r.n = 0 /\ (r.op \in Stores => r.val = 0)
    /\ \/ DropLoad(r, k, s, t) \/ DropMeta(r, k) \/ DropEnqueue(r, k) \/ DropReclaim(r, k)
       \/ DropReplace(r, k) \/ DropAgain(r, k)

\* EXPIRE with a time to come; PERSIST.
ExpiryPhase(r, k, s, t) ==
    /\ r.op \in {"expire", "persist"} /\ r.n = 0 /\ Whole(k, s, t)
    /\ \/ r.pc = "load"
       \/ r.pc = (IF r.op = "expire" THEN "setexp" ELSE "persist") /\ Live(k, t)
    /\ r.op = "expire" => r.exp = t + 1

-----------------------------------------------------------------------------
\* SET, which does not depend on what was there, but for XX.
SetCheck(r, k, s, t) == r.pc \in {"xx", "overwrite"} /\ Whole(k, s, t)
SetReclaim(r, k) == Reclaims(r, "delmeta", k) /\ HasMeta(k)
SetMeta(r, k) == r.pc = "delmeta" /\ HasMeta(k) /\ Present(k) = {}
SetEnqueue(r, k) == r.pc = "enqueue" /\ r.ret = "ensure" /\ k = Absent
SetAgain(r, k) == Reclaims(r, "ensure", k) /\ Bare(k)
SetEnsure(r, k) == r.pc = "ensure" /\ Shapely(k) /\ k.t \in {NoType, TStr}
SetTakeover(r, k) == Reclaims(r, "put", k) /\ Hollow(k, TStr)
SetPut(r, k) == r.pc = "put" /\ Stringy(k)
SetExpiry(r, k) == r.pc = (IF r.exp = 0 THEN "persist" ELSE "setexp") /\ Written(k, r.val)
SetPhase(r, k, s, t) ==
    /\ r.op = "set" /\ r.n = 0 /\ r.exp \in {0, t + 1} /\ k \in ItemType
    /\ \/ SetCheck(r, k, s, t) \/ SetReclaim(r, k) \/ SetMeta(r, k) \/ SetEnqueue(r, k)
       \/ SetAgain(r, k) \/ SetEnsure(r, k) \/ SetTakeover(r, k) \/ SetPut(r, k) \/ SetExpiry(r, k)

\* SET NX.
NXClaim(r, k, s, t) == r.pc = "claim" /\ Whole(k, s, t)
NXReclaim(r, k, s) == Reclaims(r, "put", k) /\ Hollow(k, TStr) /\ s = Absent
NXPut(r, k, s) == r.pc = "put" /\ Stringy(k) /\ k.exp = 0 /\ s = Absent
NXExpiry(r, k, s) == r.pc = "setexp" /\ r.exp # 0 /\ Written(k, r.val) /\ s = Absent
NXPhase(r, k, s, t) ==
    /\ r.op = "set nx" /\ r.n = 0 /\ r.exp \in {0, t + 1}
    /\ NXClaim(r, k, s, t) \/ NXReclaim(r, k, s) \/ NXPut(r, k, s) \/ NXExpiry(r, k, s)

\* GETSET and INCR: a takeover, then the value.
ValueNext(op) == IF op = "getset" THEN "getset" ELSE "read"
ValueEnsure(r, k, s, t) == r.pc = "ensure" /\ Whole(k, s, t)
ValueReclaim(r, k, s) == Reclaims(r, ValueNext(r.op), k) /\ Hollow(k, TStr) /\ s = Absent
ValueReady(r, k, s) == r.pc = ValueNext(r.op) /\ Ready(k, s, TStr)
ValueCas(r, k, s) ==
    r.pc = "cas" /\ r.op = "incr" /\ Ready(k, s, TStr) /\ r.seen = k.data[ValueSK]
ValuePersist(r, k, s) ==
    r.pc = "persist" /\ r.op = "getset" /\ Written(k, r.val) /\ s.t \in {NoType, TStr}
ValuePhase(r, k, s, t) ==
    /\ r.op \in {"getset", "incr"} /\ r.n = 0
    /\ \/ ValueEnsure(r, k, s, t) \/ ValueReclaim(r, k, s) \/ ValueReady(r, k, s)
       \/ ValueCas(r, k, s) \/ ValuePersist(r, k, s)

\* APPEND.  On an expired string the first compare-and-set fails, because the takeover
\* reclaimed the value it read; the second attempt starts from a meta item alone.
Again(r, k, s) == r.tries = 1 /\ s = Absent /\ Ready(k, Absent, TStr)
First(r, k, s, t) == r.tries = 0 /\ Whole(k, s, t) /\ s.t \in {NoType, TStr}
Appended(r, s) == r.val \in Vals /\ r.val = Base(s.data[ValueSK]) + 1
AppLoad(r, k, s, t) == r.pc = "load" /\ (Again(r, k, s) \/ (r.tries = 0 /\ Whole(k, s, t)))
AppGet(r, k, s, t) ==
    /\ r.pc = "get"
    /\ Again(r, k, s) \/ (First(r, k, s, t) /\ r.val = IF Live(k, t) THEN 0 ELSE Gone)
AppEnsure(r, k, s, t) ==
    /\ r.pc = "ensure" /\ Appended(r, s) /\ r.seen = k.data[ValueSK]
    /\ Again(r, k, s) \/ First(r, k, s, t)
AppReclaim(r, k, s) ==
    Reclaims(r, "swap", k) /\ Appended(r, s) /\ Hollow(k, TStr) /\ s = Absent /\ r.tries = 0
AppSwap(r, k, s) ==
    /\ r.pc = "swap" /\ Appended(r, s) /\ Ready(k, s, TStr)
    /\ r.seen = k.data[ValueSK] \/ (r.tries = 0 /\ s = Absent)
AppPhase(r, k, s, t) ==
    /\ r.op = "append" /\ r.n = 0
    /\ \/ AppLoad(r, k, s, t) \/ AppGet(r, k, s, t) \/ AppEnsure(r, k, s, t)
       \/ AppReclaim(r, k, s) \/ AppSwap(r, k, s)

Phase(r, k, s, t) ==
    \/ r.pc = "idle" /\ Whole(k, s, t)
    \/ AddPhase(r, k, s, t) \/ TakePhase(r, k, s, t) \/ DropPhase(r, k, s, t)
    \/ ExpiryPhase(r, k, s, t) \/ SetPhase(r, k, s, t) \/ NXPhase(r, k, s, t)
    \/ ValuePhase(r, k, s, t) \/ AppPhase(r, k, s, t)

\* What is shown is a key Redis could hold: shapely, and not expired.
Shows(s, t) == Shapely(s) /\ (s = Absent \/ Live(s, t))

RefInv ==
    /\ TypeInv /\ Shows(shown, now)
    /\ \A c \in Clients : Phase(cl[c], item, shown, now)
-----------------------------------------------------------------------------
(***************************************************************************)
(* One connection: what the histories record, and what the shared steps    *)
(* make of a client record and of the key.                                 *)
(***************************************************************************)

\* The two specifications count members with the same operator.
LEMMA SameCardinality == ASSUME NEW ms PROVE Redis!Cardinality(ms) = Cardinality(ms)
  BY DEF Redis!Cardinality, Cardinality

\* There is one connection.
LEMMA OneConnection == \E c \in Clients : Clients = {c}
<1>1. IsFiniteSet(Clients) /\ Cardinality(Clients) = 1
  BY SerialAssumption, ClientsAssumption
<1>2. \E c : Clients = {c}
  BY <1>1, FS_Singleton
<1> QED
  BY <1>2

\* The step of a command, with what is recorded of it.
Context(c) == Clients = {c} /\ RefInv /\ Record
Effect == Redis!Next \/ UNCHANGED <<shown, now, last>>
Good(c) == Shows(shown', now') /\ Phase(cl'[c], item', shown', now') /\ Effect

\* What the invariant says of the connection and of the key.
LEMMA ContextTypes ==
    ASSUME NEW c \in Clients, Context(c)
    PROVE  /\ cl \in [Clients -> Client] /\ cl[c] \in ClientType /\ ClientInv(cl[c])
           /\ item \in ItemType /\ shown \in ItemType /\ now \in Nat
           /\ Shows(shown, now) /\ Phase(cl[c], item, shown, now)
  BY DEF Context, RefInv, TypeInv, TypeOK, CoreTypeOK, Client, Shows, Shapely

\* The histories change only when a command ends.
LEMMA RecordIs ==
    ASSUME NEW c \in Clients, Context(c)
    PROVE  /\ cl'[c].pc # "idle" => UNCHANGED <<shown, last>>
           /\ cl'[c].pc = "idle" => shown' = IF Live(item', now') THEN item' ELSE Absent
           /\ cl'[c].pc = "idle" /\ cl[c].pc # "idle" =>
                last' = [op |-> cl[c].op, n |-> cl[c].n]
           /\ cl'[c].pc = "idle" /\ cl[c].pc = "idle" => last' = last
<1> DEFINE idle == \A d \in Clients : cl'[d].pc = "idle"
           busy == {d \in Clients : ~At(d, "idle")}
<1>1. Clients = {c}
  BY DEF Context
<1>2. idle <=> cl'[c].pc = "idle"
  BY <1>1
<1>3. busy = IF cl[c].pc = "idle" THEN {} ELSE {c}
  BY <1>1 DEF At
<1>4. /\ shown' = IF idle THEN Logical(item') ELSE shown
      /\ last' = IF idle /\ busy # {}
                   THEN LET d == CHOOSE d \in busy : TRUE
                        IN  [op |-> cl[d].op, n |-> cl[d].n]
                   ELSE last
  BY DEF Context, Record
<1>5. cl[c].pc # "idle" => busy # {} /\ (CHOOSE d \in busy : TRUE) = c
  BY <1>3
<1> HIDE DEF idle, busy
<1>6. shown' = IF cl'[c].pc = "idle" THEN (IF Live(item', now') THEN item' ELSE Absent) ELSE shown
  BY <1>2, <1>4 DEF Logical
<1>7. cl[c].pc = "idle" => busy = {}
  BY <1>3
<1>8. cl[c].pc = "idle" => last' = last
  BY <1>4, <1>7
<1>9. cl'[c].pc # "idle" => last' = last
  BY <1>2, <1>4
<1>10. cl'[c].pc = "idle" /\ cl[c].pc # "idle" => last' = [op |-> cl[c].op, n |-> cl[c].n]
  BY <1>2, <1>4, <1>5
<1> QED
  BY <1>6, <1>8, <1>9, <1>10

\* A step after which the command goes on is not seen.
LEMMA Goes ==
    ASSUME NEW c \in Clients, Context(c), now' = now, cl'[c].pc # "idle",
           Phase(cl'[c], item', shown, now)
    PROVE  Good(c)
<1>1. UNCHANGED <<shown, last>>
  BY RecordIs
<1> QED
  BY <1>1, ContextTypes DEF Good, Effect

\* A step that ends the command shows the key it leaves.
LEMMA Ends ==
    ASSUME NEW c \in Clients, Context(c), now' = now, cl[c].pc # "idle", cl'[c].pc = "idle",
           Shapely(item'), item' = Absent \/ Live(item', now),
           shown' = item' /\ last' = [op |-> cl[c].op, n |-> cl[c].n] => Redis!Next
    PROVE  Good(c)
<1>1. shown' = item' /\ last' = [op |-> cl[c].op, n |-> cl[c].n]
  BY RecordIs
<1>2. item' = Absent => ~Live(item', now')
  BY DEF Live, HasMeta, Absent
<1>3. Whole(item', shown', now')
  BY <1>1, <1>2 DEF Whole
<1> QED
  BY <1>1, <1>3 DEF Good, Effect, Shows, Phase

\* A step that ends the command and leaves the key as it was.
LEMMA EndsUnchanged ==
    ASSUME NEW c \in Clients, Context(c), now' = now, cl[c].pc # "idle", cl'[c].pc = "idle",
           item' = item, Whole(item, shown, now),
           shown' = shown /\ last' = [op |-> cl[c].op, n |-> cl[c].n] => Redis!Next
    PROVE  Good(c)
<1>1. /\ shown' = IF Live(item, now) THEN item ELSE Absent
      /\ last' = [op |-> cl[c].op, n |-> cl[c].n]
  BY RecordIs
<1>2. shown' = shown /\ Whole(item', shown', now')
  BY <1>1 DEF Whole
<1> QED
  BY <1>1, <1>2, ContextTypes DEF Good, Effect, Phase

\* The variables of a command that its next call does not change.
Keeps(q, r) ==
    /\ q.op = r.op /\ q.args = r.args /\ q.n = r.n /\ q.tries = r.tries /\ q.exp = r.exp
    /\ q.val = r.val /\ q.seen = r.seen

\* Goto, Return, and the two ways to a reclaim.
LEMMA Moves ==
    ASSUME NEW c \in Clients, cl \in [Clients -> Client]
    PROVE  /\ \A x : Goto(c, x) =>
                cl'[c].pc = x /\ cl'[c].ret = cl[c].ret /\ Keeps(cl'[c], cl[c])
           /\ Return(c) => cl'[c] = Idle /\ cl'[c].pc = "idle"
           /\ \A x, y : cl' = [cl EXCEPT ![c].pc = x, ![c].ret = y] =>
                cl'[c].pc = x /\ cl'[c].ret = y /\ Keeps(cl'[c], cl[c])
           /\ \A x, y : cl' = [cl EXCEPT ![c].pc = x, ![c].lst = y] =>
                /\ cl'[c].pc = x /\ cl'[c].lst = y /\ cl'[c].ret = cl[c].ret
                /\ Keeps(cl'[c], cl[c])
           /\ \A x, y, z : cl' = [cl EXCEPT ![c].pc = x, ![c].ret = y, ![c].lst = z] =>
                cl'[c].pc = x /\ cl'[c].ret = y /\ Keeps(cl'[c], cl[c])
<1>1. cl[c] \in ClientType /\ DOMAIN cl = Clients
  BY DEF Client
<1>2. ASSUME NEW x, Goto(c, x)
      PROVE  cl'[c].pc = x /\ cl'[c].ret = cl[c].ret /\ Keeps(cl'[c], cl[c])
  BY <1>1, <1>2 DEF Goto, Keeps, ClientType
<1>3. Return(c) => cl'[c] = Idle /\ cl'[c].pc = "idle"
  BY DEF Return, Idle
<1>4. ASSUME NEW x, NEW y, cl' = [cl EXCEPT ![c].pc = x, ![c].ret = y]
      PROVE  cl'[c].pc = x /\ cl'[c].ret = y /\ Keeps(cl'[c], cl[c])
  BY <1>1, <1>4 DEF Keeps, ClientType
<1>5. ASSUME NEW x, NEW y, cl' = [cl EXCEPT ![c].pc = x, ![c].lst = y]
      PROVE  /\ cl'[c].pc = x /\ cl'[c].lst = y /\ cl'[c].ret = cl[c].ret
             /\ Keeps(cl'[c], cl[c])
  BY <1>1, <1>5 DEF Keeps, ClientType
<1>6. ASSUME NEW x, NEW y, NEW z,
             cl' = [cl EXCEPT ![c].pc = x, ![c].ret = y, ![c].lst = z]
      PROVE  cl'[c].pc = x /\ cl'[c].ret = y /\ Keeps(cl'[c], cl[c])
  BY <1>1, <1>6 DEF Keeps, ClientType
<1> QED
  BY <1>2, <1>3, <1>4, <1>5, <1>6
\* What the primitives leave: a taken-over key is hollow, a deleted one bare, and a
\* reclaim leaves no data item.
LEMMA Leaves ==
    ASSUME NEW k \in ItemType, NEW type \in Types
    PROVE  /\ Hollow(Claimed(k, type), type)
           /\ Bare(DeleteMeta(k))
           /\ Remove(k, Present(k)) \in ItemType
           /\ Present(Remove(k, Present(k))) = {}
           /\ Remove(k, Present(k)).t = k.t
           /\ Hollow(k, type) => Remove(k, Present(k)) = EnsureType(Absent, type, 0)
           /\ Bare(k) => Remove(k, Present(k)) = Absent
           /\ Present(k) = {} => DeleteMeta(k) = Absent
           /\ Present(k) = {} => \A sk \in SK : k.data[sk] = Gone
<1> DEFINE none == [sk \in SK |-> Gone]
           e == Remove(k, Present(k))
<1>1. k = [t |-> k.t, exp |-> k.exp, cnt |-> k.cnt, data |-> k.data] /\ DOMAIN k.data = SK
  BY DEF ItemType
<1>2. Present(k) = {} => k.data = none
  <2>1. k.data \in [SK -> Vals \cup {Gone}]
    BY DEF ItemType
  <2>2. Present(k) = {} => \A sk \in SK : k.data[sk] = Gone
    BY <1>1 DEF Present
  <2> QED
    BY <2>1, <2>2
<1>3. [sk \in SK |-> IF sk \in Present(k) THEN Gone ELSE k.data[sk]] = none
  BY <1>1 DEF Present
<1>4. e = [t |-> k.t, exp |-> k.exp, cnt |-> k.cnt, data |-> none]
  <2> HIDE DEF none
  <2> QED
    BY <1>1, <1>3 DEF Remove
<1>5. none \in [SK -> Vals \cup {Gone}] /\ DOMAIN none = SK /\ \A sk \in SK : none[sk] = Gone
  OBVIOUS
<1>6. Absent = [t |-> NoType, exp |-> 0, cnt |-> 0, data |-> none]
  BY DEF Absent
<1> HIDE DEF none, e
<1>7. e \in ItemType /\ e.t = k.t /\ Present(e) = {}
  BY <1>4, <1>5 DEF ItemType, Present
<1>8. Hollow(k, type) => e = EnsureType(Absent, type, 0)
  BY <1>4, <1>6 DEF Hollow, EnsureType
<1>9. Bare(k) => e = Absent
  BY <1>4, <1>6 DEF Bare
<1>10. Hollow(Claimed(k, type), type) /\ Bare(DeleteMeta(k))
  BY DEF Hollow, Bare, Claimed, DeleteMeta, NoMeta, ItemType
<1>11. Present(k) = {} => DeleteMeta(k) = Absent
  BY <1>2, <1>6 DEF DeleteMeta, NoMeta, Claimed
<1>12. Present(k) = {} => \A sk \in SK : k.data[sk] = Gone
  BY <1>1 DEF Present
<1> QED
  BY <1>7, <1>8, <1>9, <1>10, <1>11, <1>12 DEF e

\* Store.DeleteMembers: the Query leaves the key, the deletes leave no data item, and
\* the command goes on at the label it came for.
LEMMA ReclaimSteps ==
    ASSUME NEW c \in Clients, Context(c), NEW ret, Reclaims(cl[c], ret, item),
           DeleteMembersSteps(c)
    PROVE  /\ now' = now
           /\ \/ /\ Reclaims(cl'[c], ret, item') /\ cl'[c].pc = "reclaim" /\ item' = item
                 /\ Keeps(cl'[c], cl[c])
              \/ /\ item' = Remove(item, Present(item)) /\ ret # "idle"
                 /\ cl'[c].pc = ret /\ Keeps(cl'[c], cl[c])
              \/ item' = Remove(item, Present(item)) /\ ret = "idle" /\ cl'[c].pc = "idle"
<1>1. cl \in [Clients -> Client]
  BY ContextTypes
<1>2. CASE ListStep(c)
  <2>1. cl' = [cl EXCEPT ![c].pc = "reclaim", ![c].lst = Present(item)] /\ item' = item /\ now' = now
    BY <1>2 DEF ListStep, LocalStep, ClientStep
  <2>2. /\ cl'[c].pc = "reclaim" /\ cl'[c].lst = Present(item) /\ cl'[c].ret = cl[c].ret
        /\ Keeps(cl'[c], cl[c])
    BY <1>1, <2>1, Moves
  <2> QED
    BY <2>1, <2>2 DEF Reclaims
<1>3. CASE ReclaimStep(c)
  <2>1. item' = Remove(item, Present(item)) /\ now' = now /\ cl[c].ret = ret
    BY <1>3 DEF ReclaimStep, ClientStep, At, Reclaims
  <2>2. CASE ret = "idle"
    <3>1. Return(c)
      BY <1>3, <2>1, <2>2 DEF ReclaimStep
    <3> QED
      BY <1>1, <2>1, <2>2, <3>1, Moves
  <2>3. CASE ret # "idle"
    <3>1. cl' = [cl EXCEPT ![c].pc = cl[c].ret, ![c].ret = "idle", ![c].lst = {}]
      BY <1>3, <2>1, <2>3 DEF ReclaimStep
    <3>2. cl'[c].pc = ret /\ Keeps(cl'[c], cl[c])
      BY <1>1, <2>1, <3>1, Moves
    <3> QED
      BY <2>1, <2>3, <3>2
  <2> QED
    BY <2>2, <2>3
<1> QED
  BY <1>2, <1>3 DEF DeleteMembersSteps

\* ensureTypeExpiring on a whole key: WRONGTYPE; a takeover of an expired key, which is
\* hollow until its items are reclaimed; or a meta item of the type.
LEMMA EnsureSteps ==
    ASSUME NEW c \in Clients, Context(c), NEW type \in Types, NEW next, next # "idle",
           EnsureTypeExpiringStep(c, type, next), Shapely(item)
    PROVE  /\ now' = now
           /\ \/ /\ cl'[c].pc = "idle" /\ item' = item /\ Live(item, now)
                 /\ item.t \notin {NoType, type}
              \/ /\ Reclaims(cl'[c], next, item') /\ cl'[c].pc = "list" /\ Keeps(cl'[c], cl[c])
                 /\ Hollow(item', type) /\ ~Live(item, now)
              \/ /\ cl'[c].pc = next /\ Keeps(cl'[c], cl[c])
                 /\ Ready(item', item, type) /\ (item = Absent \/ Live(item, now))
<1>1. cl \in [Clients -> Client] /\ item \in ItemType /\ now' = now
  BY ContextTypes DEF EnsureTypeExpiringStep, ClientStep
<1>2. CASE ~ExpiringAllows(item, type, now)
  <2>1. Return(c) /\ item' = item
    BY <1>2 DEF EnsureTypeExpiringStep
  <2>2. Live(item, now) /\ item.t \notin {NoType, type}
    BY <1>2 DEF ExpiringAllows, TakesOver, TypeAllows, Live, HasMeta
  <2> QED
    BY <1>1, <2>1, <2>2, Moves
<1>3. CASE ExpiringAllows(item, type, now) /\ TakesOver(item, now)
  <2>1. /\ item' = Claimed(item, type)
        /\ cl' = [cl EXCEPT ![c].pc = "list", ![c].ret = next]
    BY <1>3 DEF EnsureTypeExpiringStep, EnsureTypeExpiring
  <2>2. Hollow(item', type)
    BY <1>1, <2>1, Leaves
  <2>3. cl'[c].pc = "list" /\ cl'[c].ret = next /\ Keeps(cl'[c], cl[c])
    BY <1>1, <2>1, Moves
  <2>4. ~Live(item, now)
    BY <1>3 DEF TakesOver, Live
  <2> QED
    BY <1>1, <2>2, <2>3, <2>4 DEF Reclaims
<1>4. CASE ExpiringAllows(item, type, now) /\ ~TakesOver(item, now)
  <2>1. item' = EnsureType(item, type, 0) /\ Goto(c, next)
    BY <1>4 DEF EnsureTypeExpiringStep, EnsureTypeExpiring
  <2>2. item.t \in {NoType, type}
    BY <1>4 DEF ExpiringAllows, TypeAllows
  <2>3. item = Absent \/ Live(item, now)
    BY <1>4, ConstantsAssumption, SetAssumption, HashAssumption, ZSetAssumption, StringAssumption
       DEF TakesOver, Live, HasMeta, Shapely, Collections
  <2>4. cl'[c].pc = next /\ Keeps(cl'[c], cl[c])
    BY <1>1, <2>1, Moves
  <2> QED
    BY <1>1, <2>1, <2>2, <2>3, <2>4 DEF Ready
<1> QED
  BY <1>2, <1>3, <1>4

\* DeleteMeta: a shapely key without a meta item is absent.
LEMMA DeleteMetaSteps ==
    ASSUME NEW c \in Clients, Context(c), NEW next, DeleteMetaStep(c, next)
    PROVE  /\ now' = now /\ item' = DeleteMeta(item)
           /\ \/ /\ cl'[c].pc = "enqueue" /\ cl'[c].ret = next /\ Keeps(cl'[c], cl[c])
                 /\ HasMeta(item)
              \/ /\ ~HasMeta(item) /\ next # "idle"
                 /\ cl'[c].pc = next /\ Keeps(cl'[c], cl[c])
              \/ ~HasMeta(item) /\ next = "idle" /\ cl'[c].pc = "idle"
<1>1. cl \in [Clients -> Client] /\ now' = now /\ item' = DeleteMeta(item)
  BY ContextTypes DEF DeleteMetaStep, ClientStep
<1>2. CASE HasMeta(item)
  <2>1. cl' = [cl EXCEPT ![c].pc = "enqueue", ![c].ret = next]
    BY <1>2 DEF DeleteMetaStep
  <2>2. cl'[c].pc = "enqueue" /\ cl'[c].ret = next /\ Keeps(cl'[c], cl[c])
    BY <1>1, <2>1, Moves
  <2> QED
    BY <1>1, <1>2, <2>2
<1>3. CASE ~HasMeta(item) /\ next = "idle"
  BY <1>1, <1>3, Moves DEF DeleteMetaStep
<1>4. CASE ~HasMeta(item) /\ next # "idle"
  <2>1. Goto(c, next)
    BY <1>4 DEF DeleteMetaStep
  <2>2. cl'[c].pc = next /\ Keeps(cl'[c], cl[c])
    BY <1>1, <2>1, Moves
  <2> QED
    BY <1>1, <1>4, <2>2
<1> QED
  BY <1>2, <1>3, <1>4

LEMMA ShapelyAbsent ==
    ASSUME NEW k, Shapely(k), ~HasMeta(k)
    PROVE  k = Absent
  BY ConstantsAssumption, SetAssumption, HashAssumption, ZSetAssumption, StringAssumption
     DEF HasMeta, Shapely, Collections

\* Enqueue of the embedded client: the deleter runs inline, and the recreate guard finds
\* no meta item.
LEMMA EnqueueSteps ==
    ASSUME NEW c \in Clients, Context(c), Bare(item), EnqueueStep(c)
    PROVE  /\ now' = now /\ item' = item
           /\ cl'[c].pc = "list" /\ cl'[c].ret = cl[c].ret /\ Keeps(cl'[c], cl[c])
<1>1. cl \in [Clients -> Client]
  BY ContextTypes
<1>2. Goto(c, "list") /\ now' = now /\ item' = item
  BY SerialAssumption DEF EnqueueStep, Bare, HasMeta
<1> QED
  BY <1>1, <1>2, Moves
-----------------------------------------------------------------------------
(***************************************************************************)
(* The commands of the abstract specification, as the proofs use them.     *)
(***************************************************************************)

\* Each command is a step.
LEMMA CollectionCommands ==
    /\ \A ms \in SUBSET Members :
         /\ Redis!Store("sstore", TSet, ms) => Redis!Next
         /\ Redis!Store("zstore", TZSet, ms) => Redis!Next
         /\ Redis!TakeFound("spop", TSet, ms) => Redis!Next
         /\ Redis!TakeFound("zremrange", TZSet, ms) => Redis!Next
         /\ ms # {} =>
              /\ Redis!Add("sadd", TSet, ms, 0) => Redis!Next
              /\ Redis!Add("zadd", TZSet, ms, 0) => Redis!Next
              /\ Redis!Take("srem", TSet, ms) => Redis!Next
              /\ Redis!Take("zrem", TZSet, ms) => Redis!Next
              /\ Redis!Take("hdel", THash, ms) => Redis!Next
              /\ \A v \in Vals : Redis!Add("hset", THash, ms, v) => Redis!Next
    /\ \A m \in Members :
         /\ Redis!Add("zincr", TZSet, {m}, 0) => Redis!Next
         /\ Redis!Increment("hincr", THash, m) => Redis!Next
         /\ \A v \in Vals : Redis!AddNew("hsetnx", THash, m, v) => Redis!Next
<1>1. Redis!CollectionCommand => Redis!Next
  BY DEF Redis!Next
<1>2. ASSUME NEW ms \in SUBSET Members
      PROVE  /\ Redis!Store("sstore", TSet, ms) => Redis!CollectionCommand
             /\ Redis!Store("zstore", TZSet, ms) => Redis!CollectionCommand
             /\ Redis!TakeFound("spop", TSet, ms) => Redis!CollectionCommand
             /\ Redis!TakeFound("zremrange", TZSet, ms) => Redis!CollectionCommand
  BY DEF Redis!CollectionCommand
<1>3. ASSUME NEW ms \in SUBSET Members, ms # {}
      PROVE  /\ Redis!Add("sadd", TSet, ms, 0) => Redis!CollectionCommand
             /\ Redis!Add("zadd", TZSet, ms, 0) => Redis!CollectionCommand
             /\ Redis!Take("srem", TSet, ms) => Redis!CollectionCommand
             /\ Redis!Take("zrem", TZSet, ms) => Redis!CollectionCommand
             /\ Redis!Take("hdel", THash, ms) => Redis!CollectionCommand
             /\ \A v \in Vals : Redis!Add("hset", THash, ms, v) => Redis!CollectionCommand
  BY <1>3 DEF Redis!CollectionCommand
<1>4. ASSUME NEW m \in Members
      PROVE  /\ Redis!Add("zincr", TZSet, {m}, 0) => Redis!CollectionCommand
             /\ Redis!Increment("hincr", THash, m) => Redis!CollectionCommand
             /\ \A v \in Vals : Redis!AddNew("hsetnx", THash, m, v) => Redis!CollectionCommand
  BY DEF Redis!CollectionCommand
<1> QED
  BY <1>1, <1>2, <1>3, <1>4

\* A refusal leaves what is shown as it is and is answered.
LEMMA Refusals ==
    ASSUME NEW op, shown' = shown, now' = now, last' = [op |-> op, n |-> 0]
    PROVE  /\ op \in {"sadd", "srem", "spop"} /\ shown.t \notin {NoType, TSet} => Redis!Next
           /\ op \in {"hset", "hsetnx", "hdel", "hincr"} /\ shown.t \notin {NoType, THash} =>
                Redis!Next
           /\ op \in {"zadd", "zincr", "zrem", "zremrange"} /\ shown.t \notin {NoType, TZSet} =>
                Redis!Next
           /\ op \in {"getset", "incr", "append"} /\ shown.t \notin {NoType, TStr} => Redis!Next
           /\ /\ op \in {"srem", "spop", "hdel", "zrem", "zremrange", "set", "expire",
                         "expirepast", "persist"}
              /\ shown.t = NoType
              => Redis!Next
           /\ op = "set nx" /\ shown.t # NoType => Redis!Next
           /\ /\ op = "hsetnx" /\ shown.t = THash /\ \E m \in Members : shown.data[m] # Gone
              => Redis!Next
           /\ /\ op = "hincr" /\ shown.t = THash
              /\ \E m \in Members : shown.data[m] # Gone /\ shown.data[m] + 1 \notin Vals
              => Redis!Next
           /\ /\ op \in {"incr", "append"} /\ shown.t = TStr /\ shown.data[ValueSK] # Gone
              /\ shown.data[ValueSK] + 1 \notin Vals
              => Redis!Next
<1>1. Redis!Refuse(op)
  BY DEF Redis!Refuse, Redis!Answer
<1>2. Redis!MayRefuse => Redis!Next
  BY DEF Redis!Next
<1>3. Redis!WrongType => Redis!MayRefuse
  BY DEF Redis!MayRefuse
<1>4. Redis!Overflow => Redis!MayRefuse
  BY DEF Redis!MayRefuse
<1>5. /\ op \in {"sadd", "srem", "spop"} /\ shown.t \notin {NoType, TSet} => Redis!WrongType
      /\ op \in {"hset", "hsetnx", "hdel", "hincr"} /\ shown.t \notin {NoType, THash} =>
           Redis!WrongType
      /\ op \in {"zadd", "zincr", "zrem", "zremrange"} /\ shown.t \notin {NoType, TZSet} =>
           Redis!WrongType
      /\ op \in {"getset", "incr", "append"} /\ shown.t \notin {NoType, TStr} => Redis!WrongType
  BY <1>1 DEF Redis!WrongType, Redis!Is
<1>6. /\ op \in {"srem", "spop", "hdel", "zrem", "zremrange", "set", "expire",
                 "expirepast", "persist"} /\ shown.t = NoType
      => Redis!MayRefuse
  BY <1>1 DEF Redis!MayRefuse, Redis!Takers
<1>7. op = "set nx" /\ shown.t # NoType => Redis!MayRefuse
  BY <1>1 DEF Redis!MayRefuse
<1>8. op = "hsetnx" /\ shown.t = THash /\ (\E m \in Members : shown.data[m] # Gone) =>
        Redis!MayRefuse
  BY <1>1 DEF Redis!MayRefuse, Redis!TheMembers
<1>9. /\ op = "hincr" /\ shown.t = THash
      /\ \E m \in Members : shown.data[m] # Gone /\ shown.data[m] + 1 \notin Vals
      => Redis!Overflow
  BY <1>1 DEF Redis!Overflow, Redis!Number
<1>10. /\ op \in {"incr", "append"} /\ shown.t = TStr /\ shown.data[ValueSK] # Gone
       /\ shown.data[ValueSK] + 1 \notin Vals
       => Redis!Overflow
  BY <1>1 DEF Redis!Overflow, Redis!Number
<1> QED
  BY <1>2, <1>3, <1>4, <1>5, <1>6, <1>7, <1>8, <1>9, <1>10

\* The types differ from no type, and a string is no collection.
LEMMA TypesDiffer ==
    /\ NoType \notin Collections /\ TStr \notin Collections /\ TStr # NoType
    /\ Collections \subseteq Types /\ TStr \in Types /\ ValueSK \notin Members
    /\ Members \subseteq SK /\ ValueSK \in SK
  BY ConstantsAssumption, SetAssumption, HashAssumption, ZSetAssumption, StringAssumption,
     SerialAssumption
     DEF Collections, SK

\* Two key records with the same meta item and the same data items.
LEMMA SameKey ==
    ASSUME NEW k \in ItemType, NEW l \in ItemType, k.t = l.t, k.exp = l.exp, k.cnt = l.cnt,
           k.data[ValueSK] = l.data[ValueSK], \A m \in Members : k.data[m] = l.data[m]
    PROVE  k = l
<1>1. k.data = l.data
  <2>1. k.data \in [SK -> Vals \cup {Gone}] /\ l.data \in [SK -> Vals \cup {Gone}]
    BY DEF ItemType
  <2>2. \A sk \in SK : k.data[sk] = l.data[sk]
    BY DEF SK
  <2> QED
    BY <2>1, <2>2
<1>2. /\ k = [t |-> k.t, exp |-> k.exp, cnt |-> k.cnt, data |-> k.data]
      /\ l = [t |-> l.t, exp |-> l.exp, cnt |-> l.cnt, data |-> l.data]
  BY DEF ItemType
<1> QED
  BY <1>1, <1>2

LEMMA AbsentShape ==
    /\ Absent \in ItemType /\ Shapely(Absent) /\ Mem(Absent) = {} /\ Absent.t = NoType
    /\ Absent.exp = 0 /\ Absent.cnt = 0 /\ \A sk \in SK : Absent.data[sk] = Gone
<1>1. /\ Absent \in ItemType /\ Absent.t = NoType /\ Absent.exp = 0 /\ Absent.cnt = 0
      /\ \A sk \in SK : Absent.data[sk] = Gone
  BY DEF Absent, ItemType
<1> QED
  BY <1>1, TypesDiffer DEF Shapely, Mem

\* A whole collection is the abstract specification's collection of its members.
LEMMA CollectionIs ==
    ASSUME NEW type \in Collections, NEW k, Shapely(k), k = Absent \/ k.t = type,
           NEW f, \A m \in Members : f[m] = k.data[m], NEW exp, k # Absent => k.exp = exp
    PROVE  k = Redis!Collection(type, f, exp)
<1> DEFINE there == {m \in Members : f[m] # Gone}
           data == [sk \in SK |-> IF sk \in there THEN f[sk] ELSE Gone]
           l == [t |-> type, exp |-> exp, cnt |-> Cardinality(there), data |-> data]
<1>1. there = Mem(k)
  BY DEF Mem
<1>2. k \in ItemType
  BY DEF Shapely
<1>3. Redis!Collection(type, f, exp) = IF there = {} THEN Absent ELSE l
  <2>1. Redis!NoKey = Absent /\ Redis!SK = SK
    BY DEF Redis!NoKey, Absent, SK, Redis!SK
  <2> QED
    BY <2>1, SameCardinality DEF Redis!Collection
<1>4. CASE k = Absent
  BY <1>1, <1>3, <1>4, AbsentShape
<1>5. CASE k # Absent
  <2>1. /\ k.t = type /\ k.exp = exp /\ k.data[ValueSK] = Gone /\ there # {}
        /\ k.cnt = Cardinality(there)
    BY <1>1, <1>5, TypesDiffer DEF Shapely
  <2>2. k.data \in [SK -> Vals \cup {Gone}] /\ k = [t |-> k.t, exp |-> k.exp, cnt |-> k.cnt, data |-> k.data]
    BY <1>2 DEF ItemType
  <2>3. \A sk \in SK : k.data[sk] = IF sk \in there THEN f[sk] ELSE Gone
    BY <2>1, TypesDiffer DEF SK
  <2>4. k.data = data
    BY <2>2, <2>3
  <2> HIDE DEF there, data
  <2> QED
    BY <1>3, <2>1, <2>2, <2>4
<1> QED
  BY <1>4, <1>5
-----------------------------------------------------------------------------
(***************************************************************************)
(* Adding members: SADD, HSET, HSETNX, HINCRBY, ZADD, ZINCRBY and what the *)
(* STORE commands fill.                                                    *)
(***************************************************************************)

\* Members counted one by one.
LEMMA Counting ==
    ASSUME NEW ms \in SUBSET Members, NEW there \in SUBSET Members
    PROVE  /\ Cardinality(ms \ there) \in Nat /\ Cardinality(ms \cap there) \in Nat
           /\ Cardinality(there \cup ms) = Cardinality(there) + Cardinality(ms \ there)
           /\ Cardinality(there \ ms) = Cardinality(there) - Cardinality(ms \cap there)
           /\ Cardinality(there) \in Nat /\ (Cardinality(there) = 0 <=> there = {})
           /\ Cardinality(ms \ there) = 0 <=> ms \subseteq there
           /\ Cardinality(ms \cap there) = 0 <=> ms \cap there = {}
<1>1. IsFiniteSet(Members)
  BY SerialAssumption
<1>2. /\ IsFiniteSet(ms) /\ IsFiniteSet(there) /\ IsFiniteSet(ms \ there)
      /\ IsFiniteSet(ms \cap there) /\ IsFiniteSet(there \ ms)
  BY <1>1, FS_Subset
<1>3. /\ Cardinality(ms \ there) \in Nat /\ Cardinality(ms \cap there) \in Nat
      /\ Cardinality(there) \in Nat
  BY <1>2, FS_CardinalityType
<1>4. /\ Cardinality(there) = 0 <=> there = {}
      /\ Cardinality(ms \ there) = 0 <=> ms \ there = {}
      /\ Cardinality(ms \cap there) = 0 <=> ms \cap there = {}
  BY <1>2, FS_EmptySet
<1>5. Cardinality(there \cup ms) = Cardinality(there) + Cardinality(ms \ there)
  <2>1. there \cup (ms \ there) = there \cup ms /\ there \cap (ms \ there) = {}
    OBVIOUS
  <2>2. Cardinality(there \cup (ms \ there)) =
          Cardinality(there) + Cardinality(ms \ there) - Cardinality(there \cap (ms \ there))
    BY <1>2, FS_Union
  <2>3. Cardinality(there \cap (ms \ there)) = 0
    BY <2>1, FS_EmptySet
  <2>4. Cardinality(there \cup (ms \ there)) = Cardinality(there \cup ms)
    BY <2>1
  <2> DEFINE all == Cardinality(there \cup (ms \ there))
             new == Cardinality(ms \ there)
             both == Cardinality(there \cap (ms \ there))
             old == Cardinality(there)
  <2>5. all = old + new - both /\ both = 0 /\ old \in Nat /\ new \in Nat
    BY <1>3, <2>2, <2>3
  <2>6. all = old + new
    <3> HIDE DEF all, new, both, old
    <3> QED
      BY <2>5
  <2> QED
    BY <2>4, <2>6
<1>6. Cardinality(there \ ms) = Cardinality(there) - Cardinality(ms \cap there)
  <2>1. Cardinality(there \ ms) = Cardinality(there) - Cardinality(there \cap ms)
    BY <1>2, FS_Difference
  <2>2. there \cap ms = ms \cap there
    OBVIOUS
  <2> QED
    BY <2>1, <2>2
<1> QED
  BY <1>3, <1>4, <1>5, <1>6

\* One member more.
LEMMA CountOne ==
    ASSUME NEW ms \in SUBSET Members, NEW there \in SUBSET Members, NEW m \in ms
    PROVE  Cardinality((ms \ {m}) \ there) =
             IF m \in there THEN Cardinality(ms \ there) ELSE Cardinality(ms \ there) - 1
<1>1. IsFiniteSet(Members)
  BY SerialAssumption
<1>2. IsFiniteSet(ms \ there)
  BY <1>1, FS_Subset
<1>3. CASE m \in there
  <2>1. (ms \ {m}) \ there = ms \ there
    BY <1>3
  <2> QED
    BY <1>3, <2>1
<1>4. CASE m \notin there
  <2>1. (ms \ {m}) \ there = (ms \ there) \ {m}
    BY <1>4
  <2>2. Cardinality((ms \ there) \ {m}) = Cardinality(ms \ there) - 1
    BY <1>2, <1>4, FS_RemoveElement
  <2> QED
    BY <1>4, <2>1, <2>2
<1> QED
  BY <1>3, <1>4

\* The same for the members that are there.
LEMMA CountCommon ==
    ASSUME NEW ms \in SUBSET Members, NEW there \in SUBSET Members, NEW m \in ms
    PROVE  Cardinality((ms \ {m}) \cap there) =
             IF m \in there THEN Cardinality(ms \cap there) - 1 ELSE Cardinality(ms \cap there)
<1>1. IsFiniteSet(Members)
  BY SerialAssumption
<1>2. IsFiniteSet(ms \cap there)
  BY <1>1, FS_Subset
<1>3. CASE m \in there
  <2>1. (ms \ {m}) \cap there = (ms \cap there) \ {m}
    BY <1>3
  <2>2. Cardinality((ms \cap there) \ {m}) = Cardinality(ms \cap there) - 1
    BY <1>2, <1>3, FS_RemoveElement
  <2> QED
    BY <1>3, <2>1, <2>2
<1>4. CASE m \notin there
  <2>1. (ms \ {m}) \cap there = ms \cap there
    BY <1>4
  <2> QED
    BY <1>4, <2>1
<1> QED
  BY <1>3, <1>4

\* The count of a shapely key without a value is the number of its members.
LEMMA CountIs ==
    ASSUME NEW k, Shapely(k), k.t # TStr
    PROVE  /\ k.cnt = Cardinality(Mem(k)) /\ k.data[ValueSK] = Gone /\ Mem(k) \in SUBSET Members
           /\ k = Absent \/ (k.t \in Collections /\ Mem(k) # {})
<1>1. CASE k = Absent
  <2>1. Cardinality({}) = 0
    BY FS_EmptySet
  <2> QED
    BY <1>1, <2>1, AbsentShape, TypesDiffer
<1>2. CASE k # Absent
  BY <1>2 DEF Shapely, Mem
<1> QED
  BY <1>1, <1>2

\* The labels and types of the commands that add.
LEMMA AddTypes ==
    ASSUME NEW op \in AddOps
    PROVE  AddType(op) \in Collections /\ AddType(op) \in Types /\ AddType(op) # NoType
  BY TypesDiffer DEF AddType, Collections

\* A meta item that ensureTypeExpiring leaves is a key nothing is written to yet.
LEMMA ReadyFills ==
    ASSUME NEW r, r.op \in AddOps, NEW from, Shapely(from), NEW k, Ready(k, from, AddType(r.op))
    PROVE  Filled(r, k, from, {})
<1>1. AddType(r.op) \in Collections /\ AddType(r.op) \in Types
  BY AddTypes
<1>2. from \in ItemType /\ from.t \in {NoType, AddType(r.op)} /\ from.t # TStr
  BY <1>1, TypesDiffer DEF Shapely, Ready
<1>3. k = [t |-> AddType(r.op), exp |-> from.exp, cnt |-> from.cnt + 0, data |-> from.data]
  BY DEF Ready, EnsureType
<1>4. from.cnt + 0 = from.cnt /\ from.cnt \in Int
  BY <1>2 DEF ItemType
<1>5. k \in ItemType
  BY <1>1, <1>2, <1>3, <1>4 DEF ItemType
<1>6. from.data[ValueSK] = Gone
  BY <1>2, CountIs
<1> QED
  BY <1>2, <1>3, <1>4, <1>5, <1>6 DEF Filled

\* What a command leaves when the count is updated by the members that were new: the
\* collection Redis has.
LEMMA AddedKey ==
    ASSUME NEW r, r.op \in AddOps, r.val \in Vals, NEW from, Shapely(from),
           NEW done \in SUBSET Members, done # {}, NEW k, Filled(r, k, from, done),
           NEW l, l = EnsureType(k, AddType(r.op), New(done, from))
    PROVE  /\ Shapely(l) /\ l.t = AddType(r.op) /\ l.exp = from.exp
           /\ \A m \in Members : l.data[m] = IF m \in done THEN r.val ELSE from.data[m]
<1>1. AddType(r.op) \in Collections /\ AddType(r.op) \in Types
  BY AddTypes
<1>2. from.t # TStr /\ k \in ItemType /\ from \in ItemType
  BY <1>1, TypesDiffer DEF Filled, Shapely
<1>3. from.cnt = Cardinality(Mem(from)) /\ Mem(from) \in SUBSET Members
  BY <1>2, CountIs
<1>4. l = [t |-> AddType(r.op), exp |-> from.exp,
           cnt |-> Cardinality(Mem(from)) + Cardinality(done \ Mem(from)), data |-> k.data]
  BY <1>3 DEF EnsureType, Filled, New
<1>5. l.cnt = Cardinality(Mem(from) \cup done) /\ l.cnt \in Int
  <2> DEFINE there == Mem(from)
  <2>1. there \in SUBSET Members
    BY <1>3
  <2> HIDE DEF there
  <2>2. /\ Cardinality(there \cup done) = Cardinality(there) + Cardinality(done \ there)
        /\ Cardinality(there) \in Nat /\ Cardinality(done \ there) \in Nat
    BY <2>1, Counting
  <2>3. l.cnt = Cardinality(there) + Cardinality(done \ there)
    BY <1>4 DEF there
  <2> QED
    BY <2>2, <2>3 DEF there
<1>6. \A m \in Members : l.data[m] = IF m \in done THEN r.val ELSE from.data[m]
  BY <1>4 DEF Filled
<1>7. Mem(l) = Mem(from) \cup done
  BY <1>3, <1>6, ConstantsAssumption DEF Mem
<1>8. l \in ItemType
  <2>1. l.t \in Types /\ l.exp \in Nat /\ l.data \in [SK -> Vals \cup {Gone}]
    BY <1>1, <1>2, <1>4 DEF ItemType
  <2> QED
    BY <1>4, <1>5, <2>1 DEF ItemType
<1>9. l.data[ValueSK] = Gone
  BY <1>4 DEF Filled
<1>10. l.t = AddType(r.op) /\ l.exp = from.exp
  BY <1>4
<1>11. Mem(l) # {} /\ l.cnt = Cardinality(Mem(l))
  BY <1>5, <1>7
<1> QED
  BY <1>1, <1>6, <1>8, <1>9, <1>10, <1>11 DEF Shapely
\* Members counted are a number.
LEMMA NewType ==
    ASSUME NEW ms \in SUBSET Members, NEW from
    PROVE  New(ms, from) \in Nat
<1> DEFINE there == Mem(from)
<1>1. there \in SUBSET Members
  BY DEF Mem
<1> HIDE DEF there
<1> QED
  BY <1>1, Counting DEF New, there

\* Where an adding command is, from its label.
LEMMA AddAt ==
    ASSUME NEW r, NEW k, NEW s, NEW t, AddPhase(r, k, s, t)
    PROVE  /\ r.op \in AddOps
           /\ r.pc = "ensure" => AddEnsure(r, k, s, t)
           /\ r.pc \in {"list", "reclaim"} => AddReclaim(r, k, s)
           /\ r.pc \in {"isnew", "read"} => AddRead(r, k, s)
           /\ r.pc = "cas" => AddCas(r, k, s)
           /\ r.pc = "write" => AddWrite(r, k, s)
           /\ r.pc = "adjust" => AddAdjust(r, k, s)
           /\ r.pc \in {"ensure", "list", "reclaim", "isnew", "read", "cas", "write", "adjust"}
  BY DEF AddPhase, AddEnsure, AddReclaim, Reclaims, AddRead, AddNext, AddCas, AddWrite, AddAdjust

\* The facts of a client record that an adding command's phase rests on.
LEMMA AddKeeps ==
    ASSUME NEW q, NEW r, q.op = r.op, q.val = r.val
    PROVE  /\ \A s : From(q, s) = From(r, s)
           /\ \A ms : Given(r, ms) => Given(q, ms)
           /\ \A k, from, done : Filled(r, k, from, done) => Filled(q, k, from, done)
  BY DEF From, Given, Filled

LEMMA FromShapely ==
    ASSUME NEW r, NEW s, NEW t, Shows(s, t)
    PROVE  /\ Shapely(From(r, s)) /\ (From(r, s) = Absent \/ Live(From(r, s), t))
           /\ r.op \notin Stores => From(r, s) = s
           /\ r.op \in Stores => From(r, s) = Absent
  BY AbsentShape DEF From, Shows

\* The type is ensured and nothing is written yet.
LEMMA AddStarts ==
    ASSUME NEW c \in Clients, Context(c), now' = now, cl[c].op \in AddOps,
           cl[c].n = 0, Given(cl[c], cl[c].args),
           Filled(cl[c], item', From(cl[c], shown), {}),
           cl'[c].pc = AddNext(cl[c].op), Keeps(cl'[c], cl[c])
    PROVE  Good(c)
<1> DEFINE r == cl[c]
           q == cl'[c]
<1>1. q.op = r.op /\ q.val = r.val /\ q.args = r.args /\ q.n = r.n
  BY DEF Keeps
<1>2. From(q, shown) = From(r, shown) /\ Given(q, q.args) /\ Filled(q, item', From(q, shown), {})
  BY <1>1, AddKeeps
<1>3. q.args # {}
  BY <1>2 DEF Given
<1>4. CASE r.op \in {"hincr", "zincr"}
  BY <1>1, <1>2, <1>4, Goes DEF Phase, AddPhase, AddRead, AddNext
<1>5. CASE r.op \notin {"hincr", "zincr"}
  <2>1. q.pc = "write"
    BY <1>5 DEF AddNext
  <2>2. New({}, From(q, shown)) = 0
    <3>1. {} \ Mem(From(q, shown)) = {}
      OBVIOUS
    <3> QED
      BY <3>1, FS_EmptySet DEF New
  <2>3. {} \cup q.args = q.args /\ {} \cap q.args = {} /\ {} \in SUBSET Members
    OBVIOUS
  <2>4. AddWrite(q, item', shown)
    BY <1>1, <1>2, <1>3, <1>5, <2>1, <2>2, <2>3 DEF AddWrite
  <2> QED
    BY <1>1, <2>1, <2>4, Goes DEF Phase, AddPhase
<1> QED
  BY <1>4, <1>5

\* The members are written and the count is updated by those that were new.
LEMMA AddEnds ==
    ASSUME NEW c \in Clients, Context(c), now' = now, cl[c].op \in AddOps, cl[c].pc # "idle",
           cl'[c].pc = "idle", cl[c].val \in Vals,
           NEW done \in SUBSET Members, Given(cl[c], done),
           NEW k, Filled(cl[c], k, From(cl[c], shown), done),
           cl[c].n = New(done, From(cl[c], shown)),
           cl[c].op = "hsetnx" => done \cap Mem(shown) = {},
           cl[c].op = "hincr" => \A m \in done : cl[c].val = Base(shown.data[m]) + 1,
           item' = EnsureType(k, AddType(cl[c].op), cl[c].n)
    PROVE  Good(c)
<1> DEFINE r == cl[c]
           type == AddType(r.op)
           from == From(r, shown)
<1>1. /\ Shapely(from) /\ (from = Absent \/ Live(from, now))
      /\ r.op \notin Stores => from = shown
      /\ r.op \in Stores => from = Absent
  BY ContextTypes, FromShapely
<1>2. done # {}
  BY DEF Given
<1>3. /\ Shapely(item') /\ item'.t = type /\ item'.exp = from.exp
      /\ \A m \in Members : item'.data[m] = IF m \in done THEN r.val ELSE from.data[m]
  BY <1>1, <1>2, AddedKey
<1>4. type \in Collections
  BY AddTypes
<1>5. item' # Absent /\ Live(item', now)
  BY <1>1, <1>3, <1>4, AbsentShape, TypesDiffer DEF Live, HasMeta, IsExpired
<1>6. ASSUME shown' = item', last' = [op |-> r.op, n |-> r.n]
      PROVE  Redis!Next
  <2>1. CASE r.op \in Stores
    <3> DEFINE g == [m \in Members |-> IF m \in done THEN 0 ELSE Gone]
    <3>1. \A m \in Members : g[m] = item'.data[m]
      BY <1>1, <1>3, <2>1, AbsentShape, TypesDiffer DEF Given, Stores
    <3>2. item'.exp = 0
      BY <1>1, <1>3, <2>1, AbsentShape
    <3> HIDE DEF g
    <3>3. item' = Redis!Collection(type, g, 0)
      BY <1>3, <1>4, <3>1, <3>2, CollectionIs
    <3>4. r.n = Cardinality(done)
      <4>1. done \ Mem(from) = done
        BY <1>1, <2>1, AbsentShape
      <4> QED
        BY <4>1 DEF New
    <3>5. Redis!Store(r.op, type, done)
      BY <1>6, <3>3, <3>4, SameCardinality DEF Redis!Store, Redis!Answer, g
    <3> QED
      BY <2>1, <3>5, CollectionCommands DEF Stores, AddType
  <2>2. CASE r.op \notin Stores
    <3> DEFINE g == [m \in Members |-> IF m \in done THEN r.val ELSE shown.data[m]]
    <3>2. \A m \in Members : g[m] = item'.data[m]
      BY <1>1, <1>3, <2>2
    <3> HIDE DEF g
    <3>3. item' = Redis!Collection(type, g, shown.exp)
      BY <1>1, <1>3, <1>4, <2>2, <3>2, CollectionIs
    <3>4. Redis!Is(type)
      BY <1>1, <2>2 DEF Redis!Is, Filled
    <3>5. Redis!TheMembers = Mem(shown)
      BY DEF Redis!TheMembers, Mem
    <3>6. Redis!Add(r.op, type, done, r.val)
      BY <1>1, <1>6, <2>2, <3>3, <3>4, <3>5, SameCardinality DEF Redis!Add, Redis!Answer, New, g
    <3>7. CASE r.op \in {"sadd", "zadd", "hset"}
      BY <1>2, <3>6, <3>7, CollectionCommands DEF AddType, Given
    <3>8. CASE r.op \in {"zincr", "hincr", "hsetnx"}
      <4>1. PICK m \in Members : done = {m}
        BY <3>8 DEF Given
      <4>2. CASE r.op = "zincr"
        BY <3>6, <4>1, <4>2, CollectionCommands DEF AddType, Given
      <4>3. CASE r.op = "hsetnx"
        <5>1. m \notin Redis!TheMembers
          BY <3>5, <4>1, <4>3
        <5>2. Redis!AddNew("hsetnx", THash, m, r.val)
          BY <3>6, <4>1, <4>3, <5>1 DEF Redis!AddNew, AddType
        <5> QED
          BY <5>2, CollectionCommands
      <4>4. CASE r.op = "hincr"
        <5>1. r.val = Redis!Number(m) + 1
          BY <4>1, <4>4 DEF Redis!Number, Base
        <5>2. Redis!Increment("hincr", THash, m)
          BY <3>6, <4>1, <4>4, <5>1 DEF Redis!Increment, AddType
        <5> QED
          BY <5>2, CollectionCommands
      <4> QED
        BY <3>8, <4>2, <4>3, <4>4
    <3> QED
      BY <2>2, <3>7, <3>8 DEF AddOps
  <2> QED
    BY <2>1, <2>2
<1> QED
  BY <1>3, <1>5, <1>6, Ends
\* ensureTypeExpiring and the reclaim of an expired key's items.
LEMMA AddEnsureSteps ==
    ASSUME NEW c \in Clients, Context(c), AddPhase(cl[c], item, shown, now),
           \/ EnsureTypeExpiringStep(c, AddType(cl[c].op), AddNext(cl[c].op))
           \/ DeleteMembersSteps(c)
    PROVE  Good(c)
<1> DEFINE r == cl[c]
           q == cl'[c]
           type == AddType(r.op)
           from == From(r, shown)
<1>1. /\ r.op \in AddOps /\ type \in Types /\ AddNext(r.op) # "idle"
      /\ AddNext(r.op) \notin {"list", "reclaim"}
  BY AddAt, AddTypes DEF AddNext
<1>2. /\ Shapely(from) /\ (r.op \notin Stores => from = shown)
      /\ (r.op \in Stores => from = Absent) /\ item \in ItemType
  BY ContextTypes, FromShapely
<1>3. ASSUME now' = now, Keeps(q, r), r.n = 0, Given(r, r.args), from = Absent,
             Reclaims(q, AddNext(r.op), item'), Hollow(item', type)
      PROVE  Good(c)
  <2>1. q.op = r.op /\ q.val = r.val /\ q.args = r.args /\ q.n = r.n
    BY <1>3 DEF Keeps
  <2>2. From(q, shown) = Absent /\ Given(q, q.args)
    BY <1>3, <2>1, AddKeeps
  <2>3. AddReclaim(q, item', shown) /\ q.pc # "idle"
    BY <1>3, <2>1, <2>2 DEF AddReclaim, Reclaims
  <2> QED
    BY <1>1, <1>3, <2>1, <2>3, Goes DEF Phase, AddPhase
<1>4. CASE EnsureTypeExpiringStep(c, type, AddNext(r.op))
  <2>1. AddEnsure(r, item, shown, now) /\ r.pc = "ensure"
    BY <1>4, AddAt DEF EnsureTypeExpiringStep, At
  <2>2. r.n = 0 /\ Given(r, r.args)
    BY <2>1 DEF AddEnsure
  <2>3. r.op \in Stores => item = Absent
    BY <2>1 DEF AddEnsure
  <2>4. r.op \notin Stores => Whole(item, shown, now)
    BY <2>1 DEF AddEnsure
  <2>5. Shapely(item) /\ ~Live(Absent, now)
    BY <2>3, <2>4, AbsentShape DEF Whole, Live, HasMeta
  <2>6. CASE /\ q.pc = "idle" /\ item' = item /\ Live(item, now) /\ item.t \notin {NoType, type}
             /\ now' = now
    <3>1. r.op \notin Stores /\ shown = item /\ Whole(item, shown, now)
      BY <2>3, <2>4, <2>5, <2>6 DEF Whole
    <3>2. ASSUME shown' = shown, last' = [op |-> r.op, n |-> r.n]
          PROVE  Redis!Next
      BY <1>1, <2>2, <2>6, <3>1, <3>2, Refusals DEF AddOps, AddType
    <3> QED
      BY <2>1, <2>6, <3>1, <3>2, EndsUnchanged
  <2>7. CASE /\ Reclaims(q, AddNext(r.op), item') /\ Keeps(q, r) /\ Hollow(item', type)
             /\ ~Live(item, now) /\ now' = now
    <3>1. from = Absent
      BY <1>2, <2>4, <2>7 DEF Whole
    <3> QED
      BY <1>3, <2>2, <2>7, <3>1
  <2>8. CASE /\ q.pc = AddNext(r.op) /\ Keeps(q, r) /\ Ready(item', item, type)
             /\ (item = Absent \/ Live(item, now)) /\ now' = now
    <3>1. from = item
      BY <1>2, <2>3, <2>4, <2>5, <2>8 DEF Whole
    <3>2. Filled(r, item', from, {})
      BY <1>1, <1>2, <2>8, <3>1, ReadyFills
    <3> QED
      BY <1>1, <2>2, <2>8, <3>2, AddStarts
  <2> QED
    BY <1>1, <1>4, <2>5, <2>6, <2>7, <2>8, EnsureSteps
<1>5. CASE DeleteMembersSteps(c)
  <2>1. r.pc \in {"list", "reclaim"}
    BY <1>5 DEF DeleteMembersSteps, ListStep, ReclaimStep, At
  <2>2. AddReclaim(r, item, shown)
    BY <2>1, AddAt
  <2>3. /\ Reclaims(r, AddNext(r.op), item) /\ r.n = 0 /\ Given(r, r.args)
        /\ Hollow(item, type) /\ from = Absent
    BY <2>2 DEF AddReclaim
  <2>4. CASE Reclaims(q, AddNext(r.op), item') /\ item' = item /\ Keeps(q, r) /\ now' = now
    BY <1>3, <2>3, <2>4
  <2>5. CASE /\ item' = Remove(item, Present(item)) /\ q.pc = AddNext(r.op) /\ Keeps(q, r)
             /\ now' = now
    <3>1. item' = EnsureType(Absent, type, 0)
      BY <1>1, <1>2, <2>3, <2>5, Leaves
    <3>2. Ready(item', from, type)
      BY <2>3, <3>1, AbsentShape DEF Ready
    <3>3. Filled(r, item', from, {})
      BY <1>1, <1>2, <3>2, ReadyFills
    <3> QED
      BY <1>1, <2>3, <2>5, <3>3, AddStarts
  <2> QED
    BY <1>1, <1>5, <2>3, <2>4, <2>5, ReclaimSteps
<1> QED
  BY <1>4, <1>5

\* A key that nothing was written to is what is shown.
LEMMA NothingFilled ==
    ASSUME NEW c \in Clients, Context(c), cl[c].op \in AddOps, cl[c].op \notin Stores,
           Filled(cl[c], item, shown, {}), NEW m \in Members, item.data[m] # Gone
    PROVE  Whole(item, shown, now) /\ item = shown /\ shown.t = AddType(cl[c].op)
<1> DEFINE type == AddType(cl[c].op)
<1>1. /\ item \in ItemType /\ shown \in ItemType /\ type # NoType /\ type \in Collections
      /\ Shows(shown, now)
  BY AddTypes, ContextTypes
<1>2. \A x \in Members : item.data[x] = shown.data[x]
  BY DEF Filled
<1>3. shown # Absent
  BY <1>2, AbsentShape, TypesDiffer
<1>4. shown.t = type /\ shown.data[ValueSK] = Gone
  BY <1>1, <1>3, TypesDiffer DEF Shows, Shapely, Filled
<1>5. item = shown
  BY <1>1, <1>2, <1>4, SameKey DEF Filled
<1> QED
  BY <1>1, <1>3, <1>4, <1>5 DEF Whole, Shows

\* One member written.
LEMMA AddWriteSteps ==
    ASSUME NEW c \in Clients, Context(c), AddPhase(cl[c], item, shown, now),
           NEW counted \in BOOLEAN, counted <=> cl[c].op # "zincr",
           WriteMember(c, counted),
           cl[c].op = "hsetnx" => ~FieldThere(c)
    PROVE  Good(c)
<1> DEFINE r == cl[c]
           q == cl'[c]
           from == From(r, shown)
<1>1. /\ r.op \in AddOps /\ r.pc = "write" /\ AddWrite(r, item, shown) /\ now' = now
      /\ AddType(r.op) \in Collections
  BY AddAt, AddTypes DEF WriteMember, At, ClientStep
<1>2. PICK done \in SUBSET Members :
        /\ Given(r, done \cup r.args) /\ done \cap r.args = {}
        /\ Filled(r, item, from, done)
        /\ r.n = New(IF r.op = "zincr" THEN done \cup r.args ELSE done, from)
  BY <1>1 DEF AddWrite
<1>3. PICK m \in r.args :
        /\ item' = Put(item, m, r.val)
        /\ cl' = [cl EXCEPT ![c].args = r.args \ {m},
                            ![c].n = IF item.data[m] = Gone /\ counted THEN @ + 1 ELSE @,
                            ![c].pc = IF r.args \ {m} = {} THEN "adjust" ELSE "write"]
  BY DEF WriteMember
<1>4. /\ r.args \in SUBSET Members /\ r.n \in Int /\ r.val \in Vals \cup {Gone}
      /\ item \in ItemType /\ shown \in ItemType /\ r.op \in Writers
  BY <1>1, <1>2, ContextTypes, ClientFields DEF AddOps, Stores, Writers, AddWrite, ClientType
<1>5. /\ Mem(from) \in SUBSET Members /\ (r.op \notin Stores => from = shown)
  BY ContextTypes, FromShapely DEF Mem
<1>6. /\ q.pc = (IF r.args \ {m} = {} THEN "adjust" ELSE "write")
      /\ q.n = (IF item.data[m] = Gone /\ counted THEN r.n + 1 ELSE r.n)
      /\ q.args = r.args \ {m} /\ q.op = r.op /\ q.val = r.val
  <2>1. cl[c] \in ClientType /\ DOMAIN cl = Clients
    BY ContextTypes
  <2> QED
    BY <1>3, <2>1 DEF ClientType
<1> DEFINE more == done \cup {m}
<1>7. /\ more \in SUBSET Members /\ more \cup q.args = done \cup r.args /\ more \cap q.args = {}
      /\ more \ {m} = done /\ m \in more /\ m \in Members /\ m \notin done
  BY <1>2, <1>3, <1>4, <1>6
<1>8. Filled(q, item', from, more)
  <2>1. Put(item, m, r.val) \in ItemType
    BY <1>4, <1>7, PrimitiveTypes, TypesDiffer
  <2>2. /\ item'.t = item.t /\ item'.exp = item.exp /\ item'.cnt = item.cnt
        /\ \A x \in SK : item'.data[x] = IF x = m THEN r.val ELSE item.data[x]
    BY <1>3, <1>4, <1>7, TypesDiffer DEF Put, ItemType
  <2>3. item'.data[ValueSK] = Gone
    BY <1>2, <1>7, <2>2, TypesDiffer DEF Filled
  <2>4. \A x \in Members : item'.data[x] = IF x \in more THEN r.val ELSE from.data[x]
    BY <1>2, <2>2, TypesDiffer DEF Filled
  <2> QED
    BY <1>2, <1>3, <1>6, <2>1, <2>2, <2>3, <2>4 DEF Filled
<1>9. item.data[m] = Gone <=> m \notin Mem(from)
  BY <1>2, <1>7 DEF Filled, Mem
<1>10. q.n = New(IF r.op = "zincr" THEN more \cup q.args ELSE more, from)
  <2>1. CASE r.op = "zincr"
    BY <1>2, <1>6, <1>7, <2>1
  <2>2. CASE r.op # "zincr"
    <3> DEFINE there == Mem(from)
    <3>0. there \in SUBSET Members /\ more \in SUBSET Members /\ m \in more
      BY <1>5, <1>7
    <3> HIDE DEF there, more
    <3>1. Cardinality((more \ {m}) \ there) =
            IF m \in there THEN Cardinality(more \ there) ELSE Cardinality(more \ there) - 1
      BY <3>0, CountOne
    <3>2. Cardinality(more \ there) \in Nat
      BY <3>0, Counting
    <3>3. r.n = Cardinality((more \ {m}) \ there)
      BY <1>2, <1>7, <2>2 DEF New, there
    <3>4. q.n = IF m \in there THEN r.n ELSE r.n + 1
      BY <1>6, <1>9, <2>2 DEF there
    <3>5. q.n = Cardinality(more \ there)
      <4> DEFINE all == Cardinality(more \ there)
                 old == Cardinality((more \ {m}) \ there)
      <4>1. /\ old = IF m \in there THEN all ELSE all - 1
            /\ all \in Nat /\ r.n = old
            /\ q.n = IF m \in there THEN r.n ELSE r.n + 1
        BY <3>1, <3>2, <3>3, <3>4
      <4> HIDE DEF all, old, q, r
      <4> QED
        BY <4>1 DEF all
    <3> QED
      BY <2>2, <3>5 DEF New, there
  <2> QED
    BY <2>1, <2>2
<1>11. From(q, shown) = from /\ Given(q, more \cup q.args)
  BY <1>2, <1>6, <1>7, AddKeeps
<1>12. CASE r.args \ {m} # {}
  <2>1. AddWrite(q, item', shown)
    BY <1>1, <1>6, <1>7, <1>8, <1>10, <1>11, <1>12 DEF AddWrite
  <2> QED
    BY <1>1, <1>6, <1>12, <2>1, Goes DEF Phase, AddPhase
<1>13. CASE r.args \ {m} = {}
  <2>1. more \cup q.args = more
    BY <1>6, <1>13
  <2>2. r.op = "hsetnx" => more \cap Mem(shown) = {}
    <3>1. ASSUME r.op = "hsetnx"
          PROVE  more \cap Mem(shown) = {}
      <4>1. PICK f \in Members : done \cup r.args = {f}
        BY <1>2, <3>1 DEF Given
      <4>2. more = {m} /\ r.args = {m}
        BY <1>3, <1>7, <4>1
      <4>3. item.data[m] = Gone
        BY <1>1, <3>1, <4>2 DEF FieldThere, At
      <4>4. from = shown
        BY <1>5, <3>1 DEF Stores
      <4> QED
        BY <1>9, <4>2, <4>3, <4>4
    <3> QED
      BY <3>1
  <2>3. q.n = New(more, from) /\ Given(q, more) /\ q.op # "hincr"
    BY <1>1, <1>6, <1>10, <1>11, <2>1 DEF AddWrite
  <2>5. q.val \in Vals
    BY <1>4, <1>6, ContextTypes DEF ClientInv
  <2>4. AddAdjust(q, item', shown)
    BY <1>6, <1>7, <1>8, <1>11, <1>13, <2>2, <2>3, <2>5 DEF AddAdjust
  <2> QED
    BY <1>1, <1>6, <1>13, <2>4, Goes DEF Phase, AddPhase
<1> QED
  BY <1>12, <1>13
\* Store.ZIncrBy's ZSCORE.
LEMMA ZIncrReadStep ==
    ASSUME NEW c \in Clients, Context(c), AddPhase(cl[c], item, shown, now),
           cl[c].op = "zincr", ZIncrRead(c)
    PROVE  Good(c)
<1> DEFINE r == cl[c]
           q == cl'[c]
           from == From(r, shown)
<1>1. r.pc = "isnew" /\ AddRead(r, item, shown) /\ now' = now /\ item' = item
  BY AddAt DEF ZIncrRead, At, LocalStep, ClientStep
<1>2. Given(r, r.args) /\ Filled(r, item, from, {}) /\ r.args \in SUBSET Members
  BY <1>1, ContextTypes, ClientFields DEF AddRead
<1>3. PICK m \in Members : r.args = {m}
  BY <1>2 DEF Given
<1>4. cl' = [cl EXCEPT ![c].pc = "write", ![c].n = IF item.data[m] = Gone THEN 1 ELSE 0]
  BY <1>3 DEF ZIncrRead
<1>5. /\ q.pc = "write" /\ q.n = (IF item.data[m] = Gone THEN 1 ELSE 0)
      /\ q.op = r.op /\ q.val = r.val /\ q.args = r.args
  <2>1. cl[c] \in ClientType /\ DOMAIN cl = Clients
    BY ContextTypes
  <2> QED
    BY <1>4, <2>1 DEF ClientType
<1>6. From(q, shown) = from /\ Given(q, {} \cup q.args) /\ Filled(q, item', from, {})
  <2>1. {} \cup q.args = r.args
    BY <1>5
  <2> QED
    BY <1>1, <1>2, <1>5, <2>1, AddKeeps
<1>7. item.data[m] = Gone <=> m \notin Mem(from)
  BY <1>2, <1>3 DEF Filled, Mem
<1>8. q.n = New({} \cup q.args, from)
  <2>1. CASE m \in Mem(from)
    <3>1. ({} \cup q.args) \ Mem(from) = {}
      BY <1>3, <1>5, <2>1
    <3> QED
      BY <1>5, <1>7, <2>1, <3>1, FS_EmptySet DEF New
  <2>2. CASE m \notin Mem(from)
    <3>1. ({} \cup q.args) \ Mem(from) = {m}
      BY <1>3, <1>5, <2>2
    <3> QED
      BY <1>5, <1>7, <2>2, <3>1, FS_Singleton DEF New
  <2> QED
    BY <2>1, <2>2
<1>9. AddWrite(q, item', shown)
  <2>1. {} \cap q.args = {} /\ {} \in SUBSET Members /\ q.args # {}
    BY <1>3, <1>5
  <2> QED
    BY <1>5, <1>6, <1>8, <2>1 DEF AddWrite
<1> QED
  BY <1>1, <1>5, <1>9, Goes DEF Phase, AddPhase, AddOps

\* HINCRBY's read: a field whose value would overflow refuses.
LEMMA HIncrReadStep ==
    ASSUME NEW c \in Clients, Context(c), AddPhase(cl[c], item, shown, now),
           cl[c].op = "hincr", NEW f \in cl[c].args, IncrRead(c, f)
    PROVE  Good(c)
<1> DEFINE r == cl[c]
           q == cl'[c]
<1>1. r.pc = "read" /\ AddRead(r, item, shown) /\ now' = now /\ item' = item
  BY AddAt DEF IncrRead, At, LocalStep, ClientStep
<1>2. /\ Given(r, r.args) /\ Filled(r, item, shown, {}) /\ r.n = 0 /\ f \in Members
      /\ r.op \in AddOps /\ r.op \notin Stores
  BY <1>1, ContextTypes, ClientFields DEF AddRead, From, AddOps, Stores
<1>3. CASE Base(item.data[f]) + 1 \in Vals
  <2>1. cl' = [cl EXCEPT ![c] = [@ EXCEPT !.pc = "cas", !.seen = item.data[f],
                                          !.val = Base(item.data[f]) + 1]]
    BY <1>3 DEF IncrRead
  <2>2. /\ q.pc = "cas" /\ q.seen = item.data[f] /\ q.op = r.op /\ q.n = r.n /\ q.args = r.args
    <3>1. cl[c] \in ClientType /\ DOMAIN cl = Clients
      BY ContextTypes
    <3> QED
      BY <2>1, <3>1 DEF ClientType
  <2>3. Given(q, q.args) /\ Filled(q, item', From(q, shown), {})
    BY <1>1, <1>2, <2>2 DEF Given, Filled, From
  <2>4. \A m \in q.args : q.seen = item'.data[m]
    BY <1>1, <1>2, <2>2 DEF Given
  <2>5. AddCas(q, item', shown)
    BY <1>2, <2>2, <2>3, <2>4 DEF AddCas
  <2> QED
    BY <1>1, <1>2, <2>2, <2>5, Goes DEF Phase, AddPhase
<1>4. CASE Base(item.data[f]) + 1 \notin Vals
  <2>1. Return(c) /\ q.pc = "idle"
    BY <1>4, ContextTypes, Moves DEF IncrRead
  <2>2. item.data[f] # Gone /\ item.data[f] + 1 \notin Vals
    <3>1. ASSUME item.data[f] = Gone
          PROVE  FALSE
      <4>1. Base(item.data[f]) = 0 /\ 0 + 1 = 1
        BY <3>1 DEF Base
      <4> QED
        BY <1>4, <4>1, SerialAssumption
    <3> QED
      BY <1>4, <3>1 DEF Base
  <2>3. Whole(item, shown, now) /\ shown.t = THash /\ shown.data[f] = item.data[f]
    <3>1. Whole(item, shown, now) /\ item = shown /\ shown.t = AddType(r.op)
      BY <1>2, <2>2, NothingFilled
    <3> QED
      BY <3>1 DEF AddType
  <2> QED
    BY <1>1, <1>2, <2>1, <2>2, <2>3, EndsUnchanged, Refusals
<1> QED
  BY <1>3, <1>4

\* HINCRBY's compare-and-set, which one connection never loses.
LEMMA HIncrCasStep ==
    ASSUME NEW c \in Clients, Context(c), AddPhase(cl[c], item, shown, now),
           cl[c].op = "hincr", NEW f \in cl[c].args, CompareAndSet(c, "cas", "read", f)
    PROVE  Good(c)
<1> DEFINE r == cl[c]
           q == cl'[c]
<1>1. r.pc = "cas" /\ AddCas(r, item, shown) /\ now' = now
  BY AddAt DEF CompareAndSet, At, ClientStep
<1>2. /\ Given(r, r.args) /\ Filled(r, item, shown, {}) /\ r.n = 0 /\ f \in Members
      /\ r.op \in AddOps /\ r.op \notin Stores /\ r.seen = item.data[f]
      /\ From(r, shown) = shown /\ item \in ItemType
  BY <1>1, ContextTypes, ClientFields DEF AddCas, From, AddOps, Stores
<1>3. r.val \in Vals /\ r.val = Base(r.seen) + 1
  BY <1>1, ContextTypes DEF ClientInv
<1>4. /\ item' = Put(item, f, r.val)
      /\ IF r.seen = Gone THEN cl' = [cl EXCEPT ![c].pc = "adjust", ![c].n = 1] ELSE Return(c)
  BY <1>2 DEF CompareAndSet
<1>5. r.args = {f} /\ {f} \in SUBSET Members /\ Given(r, {f})
  BY <1>2 DEF Given
<1>6. /\ item' \in ItemType /\ item'.t = item.t /\ item'.exp = item.exp /\ item'.cnt = item.cnt
      /\ \A x \in SK : item'.data[x] = IF x = f THEN r.val ELSE item.data[x]
  <2>1. item' \in ItemType
    BY <1>2, <1>3, <1>4, PrimitiveTypes, TypesDiffer
  <2> QED
    BY <1>2, <1>4, <2>1, TypesDiffer DEF Put, ItemType
<1>7. Filled(r, item', shown, {f})
  BY <1>2, <1>6, TypesDiffer DEF Filled
<1>8. \A m \in {f} : r.val = Base(shown.data[m]) + 1
  BY <1>2, <1>3 DEF Filled
<1>9. r.seen = Gone <=> f \notin Mem(shown)
  BY <1>2 DEF Filled, Mem
<1>10. CASE r.seen = Gone
  <2>1. q.pc = "adjust" /\ q.n = 1 /\ q.op = r.op /\ q.val = r.val /\ q.args = r.args
    <3>1. cl[c] \in ClientType /\ DOMAIN cl = Clients
      BY ContextTypes
    <3> QED
      BY <1>4, <1>10, <3>1 DEF ClientType
  <2>2. {f} \ Mem(shown) = {f}
    BY <1>9, <1>10
  <2>3. New({f}, shown) = 1
    BY <2>2, FS_Singleton DEF New
  <2>4. From(q, shown) = shown /\ Given(q, {f}) /\ Filled(q, item', shown, {f})
    BY <1>2, <1>5, <1>7, <2>1, AddKeeps
  <2>5. AddAdjust(q, item', shown)
    BY <1>2, <1>3, <1>5, <1>8, <2>1, <2>3, <2>4 DEF AddAdjust
  <2> QED
    BY <1>1, <1>2, <2>1, <2>5, Goes DEF Phase, AddPhase
<1>11. CASE r.seen # Gone
  <2>1. q.pc = "idle"
    BY <1>4, <1>11, ContextTypes, Moves
  <2>2. {f} \ Mem(shown) = {}
    BY <1>9, <1>11
  <2>3. New({f}, shown) = 0
    BY <2>2, FS_EmptySet DEF New
  <2>4. item' = EnsureType(item', AddType(r.op), r.n)
    <3>1. item' = [t |-> item'.t, exp |-> item'.exp, cnt |-> item'.cnt, data |-> item'.data]
      BY <1>6 DEF ItemType
    <3>2. item'.t = AddType(r.op) /\ item'.cnt + r.n = item'.cnt
      BY <1>2, <1>6, <1>7 DEF Filled, ItemType
    <3> QED
      BY <3>1, <3>2 DEF EnsureType
  <2> QED
    BY <1>1, <1>2, <1>3, <1>5, <1>7, <1>8, <2>1, <2>3, <2>4, AddEnds
<1> QED
  BY <1>10, <1>11

\* HSETNX on a field that is there.
LEMMA FieldThereStep ==
    ASSUME NEW c \in Clients, Context(c), AddPhase(cl[c], item, shown, now),
           cl[c].op = "hsetnx", FieldThere(c), Return(c), LocalStep
    PROVE  Good(c)
<1> DEFINE r == cl[c]
<1>1. r.pc = "write" /\ AddWrite(r, item, shown) /\ now' = now /\ item' = item
  BY AddAt DEF FieldThere, At, LocalStep, ClientStep
<1>2. PICK done \in SUBSET Members :
        /\ Given(r, done \cup r.args) /\ done \cap r.args = {}
        /\ Filled(r, item, shown, done) /\ r.n = New(done, shown)
  BY <1>1 DEF AddWrite, From, Stores
<1>3. PICK f \in Members : done \cup r.args = {f}
  BY <1>2 DEF Given
<1>4. done = {} /\ r.args = {f}
  BY <1>1, <1>2, <1>3 DEF AddWrite
<1>5. item.data[f] # Gone
  BY <1>4 DEF FieldThere
<1>6. /\ Whole(item, shown, now) /\ shown.t = THash /\ shown.data[f] # Gone
  <2>1. r.op \in AddOps /\ r.op \notin Stores /\ AddType(r.op) = THash
    BY DEF AddOps, Stores, AddType
  <2>2. Whole(item, shown, now) /\ item = shown /\ shown.t = AddType(r.op)
    <3>1. Filled(r, item, shown, {})
      BY <1>2, <1>4
    <3> QED
      BY <1>5, <2>1, <3>1, NothingFilled
  <2> QED
    BY <1>5, <2>1, <2>2
<1>7. r.n = 0
  <2>1. done \ Mem(shown) = {}
    BY <1>4
  <2> QED
    BY <1>2, <2>1, FS_EmptySet DEF New
<1>8. cl'[c].pc = "idle"
  BY ContextTypes, Moves
<1> QED
  BY <1>1, <1>6, <1>7, <1>8, EndsUnchanged, Refusals

\* adjustCount after the writes.
LEMMA AddAdjustSteps ==
    ASSUME NEW c \in Clients, Context(c), AddPhase(cl[c], item, shown, now),
           AdjustCountSteps(c, AddType(cl[c].op))
    PROVE  Good(c)
<1> DEFINE r == cl[c]
           type == AddType(r.op)
           from == From(r, shown)
<1>1. /\ r.op \in AddOps /\ r.pc = "adjust" /\ AddAdjust(r, item, shown) /\ AdjustStep(c, type)
      /\ now' = now /\ type # NoType
  BY AddAt, AddTypes DEF AdjustCountSteps, AdjustStep, DropIfEmptyStep, At, ClientStep
<1>2. PICK done \in SUBSET Members :
        /\ Given(r, done) /\ Filled(r, item, from, done) /\ r.n = New(done, from)
        /\ r.op = "hsetnx" => done \cap Mem(shown) = {}
        /\ r.op = "hincr" => \A m \in done : r.val = Base(shown.data[m]) + 1
  BY <1>1 DEF AddAdjust
<1>3. r.n \in Nat
  BY <1>2, NewType
<1>4. item = [t |-> type, exp |-> item.exp, cnt |-> item.cnt, data |-> item.data] /\ item.cnt \in Int
  BY <1>2 DEF Filled, ItemType
<1>5. TypeAllows(item, type)
  BY <1>2 DEF Filled, TypeAllows
<1>6. item' = EnsureType(item, type, r.n) /\ Return(c)
  <2>1. CASE r.n = 0
    <3>1. Return(c) /\ item' = item
      BY <1>1, <2>1 DEF AdjustStep
    <3> QED
      BY <1>4, <2>1, <3>1 DEF EnsureType
  <2>2. CASE r.n # 0
    <3>1. ~(r.n < 0)
      BY <1>3
    <3> QED
      BY <1>1, <1>5, <2>2, <3>1 DEF AdjustStep
  <2> QED
    BY <2>1, <2>2
<1>7. cl'[c].pc = "idle"
  BY <1>6, ContextTypes, Moves
<1>8. r.val \in Vals
  BY <1>1 DEF AddAdjust
<1> QED
  BY <1>1, <1>2, <1>6, <1>7, <1>8, AddEnds
-----------------------------------------------------------------------------
(***************************************************************************)
(* Taking members away: SREM, HDEL, ZREM, SPOP and ZREMRANGEBY*.           *)
(***************************************************************************)

LEMMA TakeAt ==
    ASSUME NEW r, NEW k, NEW s, NEW t, TakePhase(r, k, s, t)
    PROVE  /\ r.op \in TakeOps
           /\ r.pc = "load" => TakeLoad(r, k, s, t)
           /\ r.pc = "choose" => TakeChoose(r, k, s, t)
           /\ r.pc = "remove" => TakeRemove(r, k, s)
           /\ r.pc = "adjust" => TakeAdjust(r, k, s)
           /\ r.pc = "drop" => TakeDrop(r, k, s)
           /\ r.pc \in {"load", "choose", "remove", "adjust", "drop"}
  BY DEF TakePhase, TakeLoad, TakeChoose, TakeRemove, TakeAdjust, TakeDrop

LEMMA TakeTypes ==
    ASSUME NEW op \in TakeOps
    PROVE  TakeType(op) \in Collections /\ TakeType(op) \in Types /\ TakeType(op) # NoType
  BY TypesDiffer DEF TakeType, Collections

\* Members deleted are a number.
LEMMA GaveType ==
    ASSUME NEW ms \in SUBSET Members, NEW s
    PROVE  Gave(ms, s) \in Nat
<1> DEFINE there == Mem(s)
<1>1. there \in SUBSET Members
  BY DEF Mem
<1> HIDE DEF there
<1> QED
  BY <1>1, Counting DEF Gave, there

\* loadMetaState on a whole key.
LEMMA LoadSteps ==
    ASSUME NEW c \in Clients, Context(c), NEW type, NEW next, LoadState(c, type, next)
    PROVE  /\ now' = now /\ item' = item
           /\ IF Live(item, now) /\ item.t = type
                THEN cl'[c].pc = next /\ Keeps(cl'[c], cl[c])
                ELSE cl'[c].pc = "idle"
<1>1. cl \in [Clients -> Client] /\ now' = now /\ item' = item
  BY ContextTypes DEF LoadState, LocalStep, ClientStep
<1>2. CASE Live(item, now) /\ item.t = type
  <2>1. Goto(c, next)
    BY <1>2 DEF LoadState
  <2>2. cl'[c].pc = next /\ Keeps(cl'[c], cl[c])
    BY <1>1, <2>1, Moves
  <2> QED
    BY <1>1, <1>2, <2>2
<1>3. CASE ~(Live(item, now) /\ item.t = type)
  <2>1. Return(c)
    BY <1>3 DEF LoadState
  <2>2. cl'[c].pc = "idle"
    BY <1>1, <2>1, Moves
  <2> QED
    BY <1>1, <1>3, <2>2
<1> QED
  BY <1>2, <1>3

\* The type and liveness check.
LEMMA TakeLoadStep ==
    ASSUME NEW c \in Clients, Context(c), TakePhase(cl[c], item, shown, now),
           LoadState(c, TakeType(cl[c].op), IF cl[c].op \in Finders THEN "choose" ELSE "remove")
    PROVE  Good(c)
<1> DEFINE r == cl[c]
           q == cl'[c]
           type == TakeType(r.op)
<1>1. /\ r.op \in TakeOps /\ r.pc = "load" /\ TakeLoad(r, item, shown, now) /\ type # NoType
      /\ type \in Collections
  BY TakeAt, TakeTypes DEF LoadState, At
<1>2. /\ r.n = 0 /\ Whole(item, shown, now) /\ (r.op \notin Finders => r.args # {})
      /\ r.args \in SUBSET Members
  BY <1>1, ContextTypes, ClientFields DEF TakeLoad
<1>3. CASE ~(Live(item, now) /\ item.t = type)
  <2>1. q.pc = "idle" /\ item' = item /\ now' = now
    BY <1>3, LoadSteps
  <2>2. shown.t # type
    BY <1>1, <1>2, <1>3, AbsentShape DEF Whole
  <2>3. ASSUME shown' = shown, last' = [op |-> r.op, n |-> r.n]
        PROVE  Redis!Next
    <3>1. CASE shown.t = NoType
      BY <1>1, <1>2, <2>1, <2>3, <3>1, Refusals DEF TakeOps, Finders
    <3>2. CASE shown.t # NoType
      BY <1>1, <1>2, <2>1, <2>2, <2>3, <3>2, Refusals DEF TakeOps, Finders, TakeType
    <3> QED
      BY <3>1, <3>2
  <2> QED
    BY <1>1, <1>2, <2>1, <2>3, EndsUnchanged
<1>4. CASE Live(item, now) /\ item.t = type
  <2>1. /\ q.pc = (IF r.op \in Finders THEN "choose" ELSE "remove") /\ Keeps(q, r)
        /\ item' = item /\ now' = now
    BY <1>4, LoadSteps
  <2>2. q.op = r.op /\ q.n = r.n /\ q.args = r.args
    BY <2>1 DEF Keeps
  <2>3. shown = item /\ shown.t = type /\ item \in ItemType /\ item.data[ValueSK] = Gone
    BY <1>1, <1>2, <1>4, CountIs, TypesDiffer DEF Whole, Shapely
  <2>4. CASE r.op \in Finders
    <3>1. TakeChoose(q, item', shown, now)
      BY <1>2, <2>1, <2>2, <2>3, <2>4 DEF TakeChoose
    <3> QED
      BY <1>1, <2>1, <2>2, <2>4, <3>1, Goes DEF Phase, TakePhase
  <2>5. CASE r.op \notin Finders
    <3>1. Emptied(q, item', shown, {})
      BY <2>1, <2>2, <2>3 DEF Emptied
    <3>2. Gave({}, shown) = 0
      <4>1. {} \cap Mem(shown) = {}
        OBVIOUS
      <4> QED
        BY <4>1, FS_EmptySet DEF Gave
    <3>3. Found(q, shown, {} \cup q.args) /\ {} \in SUBSET Members
      BY <1>2, <2>2, <2>5 DEF Found
    <3>4. q.n = -Gave({}, shown)
      BY <1>2, <2>2, <3>2
    <3>5. TakeRemove(q, item', shown)
      BY <1>2, <2>1, <2>2, <2>3, <2>5, <3>1, <3>3, <3>4 DEF TakeRemove
    <3> QED
      BY <1>1, <2>1, <2>2, <2>5, <3>5, Goes DEF Phase, TakePhase
  <2> QED
    BY <2>4, <2>5
<1> QED
  BY <1>3, <1>4

\* The members are listed and picked.
LEMMA TakeChooseStep ==
    ASSUME NEW c \in Clients, Context(c), TakePhase(cl[c], item, shown, now), ChooseMembers(c)
    PROVE  Good(c)
<1> DEFINE r == cl[c]
           q == cl'[c]
           type == TakeType(r.op)
<1>1. /\ r.op \in TakeOps /\ r.pc = "choose" /\ TakeChoose(r, item, shown, now)
      /\ type \in Collections /\ type # NoType /\ now' = now /\ item' = item
  BY TakeAt, TakeTypes DEF ChooseMembers, At, LocalStep, ClientStep
<1>2. r.op \in Finders /\ r.n = 0 /\ Whole(item, shown, now) /\ shown.t = type
  BY <1>1 DEF TakeChoose
<1>3. /\ shown = item /\ item \in ItemType /\ item.data[ValueSK] = Gone /\ Mem(item) # {}
  BY <1>1, <1>2, CountIs, AbsentShape, TypesDiffer DEF Whole, Shapely
<1>4. Present(item) \cap Members = Mem(item)
  BY <1>3, TypesDiffer DEF Present, Mem, ItemType
<1>5. PICK pick \in (SUBSET Mem(item)) \ {{}} :
        cl' = [cl EXCEPT ![c].pc = "remove", ![c].args = pick]
  BY <1>3, <1>4 DEF ChooseMembers
<1>6. q.pc = "remove" /\ q.args = pick /\ q.op = r.op /\ q.n = r.n
  <2>1. cl[c] \in ClientType /\ DOMAIN cl = Clients
    BY ContextTypes
  <2> QED
    BY <1>5, <2>1 DEF ClientType
<1>7. Emptied(q, item', shown, {})
  BY <1>1, <1>2, <1>3, <1>6 DEF Emptied
<1>10. /\ q.args \in SUBSET Members /\ q.args # {} /\ {} \in SUBSET Members
       /\ {} \cup q.args = q.args /\ q.args \subseteq Mem(shown)
  BY <1>3, <1>5, <1>6 DEF Mem
<1>11. Found(q, shown, {} \cup q.args)
  BY <1>10 DEF Found
<1>8. q.n = -Gave({}, shown)
  <2>1. {} \cap Mem(shown) = {}
    OBVIOUS
  <2> QED
    BY <1>2, <1>6, <2>1, FS_EmptySet DEF Gave
<1>9. TakeRemove(q, item', shown)
  BY <1>1, <1>3, <1>6, <1>7, <1>8, <1>10, <1>11 DEF TakeRemove
<1> QED
  BY <1>1, <1>6, <1>9, Goes DEF Phase, TakePhase

\* One member deleted.
LEMMA TakeRemoveStep ==
    ASSUME NEW c \in Clients, Context(c), TakePhase(cl[c], item, shown, now), RemoveMember(c)
    PROVE  Good(c)
<1> DEFINE r == cl[c]
           q == cl'[c]
<1>1. /\ r.op \in TakeOps /\ r.pc = "remove" /\ TakeRemove(r, item, shown) /\ now' = now
  BY TakeAt DEF RemoveMember, At, ClientStep
<1>2. PICK done \in SUBSET Members :
        /\ Found(r, shown, done \cup r.args)
        /\ Emptied(r, item, shown, done) /\ item.cnt = shown.cnt /\ r.n = -Gave(done, shown)
  BY <1>1 DEF TakeRemove
<1>3. PICK m \in r.args :
        /\ item' = Remove(item, {m})
        /\ cl' = [cl EXCEPT ![c].args = r.args \ {m},
                            ![c].n = IF item.data[m] # Gone THEN @ - 1 ELSE @,
                            ![c].pc = IF r.args \ {m} = {} THEN "adjust" ELSE "remove"]
  BY DEF RemoveMember
<1>4. r.args \in SUBSET Members /\ r.n \in Int /\ item \in ItemType /\ m \in Members
  BY <1>3, ContextTypes, ClientFields
<1>5. /\ q.pc = (IF r.args \ {m} = {} THEN "adjust" ELSE "remove")
      /\ q.n = (IF item.data[m] # Gone THEN r.n - 1 ELSE r.n)
      /\ q.args = r.args \ {m} /\ q.op = r.op
  <2>1. cl[c] \in ClientType /\ DOMAIN cl = Clients
    BY ContextTypes
  <2> QED
    BY <1>3, <2>1 DEF ClientType
<1> DEFINE more == done \cup {m}
           there == Mem(shown)
<1>6. more \in SUBSET Members /\ more \cup q.args = done \cup r.args /\ m \in more
  BY <1>2, <1>3, <1>4, <1>5
<1>7. Found(q, shown, more \cup q.args)
  BY <1>2, <1>5, <1>6 DEF Found
<1>8. item' \in ItemType /\ item'.t = item.t /\ item'.exp = item.exp /\ item'.cnt = item.cnt
  <2>1. item' \in ItemType
    BY <1>3, <1>4, PrimitiveTypes, TypesDiffer
  <2> QED
    BY <1>3, <1>4, <2>1 DEF Remove, ItemType
<1>9. \A x \in SK : item'.data[x] = IF x = m THEN Gone ELSE item.data[x]
  BY <1>3, <1>4 DEF Remove, ItemType
<1>10. Emptied(q, item', shown, more) /\ item'.cnt = shown.cnt
  <2>1. item'.data[ValueSK] = Gone
    BY <1>2, <1>4, <1>9, TypesDiffer DEF Emptied
  <2>2. \A x \in Members : item'.data[x] = IF x \in more THEN Gone ELSE shown.data[x]
    BY <1>2, <1>9, TypesDiffer DEF Emptied
  <2> QED
    BY <1>2, <1>5, <1>8, <2>1, <2>2 DEF Emptied
<1>11. q.n = -Gave(more, shown)
  <2>1. there \in SUBSET Members
    BY DEF Mem
  <2>2. CASE m \in done
    <3>1. item.data[m] = Gone /\ more = done
      BY <1>2, <1>4, <2>2 DEF Emptied
    <3> QED
      BY <1>2, <1>5, <3>1
  <2>3. CASE m \notin done
    <3>1. item.data[m] # Gone <=> m \in there
      BY <1>2, <1>4, <2>3 DEF Emptied, Mem
    <3>2. more \ {m} = done
      BY <2>3
    <3>3. r.n = -Cardinality((more \ {m}) \cap there)
      BY <1>2, <3>2 DEF Gave
    <3>4. q.n = IF m \in there THEN r.n - 1 ELSE r.n
      BY <1>5, <3>1
    <3>5. there \in SUBSET Members /\ more \in SUBSET Members /\ m \in more
      BY <1>6, <2>1
    <3> HIDE DEF there, more
    <3>7. Cardinality((more \ {m}) \cap there) =
            IF m \in there THEN Cardinality(more \cap there) - 1
                           ELSE Cardinality(more \cap there)
      BY <3>5, CountCommon
    <3>8. Cardinality(more \cap there) \in Nat
      BY <3>5, Counting
    <3>6. q.n = -Cardinality(more \cap there)
      <4> DEFINE all == Cardinality(more \cap there)
                 old == Cardinality((more \ {m}) \cap there)
      <4>1. /\ old = IF m \in there THEN all - 1 ELSE all
            /\ all \in Nat /\ r.n = -old
            /\ q.n = IF m \in there THEN r.n - 1 ELSE r.n
        BY <3>3, <3>4, <3>7, <3>8
      <4> HIDE DEF all, old, q, r
      <4> QED
        BY <4>1 DEF all
    <3> QED
      BY <3>6 DEF Gave, there
  <2> QED
    BY <2>2, <2>3
<1>12. CASE r.args \ {m} # {}
  <2>1. TakeRemove(q, item', shown)
    BY <1>5, <1>6, <1>7, <1>10, <1>11, <1>12 DEF TakeRemove
  <2> QED
    BY <1>1, <1>5, <1>12, <2>1, Goes DEF Phase, TakePhase
<1>13. CASE r.args \ {m} = {}
  <2>1. more \cup q.args = more
    BY <1>5, <1>13
  <2>2. TakeAdjust(q, item', shown)
    BY <1>5, <1>6, <1>7, <1>10, <1>11, <1>13, <2>1 DEF TakeAdjust
  <2> QED
    BY <1>1, <1>5, <1>13, <2>2, Goes DEF Phase, TakePhase
<1> QED
  BY <1>12, <1>13

\* The members are deleted and the count is lowered by those that were there: what is
\* left is the collection Redis has, or no key.
LEMMA TakeEnds ==
    ASSUME NEW c \in Clients, Context(c), now' = now, cl[c].op \in TakeOps, cl[c].pc # "idle",
           cl'[c].pc = "idle", NEW done \in SUBSET Members, Found(cl[c], shown, done),
           shown.t = TakeType(cl[c].op), cl[c].n = -Gave(done, shown), Shapely(item'),
           item' = Absent \/ (item'.t = shown.t /\ item'.exp = shown.exp),
           \A m \in Members : item'.data[m] = IF m \in done THEN Gone ELSE shown.data[m]
    PROVE  Good(c)
<1> DEFINE r == cl[c]
           type == TakeType(r.op)
<1>1. type \in Collections /\ type # NoType /\ Shows(shown, now)
  BY TakeTypes, ContextTypes
<1>2. Live(shown, now)
  BY <1>1, AbsentShape DEF Shows
<1>3. item' = Absent \/ Live(item', now)
  BY <1>2 DEF Live, HasMeta, IsExpired
<1>4. ASSUME shown' = item', last' = [op |-> r.op, n |-> r.n]
      PROVE  Redis!Next
  <2> DEFINE g == [m \in Members |-> IF m \in done THEN Gone ELSE shown.data[m]]
  <2>1. \A m \in Members : g[m] = item'.data[m]
    OBVIOUS
  <2> HIDE DEF g
  <2>2. item' = Redis!Collection(type, g, shown.exp)
    BY <1>1, <2>1, CollectionIs
  <2>3. Redis!TheMembers = Mem(shown)
    BY DEF Redis!TheMembers, Mem
  <2>4. Redis!Take(r.op, type, done)
    BY <1>4, <2>2, <2>3, SameCardinality DEF Redis!Take, Redis!Answer, Gave, g
  <2>5. done # {}
    BY DEF Found
  <2>6. CASE r.op \in Finders
    <3>1. Redis!TakeFound(r.op, type, done)
      BY <2>3, <2>4, <2>6 DEF Found, Redis!TakeFound
    <3> QED
      BY <2>6, <3>1, CollectionCommands DEF Finders, TakeType
  <2>7. CASE r.op \notin Finders
    BY <2>4, <2>5, <2>7, CollectionCommands DEF TakeOps, Finders, TakeType
  <2> QED
    BY <2>6, <2>7
<1> QED
  BY <1>3, <1>4, Ends

\* What is left of a collection, and its number.
LEMMA TakenCount ==
    ASSUME NEW s, Shapely(s), s.t \in Collections, NEW done \in SUBSET Members
    PROVE  /\ s.cnt - Gave(done, s) = Cardinality(Mem(s) \ done)
           /\ s.cnt - Gave(done, s) \in Nat
           /\ s.cnt - Gave(done, s) = 0 <=> Mem(s) \subseteq done
<1> DEFINE there == Mem(s)
<1>1. there \in SUBSET Members /\ s.cnt = Cardinality(there)
  BY CountIs, TypesDiffer
<1> HIDE DEF there
<1>2. Cardinality(there \ done) = Cardinality(there) - Cardinality(done \cap there)
  BY <1>1, Counting
<1>3. Cardinality(there \ done) \in Nat /\ (Cardinality(there \ done) = 0 <=> there \subseteq done)
  BY <1>1, Counting
<1> QED
  BY <1>1, <1>2, <1>3 DEF Gave, there

\* adjustCount after the deletes: nothing was there, some members are left, or none.
LEMMA TakeAdjustStep ==
    ASSUME NEW c \in Clients, Context(c), TakePhase(cl[c], item, shown, now),
           AdjustStep(c, TakeType(cl[c].op))
    PROVE  Good(c)
<1> DEFINE r == cl[c]
           q == cl'[c]
           type == TakeType(r.op)
<1>1. /\ r.op \in TakeOps /\ r.pc = "adjust" /\ TakeAdjust(r, item, shown) /\ now' = now
      /\ type \in Collections /\ type \in Types /\ type # NoType
  BY TakeAt, TakeTypes DEF AdjustStep, At, ClientStep
<1>2. PICK done \in SUBSET Members :
        /\ Found(r, shown, done)
        /\ Emptied(r, item, shown, done) /\ item.cnt = shown.cnt /\ r.n = -Gave(done, shown)
  BY <1>1 DEF TakeAdjust
<1>3. /\ shown.t = type /\ item.t = type /\ item.exp = shown.exp /\ item.data[ValueSK] = Gone
      /\ item \in ItemType /\ TypeAllows(item, type)
      /\ \A m \in Members : item.data[m] = IF m \in done THEN Gone ELSE shown.data[m]
  BY <1>2 DEF Emptied, TypeAllows
<1>4. /\ Shapely(shown) /\ shown \in ItemType /\ shown.data[ValueSK] = Gone
      /\ Mem(shown) # {} /\ shown.cnt \in Int
  <2>1. Shapely(shown) /\ shown \in ItemType
    BY ContextTypes DEF Shows
  <2> QED
    BY <1>1, <1>3, <2>1, CountIs, AbsentShape, TypesDiffer DEF ItemType
<1>5. Gave(done, shown) \in Nat
  BY GaveType
<1> DEFINE left == shown.cnt - Gave(done, shown)
<1>6. /\ left = Cardinality(Mem(shown) \ done) /\ left \in Nat
      /\ (left = 0 <=> Mem(shown) \subseteq done)
  BY <1>1, <1>3, <1>4, TakenCount
<1>7. CASE r.n = 0
  <2>1. Return(c) /\ item' = item
    BY <1>1, <1>7 DEF AdjustStep
  <2>2. q.pc = "idle"
    BY <2>1, ContextTypes, Moves
  <2>3. Gave(done, shown) = 0
    BY <1>2, <1>5, <1>7
  <2>4. done \cap Mem(shown) = {}
    <3> DEFINE there == Mem(shown)
    <3>1. there \in SUBSET Members /\ Cardinality(done \cap there) = 0
      BY <2>3 DEF Gave, Mem
    <3> HIDE DEF there
    <3>2. done \cap there = {}
      BY <3>1, Counting
    <3> QED
      BY <3>2 DEF there
  <2>5. \A m \in Members : item.data[m] = shown.data[m]
    BY <1>3, <2>4 DEF Mem
  <2>6. item = shown
    BY <1>2, <1>3, <1>4, <2>5, SameKey
  <2> QED
    BY <1>1, <1>2, <1>3, <1>4, <2>1, <2>2, <2>6, TakeEnds
<1>8. CASE r.n # 0
  <2> DEFINE after == EnsureType(item, type, r.n)
  <2>1. item' = after /\ IF after.cnt <= 0 THEN Goto(c, "drop") ELSE Return(c)
    <3>1. r.n < 0
      BY <1>2, <1>5, <1>8
    <3> QED
      BY <1>1, <1>3, <1>8, <3>1 DEF AdjustStep
  <2>2. /\ item' = [t |-> type, exp |-> shown.exp, cnt |-> item.cnt + r.n, data |-> item.data]
        /\ after.cnt = item.cnt + r.n
    BY <1>3, <2>1 DEF EnsureType
  <2>3. item.cnt + r.n = left
    BY <1>2, <1>4, <1>5
  <2>4. item' \in ItemType
    BY <1>1, <1>3, <1>4, <1>6, <2>2, <2>3 DEF ItemType
  <2>5. /\ item'.t = type /\ item'.exp = shown.exp /\ item'.cnt = left
        /\ item'.data = item.data
    BY <2>2, <2>3
  <2>6. Mem(item') = Mem(shown) \ done
    BY <1>3, <2>5 DEF Mem
  <2> HIDE DEF left, after
  <2>7. CASE left <= 0
    <3>1. Goto(c, "drop") /\ left = 0
      BY <1>6, <2>1, <2>2, <2>3, <2>7
    <3>2. q.pc = "drop" /\ Keeps(q, r)
      BY <3>1, ContextTypes, Moves
    <3>3. q.op = r.op /\ q.n = r.n
      BY <3>2 DEF Keeps
    <3>4. Emptied(q, item', shown, done) /\ Found(q, shown, done)
      BY <1>2, <1>3, <2>4, <2>5, <3>3 DEF Emptied, Found
    <3>5. TakeDrop(q, item', shown)
      BY <1>2, <1>6, <2>5, <3>1, <3>2, <3>3, <3>4 DEF TakeDrop
    <3> QED
      BY <1>1, <3>2, <3>3, <3>5, Goes DEF Phase, TakePhase
  <2>8. CASE ~(left <= 0)
    <3>1. Return(c) /\ left # 0
      BY <2>1, <2>2, <2>3, <2>8
    <3>2. q.pc = "idle"
      BY <3>1, ContextTypes, Moves
    <3>3. Mem(item') # {}
      BY <1>6, <2>6, <3>1
    <3>4. Shapely(item')
      BY <1>1, <1>3, <1>6, <2>4, <2>5, <2>6, <3>3 DEF Shapely
    <3> QED
      BY <1>1, <1>2, <1>3, <2>5, <3>2, <3>4, TakeEnds
  <2> QED
    BY <2>7, <2>8
<1> QED
  BY <1>7, <1>8

\* DeleteMetaIfEmpty of a collection whose members are all deleted.
LEMMA TakeDropStep ==
    ASSUME NEW c \in Clients, Context(c), TakePhase(cl[c], item, shown, now), DropIfEmptyStep(c)
    PROVE  Good(c)
<1> DEFINE r == cl[c]
<1>1. /\ r.op \in TakeOps /\ r.pc = "drop" /\ TakeDrop(r, item, shown) /\ now' = now
      /\ item' = DeleteMetaIfEmpty(item) /\ Return(c)
  BY TakeAt DEF DropIfEmptyStep, At, ClientStep
<1>2. PICK done \in SUBSET Members :
        /\ Found(r, shown, done) /\ Mem(shown) \subseteq done
        /\ Emptied(r, item, shown, done) /\ item.cnt = 0 /\ r.n = -Gave(done, shown)
  BY <1>1 DEF TakeDrop
<1>3. /\ item \in ItemType /\ item.data[ValueSK] = Gone /\ shown.t = TakeType(r.op)
      /\ \A m \in Members : item.data[m] = Gone /\ (m \notin done => shown.data[m] = Gone)
  BY <1>2 DEF Emptied, Mem
<1>4. Present(item) = {}
  BY <1>3 DEF Present, ItemType, SK
<1>5. item' = Absent
  <2>1. DeleteMeta(item) = Absent
    BY <1>3, <1>4, StringAssumption, Leaves
  <2> QED
    BY <1>1, <1>2, <2>1 DEF DeleteMetaIfEmpty, DeleteMeta
<1>6. /\ Shapely(item')
      /\ \A m \in Members : item'.data[m] = IF m \in done THEN Gone ELSE shown.data[m]
  BY <1>3, <1>5, AbsentShape, TypesDiffer
<1>7. cl'[c].pc = "idle"
  BY <1>1, ContextTypes, Moves
<1> QED
  BY <1>1, <1>2, <1>3, <1>5, <1>6, <1>7, TakeEnds
-----------------------------------------------------------------------------
(***************************************************************************)
(* Deleting the key: DEL, an EXPIRE in the past, and the STORE commands    *)
(* before they fill it.                                                    *)
(***************************************************************************)

\* The commands that do not look at the members are steps too.
LEMMA KeyCommands ==
    /\ Redis!Del("del") => Redis!Next
    /\ Redis!Del("expirepast") => Redis!Next
    /\ Redis!Persist => Redis!Next
    /\ now \in Nat /\ Redis!Expire(now + 1) => Redis!Next
    /\ \A v \in Vals, exp \in {0, now + 1} :
         /\ Redis!Set(v, exp) => Redis!Next
         /\ Redis!SetIfAbsent("set nx", v, exp) => Redis!Next
         /\ Redis!GetSet(v) => Redis!Next
    /\ Redis!AddOne("incr") => Redis!Next
    /\ Redis!AddOne("append") => Redis!Next
<1>1. now \in Nat /\ Redis!Expire(now + 1) => Redis!Next
  <2>1. now \in Nat => now + 1 \in now + 1 .. now + 1
    OBVIOUS
  <2> QED
    BY <2>1 DEF Redis!Next
<1>2. ASSUME NEW v \in Vals, NEW exp \in {0, now + 1}
      PROVE  /\ Redis!Set(v, exp) => Redis!Next
             /\ Redis!SetIfAbsent("set nx", v, exp) => Redis!Next
             /\ Redis!GetSet(v) => Redis!Next
  BY DEF Redis!Next
<1>3. /\ Redis!Del("del") => Redis!Next
      /\ Redis!Del("expirepast") => Redis!Next
      /\ Redis!Persist => Redis!Next
      /\ Redis!AddOne("incr") => Redis!Next
      /\ Redis!AddOne("append") => Redis!Next
  BY DEF Redis!Next
<1> QED
  BY <1>1, <1>2, <1>3

\* Where a deleting command is, from its label.
LEMMA DropAt ==
    ASSUME NEW r, NEW k, NEW s, NEW t, DropPhase(r, k, s, t)
    PROVE  /\ r.op \in DropOps /\ r.n = 0 /\ (r.op \in Stores => r.val = 0)
           /\ r.pc = "load" => DropLoad(r, k, s, t)
           /\ r.pc = "delmeta" => DropMeta(r, k)
           /\ r.pc = "enqueue" => DropEnqueue(r, k)
           /\ r.pc \in {"list", "reclaim"} => DropReclaim(r, k) \/ DropAgain(r, k)
           /\ r.pc \in {"replace", "result"} => DropReplace(r, k)
           /\ r.pc \in {"load", "delmeta", "enqueue", "list", "reclaim", "replace", "result"}
  BY DEF DropPhase, DropLoad, DropMeta, DropEnqueue, DropReclaim, DropAgain, DropReplace, Reclaims

\* The command goes on, with the same name and variables.
LEMMA DropGoes ==
    ASSUME NEW c \in Clients, Context(c), now' = now, DropPhase(cl[c], item, shown, now),
           Keeps(cl'[c], cl[c]),
           \/ DropMeta(cl'[c], item') \/ DropEnqueue(cl'[c], item')
           \/ DropReclaim(cl'[c], item') \/ DropReplace(cl'[c], item')
           \/ DropAgain(cl'[c], item')
    PROVE  Good(c)
<1> DEFINE q == cl'[c]
<1>1. q.op \in DropOps /\ q.n = 0 /\ (q.op \in Stores => q.val = 0)
  BY DropAt DEF Keeps
<1>2. q.pc # "idle"
  BY DEF DropMeta, DropEnqueue, DropReclaim, DropReplace, DropAgain, Reclaims
<1>3. DropPhase(q, item', shown, now)
  BY <1>1 DEF DropPhase
<1> QED
  BY <1>2, <1>3, Goes DEF Phase

\* The command has deleted the key.
LEMMA DropEnds ==
    ASSUME NEW c \in Clients, Context(c), now' = now, DropPhase(cl[c], item, shown, now),
           cl[c].op \notin Stores, cl'[c].pc = "idle", item' = Absent
    PROVE  Good(c)
<1>1. cl[c].op \in {"del", "expirepast"} /\ cl[c].n = 0 /\ cl[c].pc # "idle"
  BY DropAt DEF DropOps
<1>2. Redis!NoKey = Absent
  BY DEF Redis!NoKey, Absent, SK, Redis!SK
<1>3. ASSUME shown' = item', last' = [op |-> cl[c].op, n |-> cl[c].n]
      PROVE  Redis!Next
  <2>1. Redis!Del(cl[c].op)
    BY <1>1, <1>2, <1>3 DEF Redis!Del, Redis!Answer
  <2> QED
    BY <1>1, <2>1, KeyCommands
<1> QED
  BY <1>1, <1>3, AbsentShape, Ends

\* handleDel and applyExpire look at the key first.
LEMMA DropLoadSteps ==
    ASSUME NEW c \in Clients, Context(c), DropPhase(cl[c], item, shown, now),
           \/ cl[c].op = "del" /\ DelLoad(c)
           \/ cl[c].op = "expirepast" /\ ExpireLoad(c)
    PROVE  Good(c)
<1> DEFINE r == cl[c]
<1>1. /\ r.pc = "load" /\ DropLoad(r, item, shown, now) /\ r.n = 0
      /\ now' = now /\ item' = item /\ cl \in [Clients -> Client]
  BY DropAt, ContextTypes DEF DelLoad, ExpireLoad, At, LocalStep, ClientStep
<1>2. Whole(item, shown, now) /\ Shapely(item)
  BY <1>1 DEF DropLoad, Whole
<1>3. CASE r.op = "expirepast" /\ ~Live(item, now)
  <2>1. Return(c) /\ cl'[c].pc = "idle"
    BY <1>1, <1>3, Moves DEF ExpireLoad
  <2>2. shown.t = NoType
    BY <1>2, <1>3, AbsentShape DEF Whole
  <2>3. ASSUME shown' = shown, last' = [op |-> r.op, n |-> r.n]
        PROVE  Redis!Next
    BY <1>1, <1>3, <2>2, <2>3, Refusals
  <2> QED
    BY <1>1, <1>2, <2>1, <2>3, EndsUnchanged
<1>4. CASE r.op = "del" \/ Live(item, now)
  <2>1. Goto(c, "delmeta")
    BY <1>4 DEF DelLoad, ExpireLoad
  <2>2. cl'[c].pc = "delmeta" /\ Keeps(cl'[c], r)
    BY <1>1, <2>1, Moves
  <2>3. DropMeta(cl'[c], item')
    BY <1>1, <1>2, <2>2 DEF DropMeta
  <2> QED
    BY <1>1, <2>2, <2>3, DropGoes
<1> QED
  BY <1>3, <1>4

\* DeleteMeta, and Enqueue when there was a meta item.
LEMMA DropMetaSteps ==
    ASSUME NEW c \in Clients, Context(c), DropPhase(cl[c], item, shown, now),
           DeleteMetaStep(c, DropNext(cl[c].op)) \/ EnqueueStep(c)
    PROVE  Good(c)
<1> DEFINE r == cl[c]
           q == cl'[c]
           next == DropNext(r.op)
<1>1. CASE DeleteMetaStep(c, next)
  <2>1. r.pc = "delmeta" /\ Shapely(item) /\ item \in ItemType
    BY <1>1, DropAt, ContextTypes DEF DeleteMetaStep, At, DropMeta
  <2>2. now' = now /\ item' = DeleteMeta(item) /\ Bare(item')
    BY <1>1, <2>1, DeleteMetaSteps, Leaves, StringAssumption
  <2>3. ~HasMeta(item) => item' = Absent
    <3>1. ASSUME ~HasMeta(item)
          PROVE  item' = Absent
      <4>1. item = Absent /\ Present(item) = {}
        BY <2>1, <3>1, ShapelyAbsent DEF Present, Absent
      <4> QED
        BY <2>1, <2>2, <4>1, Leaves, StringAssumption
    <3> QED
      BY <3>1
  <2>4. CASE q.pc = "enqueue" /\ q.ret = next /\ Keeps(q, r)
    <3>1. DropEnqueue(q, item')
      BY <2>2, <2>4 DEF DropEnqueue, Keeps
    <3> QED
      BY <2>2, <2>4, <3>1, DropGoes
  <2>5. CASE ~HasMeta(item) /\ next # "idle" /\ q.pc = next /\ Keeps(q, r)
    <3>1. DropReplace(q, item')
      BY <2>3, <2>5 DEF DropReplace, DropNext, Keeps
    <3> QED
      BY <2>2, <2>5, <3>1, DropGoes
  <2>6. CASE ~HasMeta(item) /\ next = "idle" /\ q.pc = "idle"
    <3>1. r.op \notin Stores
      BY <2>6 DEF DropNext
    <3> QED
      BY <2>2, <2>3, <2>6, <3>1, DropEnds
  <2> QED
    BY <1>1, <2>4, <2>5, <2>6, DeleteMetaSteps
<1>2. CASE EnqueueStep(c)
  <2>1. DropEnqueue(r, item)
    BY <1>2, DropAt DEF EnqueueStep, At
  <2>2. Bare(item) /\ r.ret = next
    BY <2>1 DEF DropEnqueue
  <2>3. now' = now /\ item' = item /\ q.pc = "list" /\ q.ret = next /\ Keeps(q, r)
    BY <1>2, <2>2, EnqueueSteps
  <2>4. DropReclaim(q, item')
    BY <2>2, <2>3 DEF DropReclaim, Reclaims, Keeps
  <2> QED
    BY <2>3, <2>4, DropGoes
<1> QED
  BY <1>1, <1>2

\* The reclaims: the deleter's, run inline, and the STORE commands' own.
LEMMA DropReclaimSteps ==
    ASSUME NEW c \in Clients, Context(c), DropPhase(cl[c], item, shown, now),
           DeleteMembersSteps(c)
    PROVE  Good(c)
<1> DEFINE r == cl[c]
           q == cl'[c]
           next == DropNext(r.op)
<1>1. DropReclaim(r, item) \/ DropAgain(r, item)
  BY DropAt DEF DeleteMembersSteps, ListStep, ReclaimStep, At
<1>2. item \in ItemType
  BY ContextTypes
<1>3. CASE DropReclaim(r, item)
  <2>1. Reclaims(r, next, item) /\ Bare(item)
    BY <1>3 DEF DropReclaim
  <2>2. Remove(item, Present(item)) = Absent
    BY <1>2, <2>1, Leaves, StringAssumption
  <2>3. CASE Reclaims(q, next, item') /\ item' = item /\ Keeps(q, r) /\ now' = now
    <3>1. DropReclaim(q, item')
      BY <2>1, <2>3 DEF DropReclaim, Keeps
    <3> QED
      BY <2>3, <3>1, DropGoes
  <2>4. CASE item' = Absent /\ next # "idle" /\ q.pc = next /\ Keeps(q, r) /\ now' = now
    <3>1. DropReplace(q, item')
      BY <2>4 DEF DropReplace, DropNext, Keeps
    <3> QED
      BY <2>4, <3>1, DropGoes
  <2>5. CASE item' = Absent /\ next = "idle" /\ q.pc = "idle" /\ now' = now
    <3>1. r.op \notin Stores
      BY <2>5 DEF DropNext
    <3> QED
      BY <2>5, <3>1, DropEnds
  <2> QED
    BY <2>1, <2>2, <2>3, <2>4, <2>5, ReclaimSteps
<1>4. CASE DropAgain(r, item)
  <2>1. Reclaims(r, "result", item) /\ Bare(item) /\ r.op \in Stores
    BY <1>4 DEF DropAgain
  <2>2. Remove(item, Present(item)) = Absent
    BY <1>2, <2>1, Leaves, StringAssumption
  <2>3. CASE Reclaims(q, "result", item') /\ item' = item /\ Keeps(q, r) /\ now' = now
    <3>1. DropAgain(q, item')
      BY <2>1, <2>3 DEF DropAgain, Keeps
    <3> QED
      BY <2>3, <3>1, DropGoes
  <2>4. CASE item' = Absent /\ q.pc = "result" /\ Keeps(q, r) /\ now' = now
    <3>1. DropReplace(q, item')
      BY <2>1, <2>4 DEF DropReplace, Keeps
    <3> QED
      BY <2>4, <3>1, DropGoes
  <2>5. /\ now' = now
        /\ \/ Reclaims(q, "result", item') /\ item' = item /\ Keeps(q, r)
           \/ item' = Remove(item, Present(item)) /\ q.pc = "result" /\ Keeps(q, r)
    BY <2>1, ReclaimSteps
  <2> QED
    BY <2>2, <2>3, <2>4, <2>5
<1> QED
  BY <1>1, <1>3, <1>4

\* handleSetAlgebraStore, handleZStore: the second reclaim, and the result.
LEMMA StoreSteps ==
    ASSUME NEW c \in Clients, Context(c), DropPhase(cl[c], item, shown, now),
           StoreReclaim(c) \/ StoreResult(c)
    PROVE  Good(c)
<1> DEFINE r == cl[c]
           q == cl'[c]
<1>1. /\ DropReplace(r, item) /\ now' = now /\ item' = item /\ cl \in [Clients -> Client]
      /\ r.n = 0 /\ r.args \in SUBSET Members
  BY DropAt, ContextTypes, ClientFields
     DEF StoreReclaim, StoreResult, At, LocalStep, ClientStep
<1>2. r.op \in Stores /\ item = Absent /\ r.val = 0 /\ r.pc # "idle"
  BY <1>1, DropAt DEF DropReplace
<1>3. CASE StoreReclaim(c)
  <2>1. cl' = [cl EXCEPT ![c].pc = "list", ![c].ret = "result"]
    BY <1>3 DEF StoreReclaim
  <2>2. q.pc = "list" /\ q.ret = "result" /\ Keeps(q, r)
    BY <1>1, <2>1, Moves
  <2>3. Bare(Absent)
    BY AbsentShape DEF Bare
  <2>4. DropAgain(q, item')
    BY <1>1, <1>2, <2>2, <2>3 DEF DropAgain, Reclaims, Keeps
  <2> QED
    BY <1>1, <2>2, <2>4, DropGoes
<1>4. CASE StoreResult(c) /\ r.args = {}
  <2>1. q.pc = "idle"
    BY <1>1, <1>4, Moves DEF StoreResult
  <2>2. ASSUME shown' = item', last' = [op |-> r.op, n |-> r.n]
        PROVE  Redis!Next
    <3> DEFINE g == [m \in Members |-> IF m \in {} THEN 0 ELSE Gone]
               type == AddType(r.op)
    <3>1. type \in Collections /\ \A m \in Members : g[m] = Absent.data[m]
      BY <1>2, AddTypes, AbsentShape, TypesDiffer DEF AddOps
    <3> HIDE DEF g
    <3>2. Absent = Redis!Collection(type, g, 0)
      BY <3>1, AbsentShape, CollectionIs
    <3>3. Redis!Cardinality({}) = 0
      BY FS_EmptySet, SameCardinality
    <3>4. Redis!Store(r.op, type, {})
      BY <1>1, <1>2, <2>2, <3>2, <3>3 DEF Redis!Store, Redis!Answer, g
    <3>5. {} \in SUBSET Members
      OBVIOUS
    <3> QED
      BY <1>2, <3>4, <3>5, CollectionCommands DEF Stores, AddType
  <2> QED
    BY <1>1, <1>2, <2>1, <2>2, AbsentShape, Ends
<1>5. CASE StoreResult(c) /\ r.args # {}
  <2>1. Goto(c, "ensure")
    BY <1>5 DEF StoreResult
  <2>2. q.pc = "ensure" /\ Keeps(q, r)
    BY <1>1, <2>1, Moves
  <2>3. q.op = r.op /\ q.args = r.args /\ q.n = 0 /\ q.val = 0
    BY <1>1, <1>2, <2>2 DEF Keeps
  <2>4. Given(q, q.args)
    BY <1>2, <1>5, <2>3 DEF Given, Stores
  <2>5. AddPhase(q, item', shown, now)
    BY <1>1, <1>2, <2>2, <2>3, <2>4 DEF AddPhase, AddEnsure, AddOps
  <2> QED
    BY <1>1, <2>2, <2>5, Goes DEF Phase
<1> QED
  BY <1>3, <1>4, <1>5
-----------------------------------------------------------------------------
(***************************************************************************)
(* A time to live: EXPIRE and PERSIST.                                     *)
(***************************************************************************)

\* Another expiry leaves a shapely key shapely.
LEMMA ExpiryKey ==
    ASSUME NEW k, Shapely(k), HasMeta(k), NEW exp \in Nat
    PROVE  /\ SetExpire(k, exp) = [k EXCEPT !.exp = exp] /\ Shapely(SetExpire(k, exp))
           /\ SetExpire(k, exp).t = k.t /\ SetExpire(k, exp).exp = exp
           /\ k.exp = exp => SetExpire(k, exp) = k
<1> DEFINE l == [k EXCEPT !.exp = exp]
<1>1. SetExpire(k, exp) = l
  BY DEF SetExpire
<1>2. k \in ItemType /\ k # Absent
  BY AbsentShape DEF Shapely, HasMeta
<1>3. l \in ItemType /\ l.t = k.t /\ l.exp = exp /\ l.cnt = k.cnt /\ l.data = k.data
  BY <1>2 DEF ItemType
<1>4. k.exp = exp => l = k
  BY <1>2 DEF ItemType
<1> HIDE DEF l
<1>5. Mem(l) = Mem(k)
  BY <1>3 DEF Mem
<1>6. Shapely(l)
  BY <1>2, <1>3, <1>5 DEF Shapely
<1> QED
  BY <1>1, <1>3, <1>4, <1>6 DEF l

\* applyExpire and handlePersist: what the first call finds.
LEMMA ExpiryLoadSteps ==
    ASSUME NEW c \in Clients, Context(c), ExpiryPhase(cl[c], item, shown, now),
           \/ cl[c].op = "expire" /\ ExpireLoad(c)
           \/ cl[c].op = "persist" /\ PersistLoad(c)
    PROVE  Good(c)
<1> DEFINE r == cl[c]
           q == cl'[c]
<1>1. /\ r.pc = "load" /\ now' = now /\ item' = item /\ cl \in [Clients -> Client]
      /\ r.n = 0 /\ Whole(item, shown, now) /\ (r.op = "expire" => r.exp = now + 1)
  BY ContextTypes DEF ExpireLoad, PersistLoad, At, LocalStep, ClientStep, ExpiryPhase
<1>2. CASE ~Live(item, now)
  <2>1. Return(c) /\ q.pc = "idle"
    BY <1>1, <1>2, Moves DEF ExpireLoad, PersistLoad
  <2>2. shown.t = NoType
    BY <1>1, <1>2, AbsentShape DEF Whole
  <2>3. ASSUME shown' = shown, last' = [op |-> r.op, n |-> r.n]
        PROVE  Redis!Next
    BY <1>1, <2>2, <2>3, Refusals
  <2> QED
    BY <1>1, <2>1, <2>3, EndsUnchanged
<1>3. CASE Live(item, now) /\ r.op = "persist" /\ item.exp = 0
  <2>1. Return(c) /\ q.pc = "idle"
    BY <1>1, <1>3, Moves DEF PersistLoad, ExpireLoad
  <2>2. shown = item /\ Shapely(shown) /\ HasMeta(shown)
    BY <1>1, <1>3 DEF Whole, Live
  <2>3. ASSUME shown' = shown, last' = [op |-> r.op, n |-> r.n]
        PROVE  Redis!Next
    <3>1. shown' = [shown EXCEPT !.exp = 0]
      BY <1>3, <2>2, <2>3, ExpiryKey
    <3>2. Redis!Persist
      BY <1>1, <1>3, <2>2, <2>3, <3>1 DEF Redis!Persist, Redis!Answer, HasMeta
    <3> QED
      BY <3>2, KeyCommands
  <2> QED
    BY <1>1, <2>1, <2>3, EndsUnchanged
<1>4. CASE Live(item, now) /\ (r.op = "persist" => item.exp # 0)
  <2>1. Goto(c, IF r.op = "expire" THEN "setexp" ELSE "persist")
    BY <1>4 DEF ExpireLoad, PersistLoad
  <2>2. q.pc = (IF r.op = "expire" THEN "setexp" ELSE "persist") /\ Keeps(q, r)
    BY <1>1, <2>1, Moves
  <2>3. q.op = r.op /\ q.n = r.n /\ q.exp = r.exp /\ r.op \in {"expire", "persist"}
    BY <2>2 DEF Keeps
  <2>4. ExpiryPhase(q, item', shown, now)
    BY <1>1, <1>4, <2>2, <2>3 DEF ExpiryPhase
  <2> QED
    BY <1>1, <2>2, <2>4, Goes DEF Phase
<1> QED
  BY <1>2, <1>3, <1>4

\* The write of the expiry.
LEMMA ExpiryWriteSteps ==
    ASSUME NEW c \in Clients, Context(c), ExpiryPhase(cl[c], item, shown, now),
           \/ cl[c].op = "expire" /\ SetExpireStep(c)
           \/ cl[c].op = "persist" /\ PersistStep(c)
    PROVE  Good(c)
<1> DEFINE r == cl[c]
           exp == IF r.op = "expire" THEN now + 1 ELSE 0
<1>1. /\ Live(item, now) /\ now' = now /\ Return(c) /\ cl \in [Clients -> Client] /\ now \in Nat
      /\ r.n = 0 /\ Whole(item, shown, now) /\ (r.op = "expire" => r.exp = now + 1)
      /\ r.pc # "idle"
  BY ContextTypes DEF SetExpireStep, PersistStep, At, ClientStep, ExpiryPhase
<1>2. cl'[c].pc = "idle" /\ shown = item /\ Shapely(shown) /\ HasMeta(shown)
  BY <1>1, Moves DEF Whole, Live
<1>3. item' = SetExpire(item, exp) /\ exp \in Nat /\ (exp = 0 \/ exp > now)
  BY <1>1 DEF SetExpireStep, PersistStep, Persist
<1> HIDE DEF exp
<1>4. item' = [shown EXCEPT !.exp = exp] /\ Shapely(item') /\ item'.t = shown.t /\ item'.exp = exp
  BY <1>2, <1>3, ExpiryKey
<1>5. Live(item', now)
  BY <1>1, <1>2, <1>3, <1>4 DEF Live, HasMeta, IsExpired
<1>6. ASSUME shown' = item', last' = [op |-> r.op, n |-> r.n]
      PROVE  Redis!Next
  <2>1. shown.t # NoType
    BY <1>2 DEF HasMeta
  <2>2. CASE r.op = "expire"
    <3>1. exp = now + 1 /\ now + 1 > now
      BY <1>1, <2>2 DEF exp
    <3>2. Redis!Expire(now + 1)
      BY <1>1, <1>4, <1>6, <2>1, <2>2, <3>1 DEF Redis!Expire, Redis!Answer
    <3> QED
      BY <1>1, <3>2, KeyCommands
  <2>3. CASE r.op = "persist"
    <3>1. exp = 0
      BY <2>3 DEF exp
    <3>2. Redis!Persist
      BY <1>1, <1>4, <1>6, <2>1, <2>3, <3>1 DEF Redis!Persist, Redis!Answer
    <3> QED
      BY <3>2, KeyCommands
  <2> QED
    BY <2>2, <2>3
<1> QED
  BY <1>1, <1>2, <1>4, <1>5, <1>6, Ends

-----------------------------------------------------------------------------
(***************************************************************************)
(* Strings.                                                                *)
(***************************************************************************)

\* A string's key with its value is the abstract specification's string.
LEMMA StringIs ==
    ASSUME NEW v \in Vals, NEW k, Written(k, v)
    PROVE  Shapely(k) /\ k = Redis!StringOf(v, k.exp)
<1> DEFINE data == [sk \in SK |-> IF sk = ValueSK THEN v ELSE Gone]
<1>1. /\ k \in ItemType /\ k.t = TStr /\ k.cnt = 0 /\ Mem(k) = {} /\ k.data[ValueSK] = v
      /\ v # Gone
  BY ConstantsAssumption DEF Written, Stringy
<1>2. \A m \in Members : k.data[m] = Gone
  BY <1>1 DEF Mem
<1>3. k.data = data
  <2>1. k.data \in [SK -> Vals \cup {Gone}]
    BY <1>1 DEF ItemType
  <2>2. \A sk \in SK : k.data[sk] = IF sk = ValueSK THEN v ELSE Gone
    BY <1>1, <1>2 DEF SK
  <2> QED
    BY <2>1, <2>2
<1> HIDE DEF data
<1>4. k = [t |-> TStr, exp |-> k.exp, cnt |-> 0, data |-> data]
  BY <1>1, <1>3 DEF ItemType
<1>5. Redis!StringOf(v, k.exp) = [t |-> TStr, exp |-> k.exp, cnt |-> 0, data |-> data]
  BY DEF Redis!StringOf, Redis!SK, SK, data
<1>6. Shapely(k)
  BY <1>1 DEF Shapely
<1> QED
  BY <1>4, <1>5, <1>6

\* What the primitives leave of a string.
LEMMA StringSteps ==
    /\ \A k, from : Shapely(from) /\ Ready(k, from, TStr) =>
         Stringy(k) /\ k.exp = from.exp /\ k.data = from.data
    /\ \A k : \A v \in Vals : Stringy(k) =>
         Written(Put(k, ValueSK, v), v) /\ Put(k, ValueSK, v).exp = k.exp
    /\ \A k, v : \A exp \in Nat : Written(k, v) =>
         Written(SetExpire(k, exp), v) /\ SetExpire(k, exp).exp = exp
<1>1. ASSUME NEW k, NEW from, Shapely(from), Ready(k, from, TStr)
      PROVE  Stringy(k) /\ k.exp = from.exp /\ k.data = from.data
  <2>1. from \in ItemType /\ from.t \in {NoType, TStr}
    BY <1>1 DEF Shapely, Ready
  <2>2. from.cnt = 0 /\ Mem(from) = {}
    BY <1>1, <2>1, AbsentShape, TypesDiffer DEF Shapely
  <2>3. k = [t |-> TStr, exp |-> from.exp, cnt |-> from.cnt + 0, data |-> from.data]
    BY <1>1 DEF Ready, EnsureType
  <2>4. k \in ItemType /\ k.t = TStr /\ k.cnt = 0 /\ k.data = from.data /\ k.exp = from.exp
    BY <2>1, <2>2, <2>3, StringAssumption DEF ItemType
  <2> QED
    BY <2>2, <2>4 DEF Stringy, Mem
<1>2. ASSUME NEW k, NEW v \in Vals, Stringy(k)
      PROVE  Written(Put(k, ValueSK, v), v) /\ Put(k, ValueSK, v).exp = k.exp
  <2> DEFINE l == Put(k, ValueSK, v)
  <2>1. k \in ItemType /\ k.t = TStr /\ k.cnt = 0 /\ Mem(k) = {}
    BY <1>2 DEF Stringy
  <2>2. l \in ItemType
    BY <2>1, PrimitiveTypes, TypesDiffer
  <2>3. /\ l.t = k.t /\ l.cnt = k.cnt /\ l.exp = k.exp
        /\ \A sk \in SK : l.data[sk] = IF sk = ValueSK THEN v ELSE k.data[sk]
    BY <2>1, TypesDiffer DEF Put, ItemType
  <2> HIDE DEF l
  <2>4. Mem(l) = Mem(k)
    BY <2>3, TypesDiffer DEF Mem
  <2>5. l.data[ValueSK] = v
    BY <2>3, TypesDiffer
  <2> QED
    BY <2>1, <2>2, <2>3, <2>4, <2>5 DEF Written, Stringy, l
<1>3. ASSUME NEW k, NEW v, NEW exp \in Nat, Written(k, v)
      PROVE  Written(SetExpire(k, exp), v) /\ SetExpire(k, exp).exp = exp
  <2> DEFINE l == SetExpire(k, exp)
  <2>1. k \in ItemType /\ k.t = TStr /\ k.cnt = 0 /\ Mem(k) = {} /\ k.data[ValueSK] = v
    BY <1>3 DEF Written, Stringy
  <2>2. l = [k EXCEPT !.exp = exp]
    BY <2>1, TypesDiffer DEF SetExpire, HasMeta
  <2>3. l \in ItemType /\ l.t = k.t /\ l.cnt = k.cnt /\ l.exp = exp /\ l.data = k.data
    BY <2>1, <2>2 DEF ItemType
  <2> HIDE DEF l
  <2> QED
    BY <2>1, <2>3 DEF Written, Stringy, Mem, l
<1> QED
  BY <1>1, <1>2, <1>3

\* A meta item alone.
LEMMA HollowString ==
    ASSUME NEW k \in ItemType, Hollow(k, TStr)
    PROVE  /\ Ready(Remove(k, Present(k)), Absent, TStr) /\ Stringy(Remove(k, Present(k)))
           /\ Remove(k, Present(k)).exp = 0
<1>1. Ready(Remove(k, Present(k)), Absent, TStr)
  BY StringAssumption, Leaves, AbsentShape DEF Ready
<1>2. Stringy(Remove(k, Present(k))) /\ Remove(k, Present(k)).exp = Absent.exp
  BY <1>1, AbsentShape, StringSteps
<1> QED
  BY <1>1, <1>2, AbsentShape

\* A step that ends the command and leaves a string with its value.
LEMMA StringEnds ==
    ASSUME NEW c \in Clients, Context(c), now' = now, cl[c].pc # "idle", cl'[c].pc = "idle",
           NEW v \in Vals, Written(item', v), item'.exp = 0 \/ item'.exp > now,
           /\ shown' = Redis!StringOf(v, item'.exp)
           /\ last' = [op |-> cl[c].op, n |-> cl[c].n]
           => Redis!Next
    PROVE  Good(c)
<1>1. Shapely(item') /\ item' = Redis!StringOf(v, item'.exp)
  BY StringIs
<1>2. Live(item', now)
  <2>1. item'.t = TStr /\ now \in Nat /\ item'.exp \in Nat
    BY ContextTypes DEF Written, Stringy, ItemType
  <2> QED
    BY <2>1, TypesDiffer DEF Live, HasMeta, IsExpired
<1> QED
  BY <1>1, <1>2, Ends

\* Where a SET is, from its label.
LEMMA SetAt ==
    ASSUME NEW r, NEW k, NEW s, NEW t, SetPhase(r, k, s, t)
    PROVE  /\ r.op = "set" /\ r.n = 0 /\ r.exp \in {0, t + 1} /\ k \in ItemType
           /\ r.pc \in {"xx", "overwrite"} => Whole(k, s, t)
           /\ r.pc \in {"list", "reclaim"} =>
                SetReclaim(r, k) \/ SetAgain(r, k) \/ SetTakeover(r, k)
           /\ r.pc = "delmeta" => SetMeta(r, k)
           /\ r.pc = "enqueue" => SetEnqueue(r, k)
           /\ r.pc = "ensure" => SetEnsure(r, k)
           /\ r.pc = "put" => SetPut(r, k)
           /\ r.pc \in {"persist", "setexp"} => SetExpiry(r, k)
           /\ r.pc \in {"xx", "overwrite", "list", "reclaim", "delmeta", "enqueue", "ensure",
                        "put", "persist", "setexp"}
  BY DEF SetPhase, SetCheck, SetReclaim, SetMeta, SetEnqueue, SetAgain, SetEnsure, SetTakeover,
         SetPut, SetExpiry, Reclaims

\* A SET goes on, with the same name and variables.
LEMMA SetGoes ==
    ASSUME NEW c \in Clients, Context(c), now' = now, SetPhase(cl[c], item, shown, now),
           Keeps(cl'[c], cl[c]), item' \in ItemType,
           \/ SetCheck(cl'[c], item', shown, now) \/ SetReclaim(cl'[c], item')
           \/ SetMeta(cl'[c], item') \/ SetEnqueue(cl'[c], item') \/ SetAgain(cl'[c], item')
           \/ SetEnsure(cl'[c], item') \/ SetTakeover(cl'[c], item') \/ SetPut(cl'[c], item')
           \/ SetExpiry(cl'[c], item')
    PROVE  Good(c)
<1> DEFINE q == cl'[c]
<1>1. q.op = "set" /\ q.n = 0 /\ q.exp \in {0, now + 1}
  BY SetAt DEF Keeps
<1>2. q.pc # "idle"
  BY DEF SetCheck, SetReclaim, SetMeta, SetEnqueue, SetAgain, SetEnsure, SetTakeover, SetPut,
         SetExpiry, Reclaims
<1>3. SetPhase(q, item', shown, now)
  BY <1>1 DEF SetPhase
<1> QED
  BY <1>2, <1>3, Goes DEF Phase

\* XX, and overwriteAnyType.
LEMMA SetCheckSteps ==
    ASSUME NEW c \in Clients, Context(c), SetPhase(cl[c], item, shown, now),
           SetXX(c) \/ OverwriteAnyType(c)
    PROVE  Good(c)
<1> DEFINE r == cl[c]
           q == cl'[c]
<1>1. /\ Whole(item, shown, now) /\ now' = now /\ item' = item /\ cl \in [Clients -> Client]
      /\ r.op = "set" /\ r.n = 0 /\ item \in ItemType /\ r.pc # "idle"
  BY SetAt, ContextTypes DEF SetXX, OverwriteAnyType, At, LocalStep, ClientStep
<1>2. CASE SetXX(c) /\ Live(item, now)
  <2>1. Goto(c, "overwrite")
    BY <1>2 DEF SetXX
  <2>2. q.pc = "overwrite" /\ Keeps(q, r)
    BY <1>1, <2>1, Moves
  <2>3. SetCheck(q, item', shown, now)
    BY <1>1, <2>2 DEF SetCheck
  <2> QED
    BY <1>1, <2>2, <2>3, SetGoes
<1>3. CASE SetXX(c) /\ ~Live(item, now)
  <2>1. Return(c) /\ q.pc = "idle"
    BY <1>1, <1>3, Moves DEF SetXX
  <2>2. shown.t = NoType
    BY <1>1, <1>3, AbsentShape DEF Whole
  <2>3. ASSUME shown' = shown, last' = [op |-> r.op, n |-> r.n]
        PROVE  Redis!Next
    BY <1>1, <2>2, <2>3, Refusals
  <2> QED
    BY <1>1, <2>1, <2>3, EndsUnchanged
<1>4. CASE OverwriteAnyType(c) /\ HasMeta(item) /\ item.t # TStr
  <2>1. cl' = [cl EXCEPT ![c].pc = "list", ![c].ret = "delmeta"]
    BY <1>4 DEF OverwriteAnyType
  <2>2. q.pc = "list" /\ q.ret = "delmeta" /\ Keeps(q, r)
    BY <1>1, <2>1, Moves
  <2>3. SetReclaim(q, item')
    BY <1>1, <1>4, <2>2 DEF SetReclaim, Reclaims
  <2> QED
    BY <1>1, <2>2, <2>3, SetGoes
<1>5. CASE OverwriteAnyType(c) /\ ~(HasMeta(item) /\ item.t # TStr)
  <2>1. Goto(c, "ensure")
    BY <1>5 DEF OverwriteAnyType
  <2>2. q.pc = "ensure" /\ Keeps(q, r)
    BY <1>1, <2>1, Moves
  <2>3. SetEnsure(q, item')
    BY <1>1, <1>5, <2>2 DEF SetEnsure, Whole, HasMeta
  <2> QED
    BY <1>1, <2>2, <2>3, SetGoes
<1> QED
  BY <1>2, <1>3, <1>4, <1>5

\* The reclaims of a SET: of another type's items, of the deleter, of an expired string.
LEMMA SetReclaimSteps ==
    ASSUME NEW c \in Clients, Context(c), SetPhase(cl[c], item, shown, now),
           DeleteMembersSteps(c)
    PROVE  Good(c)
<1> DEFINE r == cl[c]
           q == cl'[c]
           e == Remove(item, Present(item))
<1>1. item \in ItemType /\ e \in ItemType /\ Present(e) = {} /\ e.t = item.t
  BY ContextTypes, Leaves, StringAssumption
<1>2. SetReclaim(r, item) \/ SetAgain(r, item) \/ SetTakeover(r, item)
  BY SetAt DEF DeleteMembersSteps, ListStep, ReclaimStep, At
<1> HIDE DEF e
<1>3. CASE SetReclaim(r, item)
  <2>1. Reclaims(r, "delmeta", item) /\ HasMeta(item)
    BY <1>3 DEF SetReclaim
  <2>2. /\ now' = now /\ Keeps(q, r)
        /\ \/ Reclaims(q, "delmeta", item') /\ item' = item
           \/ item' = e /\ q.pc = "delmeta"
    BY <2>1, ReclaimSteps DEF e
  <2>3. SetReclaim(q, item') \/ SetMeta(q, item')
    BY <1>1, <2>1, <2>2 DEF SetReclaim, SetMeta, HasMeta
  <2> QED
    BY <1>1, <2>2, <2>3, SetGoes
<1>4. CASE SetAgain(r, item)
  <2>1. Reclaims(r, "ensure", item) /\ Bare(item)
    BY <1>4 DEF SetAgain
  <2>2. e = Absent
    BY <1>1, <2>1, Leaves, StringAssumption DEF e
  <2>3. /\ now' = now /\ Keeps(q, r)
        /\ \/ Reclaims(q, "ensure", item') /\ item' = item
           \/ item' = e /\ q.pc = "ensure"
    BY <2>1, ReclaimSteps DEF e
  <2>4. SetAgain(q, item') \/ SetEnsure(q, item')
    BY <2>1, <2>2, <2>3, AbsentShape DEF SetAgain, SetEnsure
  <2> QED
    BY <1>1, <2>3, <2>4, SetGoes
<1>5. CASE SetTakeover(r, item)
  <2>1. Reclaims(r, "put", item) /\ Hollow(item, TStr)
    BY <1>5 DEF SetTakeover
  <2>2. Stringy(e)
    BY <1>1, <2>1, HollowString DEF e
  <2>3. /\ now' = now /\ Keeps(q, r)
        /\ \/ Reclaims(q, "put", item') /\ item' = item
           \/ item' = e /\ q.pc = "put"
    BY <2>1, ReclaimSteps DEF e
  <2>4. SetTakeover(q, item') \/ SetPut(q, item')
    BY <2>1, <2>2, <2>3 DEF SetTakeover, SetPut
  <2> QED
    BY <1>1, <2>3, <2>4, SetGoes
<1> QED
  BY <1>2, <1>3, <1>4, <1>5

\* The meta item of another type's key goes, and a string's is ensured.
LEMMA SetMetaSteps ==
    ASSUME NEW c \in Clients, Context(c), SetPhase(cl[c], item, shown, now),
           \/ DeleteMetaStep(c, "ensure") \/ EnqueueStep(c)
           \/ EnsureTypeExpiringStep(c, TStr, "put")
    PROVE  Good(c)
<1> DEFINE r == cl[c]
           q == cl'[c]
<1>1. item \in ItemType
  BY ContextTypes
<1>2. CASE DeleteMetaStep(c, "ensure")
  <2>1. HasMeta(item) /\ Present(item) = {}
    BY <1>2, SetAt DEF DeleteMetaStep, At, SetMeta
  <2>2. /\ now' = now /\ item' = DeleteMeta(item)
        /\ q.pc = "enqueue" /\ q.ret = "ensure" /\ Keeps(q, r)
    BY <1>2, <2>1, DeleteMetaSteps
  <2>3. item' = Absent
    BY <1>1, <2>1, <2>2, Leaves, StringAssumption
  <2>4. SetEnqueue(q, item')
    BY <2>2, <2>3 DEF SetEnqueue
  <2> QED
    BY <2>2, <2>3, <2>4, AbsentShape, SetGoes
<1>3. CASE EnqueueStep(c)
  <2>1. r.ret = "ensure" /\ item = Absent
    BY <1>3, SetAt DEF EnqueueStep, At, SetEnqueue
  <2>2. Bare(item)
    BY <2>1, AbsentShape DEF Bare
  <2>3. /\ now' = now /\ item' = item
        /\ q.pc = "list" /\ q.ret = "ensure" /\ Keeps(q, r)
    BY <1>3, <2>1, <2>2, EnqueueSteps
  <2>4. SetAgain(q, item')
    BY <2>2, <2>3 DEF SetAgain, Reclaims
  <2> QED
    BY <1>1, <2>3, <2>4, SetGoes
<1>4. CASE EnsureTypeExpiringStep(c, TStr, "put")
  <2>1. Shapely(item) /\ item.t \in {NoType, TStr}
    BY <1>4, SetAt DEF EnsureTypeExpiringStep, At, SetEnsure
  <2>2. /\ now' = now /\ Keeps(q, r)
        /\ \/ Reclaims(q, "put", item') /\ Hollow(item', TStr)
           \/ q.pc = "put" /\ Ready(item', item, TStr)
    BY <1>4, <2>1, StringAssumption, EnsureSteps
  <2>3. CASE Reclaims(q, "put", item') /\ Hollow(item', TStr)
    <3>1. SetTakeover(q, item') /\ item' \in ItemType
      BY <2>3 DEF SetTakeover, Hollow
    <3> QED
      BY <2>2, <3>1, SetGoes
  <2>4. CASE q.pc = "put" /\ Ready(item', item, TStr)
    <3>1. Stringy(item')
      BY <2>1, <2>4, StringSteps
    <3>2. SetPut(q, item') /\ item' \in ItemType
      BY <2>4, <3>1 DEF SetPut, Stringy
    <3> QED
      BY <2>2, <3>2, SetGoes
  <2> QED
    BY <2>2, <2>3, <2>4
<1> QED
  BY <1>2, <1>3, <1>4

\* The value, and then the expiry or its absence.
LEMMA SetValueSteps ==
    ASSUME NEW c \in Clients, Context(c), SetPhase(cl[c], item, shown, now),
           \/ PutValue(c, IF cl[c].exp = 0 THEN "persist" ELSE "setexp")
           \/ SetExpireStep(c) \/ PersistStep(c)
    PROVE  Good(c)
<1> DEFINE r == cl[c]
           q == cl'[c]
<1>1. /\ now' = now /\ cl \in [Clients -> Client] /\ r.val \in Vals /\ now \in Nat
      /\ r.op = "set" /\ r.n = 0 /\ r.exp \in {0, now + 1}
  <2>1. now' = now
    BY DEF PutValue, SetExpireStep, PersistStep, ClientStep
  <2>2. r.op = "set" /\ r.n = 0 /\ r.exp \in {0, now + 1}
    BY SetAt
  <2>3. r.val \in Vals
    BY <2>2, ContextTypes DEF ClientInv, Writers
  <2> QED
    BY <2>1, <2>2, <2>3, ContextTypes
<1>2. CASE PutValue(c, IF r.exp = 0 THEN "persist" ELSE "setexp")
  <2>1. Stringy(item) /\ item' = Put(item, ValueSK, r.val)
    BY <1>2, SetAt DEF PutValue, At, SetPut
  <2>2. Goto(c, IF r.exp = 0 THEN "persist" ELSE "setexp")
    BY <1>2 DEF PutValue
  <2>3. q.pc = (IF r.exp = 0 THEN "persist" ELSE "setexp") /\ Keeps(q, r)
    BY <1>1, <2>2, Moves
  <2>4. Written(item', r.val) /\ q.val = r.val /\ q.exp = r.exp
    BY <1>1, <2>1, <2>3, StringSteps DEF Keeps
  <2>5. SetExpiry(q, item') /\ item' \in ItemType
    BY <2>3, <2>4 DEF SetExpiry, Written, Stringy
  <2> QED
    BY <1>1, <2>3, <2>5, SetGoes
<1>3. CASE SetExpireStep(c) \/ PersistStep(c)
  <2>1. SetExpiry(r, item) /\ Return(c) /\ r.pc # "idle"
    BY <1>3, SetAt DEF SetExpireStep, PersistStep, At
  <2>2. q.pc = "idle"
    BY <1>1, <2>1, Moves
  <2>3. item' = SetExpire(item, r.exp) /\ Written(item, r.val)
    BY <1>3, <2>1 DEF SetExpireStep, PersistStep, At, SetExpiry, Persist
  <2>4. Written(item', r.val) /\ item'.exp = r.exp
    BY <1>1, <2>3, StringSteps
  <2>5. r.exp = 0 \/ r.exp > now
    BY <1>1
  <2>6. ASSUME /\ shown' = Redis!StringOf(r.val, item'.exp)
               /\ last' = [op |-> r.op, n |-> r.n]
        PROVE  Redis!Next
    <3>1. Redis!Set(r.val, r.exp)
      BY <1>1, <2>4, <2>6 DEF Redis!Set, Redis!Answer
    <3> QED
      BY <1>1, <3>1, KeyCommands
  <2> QED
    BY <1>1, <2>1, <2>2, <2>4, <2>5, <2>6, StringEnds
<1> QED
  BY <1>2, <1>3

\* SET NX: the claim.
LEMMA NXClaimStep ==
    ASSUME NEW c \in Clients, Context(c), NXPhase(cl[c], item, shown, now),
           Claim(c, "list", "put")
    PROVE  Good(c)
<1> DEFINE r == cl[c]
           q == cl'[c]
<1>1. /\ Whole(item, shown, now) /\ now' = now /\ cl \in [Clients -> Client] /\ item \in ItemType
      /\ r.op = "set nx" /\ r.n = 0 /\ r.exp \in {0, now + 1} /\ r.pc # "idle"
      /\ item' = CreateTypeIfAbsent(item, TStr, now)
  BY ContextTypes
     DEF Claim, At, ClientStep, NXPhase, NXClaim, NXReclaim, NXPut, NXExpiry, Reclaims
<1>2. CASE Live(item, now)
  <2>1. Return(c) /\ q.pc = "idle" /\ item' = item
    BY <1>1, <1>2, Moves DEF Claim, CreateTypeIfAbsent
  <2>2. shown.t # NoType
    BY <1>1, <1>2 DEF Whole, Live, HasMeta
  <2>3. ASSUME shown' = shown, last' = [op |-> r.op, n |-> r.n]
        PROVE  Redis!Next
    BY <1>1, <2>2, <2>3, Refusals
  <2> QED
    BY <1>1, <2>1, <2>3, EndsUnchanged
<1>3. CASE ~Live(item, now)
  <2>1. item' = Claimed(item, TStr) /\ cl' = [cl EXCEPT ![c].pc = "list", ![c].ret = "put"]
    BY <1>1, <1>3 DEF Claim, CreateTypeIfAbsent
  <2>2. q.pc = "list" /\ q.ret = "put" /\ Keeps(q, r)
    BY <1>1, <2>1, Moves
  <2>3. Hollow(item', TStr)
    BY <1>1, <2>1, Leaves, StringAssumption
  <2>4. shown = Absent
    BY <1>1, <1>3 DEF Whole
  <2>5. NXReclaim(q, item', shown)
    BY <2>2, <2>3, <2>4 DEF NXReclaim, Reclaims
  <2>6. NXPhase(q, item', shown, now)
    BY <1>1, <2>2, <2>5 DEF NXPhase, Keeps
  <2> QED
    BY <1>1, <2>2, <2>6, Goes DEF Phase
<1> QED
  BY <1>2, <1>3

\* SET NX: the reclaim of what an expired key left.
LEMMA NXReclaimSteps ==
    ASSUME NEW c \in Clients, Context(c), NXPhase(cl[c], item, shown, now),
           DeleteMembersSteps(c)
    PROVE  Good(c)
<1> DEFINE r == cl[c]
           q == cl'[c]
           e == Remove(item, Present(item))
<1>1. /\ NXReclaim(r, item, shown) /\ r.op = "set nx" /\ r.n = 0 /\ r.exp \in {0, now + 1}
      /\ item \in ItemType
  BY ContextTypes
     DEF DeleteMembersSteps, ListStep, ReclaimStep, At, NXPhase, NXClaim, NXPut, NXExpiry
<1>2. Reclaims(r, "put", item) /\ Hollow(item, TStr) /\ shown = Absent
  BY <1>1 DEF NXReclaim
<1>3. Stringy(e) /\ e.exp = 0
  BY <1>1, <1>2, HollowString
<1> HIDE DEF e
<1>4. /\ now' = now /\ Keeps(q, r)
      /\ \/ Reclaims(q, "put", item') /\ item' = item
         \/ item' = e /\ q.pc = "put"
  BY <1>2, ReclaimSteps DEF e
<1>5. NXReclaim(q, item', shown) \/ NXPut(q, item', shown)
  BY <1>2, <1>3, <1>4 DEF NXReclaim, NXPut
<1>6. NXPhase(q, item', shown, now) /\ q.pc # "idle"
  BY <1>1, <1>4, <1>5 DEF NXPhase, Keeps, Reclaims
<1> QED
  BY <1>4, <1>6, Goes DEF Phase

\* SET NX: the value, and the expiry if there is one.
LEMMA NXValueSteps ==
    ASSUME NEW c \in Clients, Context(c), NXPhase(cl[c], item, shown, now),
           \/ PutValue(c, IF cl[c].exp = 0 THEN "idle" ELSE "setexp")
           \/ SetExpireStep(c)
    PROVE  Good(c)
<1> DEFINE r == cl[c]
           q == cl'[c]
<1>1. /\ now' = now /\ cl \in [Clients -> Client] /\ r.val \in Vals /\ now \in Nat
      /\ r.op = "set nx" /\ r.n = 0 /\ r.exp \in {0, now + 1}
  <2>1. now' = now
    BY DEF PutValue, SetExpireStep, ClientStep
  <2>2. r.op = "set nx" /\ r.n = 0 /\ r.exp \in {0, now + 1}
    BY DEF NXPhase
  <2>3. r.val \in Vals
    BY <2>2, ContextTypes DEF ClientInv, Writers
  <2> QED
    BY <2>1, <2>2, <2>3, ContextTypes
<1>5. r.exp \in Nat /\ (r.exp = 0 \/ r.exp > now)
  <2>1. r.exp \in {0, now + 1} /\ now \in Nat
    BY <1>1
  <2> HIDE DEF r
  <2> QED
    BY <2>1
<1>2. ASSUME shown = Absent, r.pc # "idle", q.pc = "idle", Written(item', r.val),
             item'.exp = r.exp
      PROVE  Good(c)
  <2>1. item'.exp = 0 \/ item'.exp > now
    BY <1>2, <1>5
  <2>2. ASSUME /\ shown' = Redis!StringOf(r.val, item'.exp)
               /\ last' = [op |-> r.op, n |-> r.n]
        PROVE  Redis!Next
    <3>1. Redis!SetIfAbsent("set nx", r.val, r.exp)
      BY <1>1, <1>2, <2>2, AbsentShape DEF Redis!SetIfAbsent, Redis!Answer
    <3> QED
      BY <1>1, <3>1, KeyCommands
  <2> QED
    BY <1>1, <1>2, <2>1, <2>2, StringEnds
<1>3. CASE PutValue(c, IF r.exp = 0 THEN "idle" ELSE "setexp")
  <2>1. r.pc = "put" /\ NXPut(r, item, shown) /\ item' = Put(item, ValueSK, r.val)
    BY <1>3 DEF PutValue, At, NXPhase, NXClaim, NXReclaim, NXPut, NXExpiry, Reclaims
  <2>2. Stringy(item) /\ item.exp = 0 /\ shown = Absent
    BY <2>1 DEF NXPut
  <2>3. Written(item', r.val) /\ item'.exp = 0
    BY <1>1, <2>1, <2>2, StringSteps
  <2>4. CASE r.exp = 0
    <3>1. Return(c) /\ q.pc = "idle"
      BY <1>1, <1>3, <2>4, Moves DEF PutValue
    <3> QED
      BY <1>2, <2>1, <2>2, <2>3, <2>4, <3>1
  <2>5. CASE r.exp # 0
    <3>1. Goto(c, "setexp")
      BY <1>3, <2>5 DEF PutValue
    <3>2. q.pc = "setexp" /\ Keeps(q, r)
      BY <1>1, <3>1, Moves
    <3>3. NXExpiry(q, item', shown)
      BY <2>2, <2>3, <2>5, <3>2 DEF NXExpiry, Keeps
    <3>4. NXPhase(q, item', shown, now)
      BY <1>1, <3>2, <3>3 DEF NXPhase, Keeps
    <3> QED
      BY <1>1, <3>2, <3>4, Goes DEF Phase
  <2> QED
    BY <2>4, <2>5
<1>4. CASE SetExpireStep(c)
  <2>1. r.pc = "setexp" /\ NXExpiry(r, item, shown)
    BY <1>4 DEF SetExpireStep, At, NXPhase, NXClaim, NXReclaim, NXPut, NXExpiry, Reclaims
  <2>2. Written(item, r.val) /\ shown = Absent
    BY <2>1 DEF NXExpiry
  <2>3. item' = SetExpire(item, r.exp) /\ Return(c) /\ q.pc = "idle"
    BY <1>1, <1>4, Moves DEF SetExpireStep
  <2>4. Written(item', r.val) /\ item'.exp = r.exp
    <3>1. Written(SetExpire(item, r.exp), r.val) /\ SetExpire(item, r.exp).exp = r.exp
      <4>1. r.exp \in Nat /\ Written(item, r.val)
        BY <1>5, <2>2
      <4> HIDE DEF r
      <4> QED
        BY <4>1, StringSteps
    <3> QED
      BY <2>3, <3>1
  <2> QED
    BY <1>2, <2>1, <2>2, <2>3, <2>4
<1> QED
  BY <1>3, <1>4

\* Where a GETSET or an INCR is, from its label.
LEMMA ValueAt ==
    ASSUME NEW r, NEW k, NEW s, NEW t, ValuePhase(r, k, s, t)
    PROVE  /\ r.op \in {"getset", "incr"} /\ r.n = 0
           /\ r.pc = "ensure" => Whole(k, s, t)
           /\ r.pc \in {"list", "reclaim"} => ValueReclaim(r, k, s)
           /\ r.pc \in {"getset", "read"} => ValueReady(r, k, s)
           /\ r.pc = "cas" => ValueCas(r, k, s)
           /\ r.pc = "persist" => ValuePersist(r, k, s)
           /\ r.pc # "idle"
  BY DEF ValuePhase, ValueEnsure, ValueReclaim, ValueReady, ValueCas, ValuePersist, ValueNext,
         Reclaims

\* ensureTypeExpiring and the reclaim of an expired key's items.
LEMMA ValueEnsureSteps ==
    ASSUME NEW c \in Clients, Context(c), ValuePhase(cl[c], item, shown, now),
           \/ EnsureTypeExpiringStep(c, TStr, ValueNext(cl[c].op))
           \/ DeleteMembersSteps(c)
    PROVE  Good(c)
<1> DEFINE r == cl[c]
           q == cl'[c]
           next == ValueNext(r.op)
<1>1. /\ r.op \in {"getset", "incr"} /\ r.n = 0 /\ item \in ItemType /\ next # "idle"
      /\ next \notin {"list", "reclaim"} /\ r.pc # "idle"
  BY ValueAt, ContextTypes DEF ValueNext
<1>2. ASSUME now' = now, Keeps(q, r), q.pc # "idle",
             ValueReclaim(q, item', shown) \/ ValueReady(q, item', shown)
      PROVE  Good(c)
  <2>1. ValuePhase(q, item', shown, now)
    BY <1>1, <1>2 DEF ValuePhase, Keeps
  <2> QED
    BY <1>2, <2>1, Goes DEF Phase
<1>3. CASE EnsureTypeExpiringStep(c, TStr, next)
  <2>1. Whole(item, shown, now) /\ Shapely(item)
    BY <1>3, ValueAt DEF EnsureTypeExpiringStep, At, Whole
  <2>2. CASE /\ q.pc = "idle" /\ item' = item /\ Live(item, now) /\ item.t \notin {NoType, TStr}
             /\ now' = now
    <3>1. shown = item
      BY <2>1, <2>2 DEF Whole
    <3>2. ASSUME shown' = shown, last' = [op |-> r.op, n |-> r.n]
          PROVE  Redis!Next
      BY <1>1, <2>2, <3>1, <3>2, Refusals
    <3> QED
      BY <1>1, <2>1, <2>2, <3>2, EndsUnchanged
  <2>3. CASE /\ Reclaims(q, next, item') /\ Keeps(q, r) /\ Hollow(item', TStr)
             /\ ~Live(item, now) /\ now' = now
    <3>1. shown = Absent
      BY <2>1, <2>3 DEF Whole
    <3>2. ValueReclaim(q, item', shown) /\ q.pc # "idle"
      BY <2>3, <3>1 DEF ValueReclaim, Keeps, Reclaims
    <3> QED
      BY <1>2, <2>3, <3>2
  <2>4. CASE /\ q.pc = next /\ Keeps(q, r) /\ Ready(item', item, TStr)
             /\ (item = Absent \/ Live(item, now)) /\ now' = now
    <3>1. shown = item
      BY <2>1, <2>4 DEF Whole
    <3>2. ValueReady(q, item', shown)
      BY <2>4, <3>1 DEF ValueReady, Keeps
    <3> QED
      BY <1>1, <1>2, <2>4, <3>2
  <2> QED
    BY <1>1, <1>3, <2>1, <2>2, <2>3, <2>4, StringAssumption, EnsureSteps
<1>4. CASE DeleteMembersSteps(c)
  <2>1. ValueReclaim(r, item, shown)
    BY <1>4, ValueAt DEF DeleteMembersSteps, ListStep, ReclaimStep, At
  <2>2. Reclaims(r, next, item) /\ Hollow(item, TStr) /\ shown = Absent
    BY <2>1 DEF ValueReclaim
  <2>3. /\ now' = now /\ Keeps(q, r)
        /\ \/ Reclaims(q, next, item') /\ item' = item
           \/ item' = Remove(item, Present(item)) /\ q.pc = next
    BY <1>1, <1>4, <2>2, ReclaimSteps
  <2>4. Ready(Remove(item, Present(item)), Absent, TStr)
    BY <1>1, <2>2, HollowString
  <2>5. ValueReclaim(q, item', shown) \/ ValueReady(q, item', shown)
    BY <2>2, <2>3, <2>4 DEF ValueReclaim, ValueReady, Keeps
  <2>6. q.pc # "idle"
    BY <1>1, <2>3 DEF Reclaims
  <2> QED
    BY <1>2, <2>3, <2>5, <2>6
<1> QED
  BY <1>3, <1>4

\* A string's meta item over a value is the string that is shown.
LEMMA ValueThere ==
    ASSUME NEW s, Shapely(s), NEW k, Ready(k, s, TStr), k.data[ValueSK] # Gone
    PROVE  k = s /\ s.t = TStr
<1>1. Stringy(k) /\ k.exp = s.exp /\ k.data = s.data
  BY StringSteps
<1>2. s # Absent /\ s.t = TStr /\ s.cnt = 0 /\ s \in ItemType
  BY <1>1, AbsentShape, TypesDiffer DEF Shapely, Ready
<1>3. k \in ItemType /\ k.t = s.t /\ k.cnt = s.cnt
  BY <1>1, <1>2 DEF Stringy
<1> QED
  BY <1>1, <1>2, <1>3, SameKey

\* The write of INCR or APPEND.
LEMMA AddedOne ==
    ASSUME NEW c \in Clients, Context(c), now' = now, cl[c].pc # "idle", cl'[c].pc = "idle",
           cl[c].op \in {"incr", "append"}, cl[c].n = 0, NEW v \in Vals,
           v = Base(shown.data[ValueSK]) + 1, Ready(item, shown, TStr),
           item' = Put(item, ValueSK, v)
    PROVE  Good(c)
<1>1. Shows(shown, now) /\ shown \in ItemType /\ now \in Nat /\ Shapely(shown)
  BY ContextTypes DEF Shows
<1>2. Stringy(item) /\ item.exp = shown.exp
  BY <1>1, StringSteps
<1>3. Written(item', v) /\ item'.exp = shown.exp
  BY <1>2, StringSteps
<1>4. shown.exp = 0 \/ shown.exp > now
  <2>1. CASE shown = Absent
    BY <2>1, AbsentShape
  <2>2. CASE Live(shown, now)
    <3>1. shown.exp \in Nat /\ ~(shown.exp > 0 /\ shown.exp <= now)
      BY <1>1, <2>2 DEF Live, IsExpired, ItemType
    <3> QED
      BY <1>1, <3>1
  <2> QED
    BY <1>1, <2>1, <2>2 DEF Shows
<1>5. ASSUME /\ shown' = Redis!StringOf(v, item'.exp)
             /\ last' = [op |-> cl[c].op, n |-> cl[c].n]
      PROVE  Redis!Next
  <2>1. v = Redis!Number(ValueSK) + 1
    BY DEF Redis!Number, Base
  <2>2. Redis!Is(TStr)
    BY DEF Redis!Is, Ready
  <2>3. Redis!AddOne(cl[c].op)
    BY <1>3, <1>5, <2>1, <2>2 DEF Redis!AddOne, Redis!Answer
  <2> QED
    BY <2>3, KeyCommands
<1> QED
  BY <1>3, <1>4, <1>5, StringEnds

\* GETSET: the value, then the expiry.
LEMMA GetSetSteps ==
    ASSUME NEW c \in Clients, Context(c), ValuePhase(cl[c], item, shown, now),
           cl[c].op = "getset", GetSetValue(c) \/ PersistStep(c)
    PROVE  Good(c)
<1> DEFINE r == cl[c]
           q == cl'[c]
<1>1. /\ now' = now /\ cl \in [Clients -> Client] /\ r.val \in Vals /\ r.n = 0
      /\ Shapely(shown) /\ r.pc # "idle"
  BY ContextTypes, ValueAt
     DEF GetSetValue, PersistStep, At, ClientStep, ClientInv, Writers, Shows
<1>2. CASE GetSetValue(c)
  <2>1. ValueReady(r, item, shown) /\ item' = Put(item, ValueSK, r.val)
    BY <1>2, ValueAt DEF GetSetValue, At
  <2>2. Ready(item, shown, TStr) /\ shown.t \in {NoType, TStr}
    BY <2>1 DEF ValueReady, Ready
  <2>3. Written(item', r.val)
    <3>1. Stringy(item)
      BY <1>1, <2>2, StringSteps
    <3> QED
      BY <1>1, <2>1, <3>1, StringSteps
  <2>4. q.pc = "persist" /\ q.op = r.op /\ q.n = r.n /\ q.val = r.val
    <3>1. cl[c] \in ClientType /\ DOMAIN cl = Clients
      BY ContextTypes
    <3>2. cl' = [cl EXCEPT ![c] = [@ EXCEPT !.pc = "persist", !.seen = Value(item)]]
      BY <1>2 DEF GetSetValue
    <3> QED
      BY <3>1, <3>2 DEF ClientType
  <2>5. ValuePhase(q, item', shown, now)
    BY <1>1, <2>2, <2>3, <2>4 DEF ValuePhase, ValuePersist
  <2> QED
    BY <1>1, <2>4, <2>5, Goes DEF Phase
<1>3. CASE PersistStep(c)
  <2>1. ValuePersist(r, item, shown) /\ item' = SetExpire(item, 0) /\ Return(c)
    BY <1>3, ValueAt DEF PersistStep, At, Persist
  <2>2. Written(item, r.val) /\ shown.t \in {NoType, TStr} /\ q.pc = "idle"
    BY <1>1, <2>1, Moves DEF ValuePersist
  <2>3. Written(item', r.val) /\ item'.exp = 0
    <3>1. Written(SetExpire(item, 0), r.val) /\ SetExpire(item, 0).exp = 0
      <4>1. 0 \in Nat /\ Written(item, r.val)
        BY <2>2
      <4> HIDE DEF r
      <4> QED
        BY <4>1, StringSteps
    <3> QED
      BY <2>1, <3>1
  <2>4. ASSUME /\ shown' = Redis!StringOf(r.val, item'.exp)
               /\ last' = [op |-> r.op, n |-> r.n]
        PROVE  Redis!Next
    <3>1. Redis!GetSet(r.val)
      BY <1>1, <2>2, <2>3, <2>4 DEF Redis!GetSet, Redis!Is, Redis!Answer
    <3> QED
      BY <1>1, <3>1, KeyCommands
  <2> QED
    BY <1>1, <2>2, <2>3, <2>4, StringEnds
<1> QED
  BY <1>2, <1>3

\* INCR: the read and the compare-and-set.
LEMMA IncrSteps ==
    ASSUME NEW c \in Clients, Context(c), ValuePhase(cl[c], item, shown, now),
           cl[c].op = "incr",
           IncrRead(c, ValueSK) \/ CompareAndSet(c, "cas", "read", ValueSK)
    PROVE  Good(c)
<1> DEFINE r == cl[c]
           q == cl'[c]
<1>1. /\ now' = now /\ cl \in [Clients -> Client] /\ r.n = 0
      /\ Shapely(shown) /\ Shows(shown, now) /\ r.pc # "idle"
  BY ContextTypes, ValueAt
     DEF IncrRead, CompareAndSet, At, LocalStep, ClientStep, Shows
<1>2. CASE IncrRead(c, ValueSK)
  <2>1. ValueReady(r, item, shown) /\ item' = item
    BY <1>2, ValueAt DEF IncrRead, At, LocalStep
  <2>2. Ready(item, shown, TStr)
    BY <2>1 DEF ValueReady
  <2>3. CASE Base(item.data[ValueSK]) + 1 \in Vals
    <3>1. cl' = [cl EXCEPT ![c] = [@ EXCEPT !.pc = "cas", !.seen = item.data[ValueSK],
                                            !.val = Base(item.data[ValueSK]) + 1]]
      BY <1>2, <2>3 DEF IncrRead
    <3>2. q.pc = "cas" /\ q.op = r.op /\ q.n = r.n /\ q.seen = item.data[ValueSK]
      <4>1. cl[c] \in ClientType /\ DOMAIN cl = Clients
        BY ContextTypes
      <4> QED
        BY <3>1, <4>1 DEF ClientType
    <3>3. ValuePhase(q, item', shown, now)
      BY <1>1, <2>1, <2>2, <3>2 DEF ValuePhase, ValueCas
    <3> QED
      BY <1>1, <3>2, <3>3, Goes DEF Phase
  <2>4. CASE Base(item.data[ValueSK]) + 1 \notin Vals
    <3>1. Return(c) /\ q.pc = "idle"
      BY <1>1, <1>2, <2>4, Moves DEF IncrRead
    <3>2. item.data[ValueSK] # Gone /\ item.data[ValueSK] + 1 \notin Vals
      <4>1. ASSUME item.data[ValueSK] = Gone
            PROVE  FALSE
        <5>1. Base(item.data[ValueSK]) = 0 /\ 0 + 1 = 1
          BY <4>1 DEF Base
        <5> QED
          BY <2>4, <5>1, SerialAssumption
      <4> QED
        BY <2>4, <4>1 DEF Base
    <3>3. item = shown /\ shown.t = TStr
      BY <1>1, <2>2, <3>2, ValueThere
    <3>4. Whole(item, shown, now)
      BY <1>1, <3>3, AbsentShape, TypesDiffer DEF Whole, Shows
    <3>5. ASSUME shown' = shown, last' = [op |-> r.op, n |-> r.n]
          PROVE  Redis!Next
      BY <1>1, <3>2, <3>3, <3>5, Refusals
    <3> QED
      BY <1>1, <2>1, <3>1, <3>4, <3>5, EndsUnchanged
  <2> QED
    BY <2>3, <2>4
<1>3. CASE CompareAndSet(c, "cas", "read", ValueSK)
  <2>1. r.pc = "cas" /\ ValueCas(r, item, shown)
    BY <1>3, ValueAt DEF CompareAndSet, At
  <2>2. Ready(item, shown, TStr) /\ r.seen = item.data[ValueSK]
    BY <2>1 DEF ValueCas
  <2>3. r.val \in Vals /\ r.val = Base(r.seen) + 1
    BY <2>1, ContextTypes DEF ClientInv
  <2>4. item' = Put(item, ValueSK, r.val) /\ Return(c)
    BY <1>3, <2>2, TypesDiffer DEF CompareAndSet
  <2>5. q.pc = "idle"
    BY <1>1, <2>4, Moves
  <2>6. r.val = Base(shown.data[ValueSK]) + 1
    <3>1. item.data = shown.data
      BY <1>1, <2>2, StringSteps
    <3> QED
      BY <2>2, <2>3, <3>1
  <2> QED
    BY <1>1, <2>2, <2>3, <2>4, <2>5, <2>6, AddedOne
<1> QED
  BY <1>2, <1>3

\* Where an APPEND is, from its label.
LEMMA AppAt ==
    ASSUME NEW r, NEW k, NEW s, NEW t, AppPhase(r, k, s, t)
    PROVE  /\ r.op = "append" /\ r.n = 0 /\ r.pc # "idle"
           /\ r.pc = "load" => AppLoad(r, k, s, t)
           /\ r.pc = "get" => AppGet(r, k, s, t)
           /\ r.pc = "ensure" => AppEnsure(r, k, s, t)
           /\ r.pc \in {"list", "reclaim"} => AppReclaim(r, k, s)
           /\ r.pc = "swap" => AppSwap(r, k, s)
  BY DEF AppPhase, AppLoad, AppGet, AppEnsure, AppReclaim, AppSwap, Reclaims

\* An APPEND that starts over finds a meta item alone.
LEMMA AgainIs ==
    ASSUME NEW r, NEW k, NEW s, Again(r, k, s)
    PROVE  /\ s = Absent /\ r.tries = 1 /\ Ready(k, s, TStr) /\ k \in ItemType
           /\ k.t = TStr /\ k.exp = 0 /\ k.data[ValueSK] = Gone /\ EnsureType(k, TStr, 0) = k
<1>1. s = Absent /\ r.tries = 1 /\ Ready(k, Absent, TStr)
  BY DEF Again
<1>2. Stringy(k) /\ k.exp = 0 /\ k.data = Absent.data
  BY <1>1, AbsentShape, StringSteps
<1>3. /\ k \in ItemType /\ k.t = TStr /\ k.cnt = 0 /\ k.cnt + 0 = k.cnt
      /\ k.data[ValueSK] = Gone
  BY <1>2, AbsentShape, TypesDiffer DEF Stringy
<1>4. EnsureType(k, TStr, 0) = k
  BY <1>3 DEF EnsureType, ItemType
<1> QED
  BY <1>1, <1>2, <1>3, <1>4

\* readStringForRMW, first call.
LEMMA AppLoadStep ==
    ASSUME NEW c \in Clients, Context(c), AppPhase(cl[c], item, shown, now), AppendLoad(c)
    PROVE  Good(c)
<1> DEFINE r == cl[c]
           q == cl'[c]
<1>1. /\ AppLoad(r, item, shown, now) /\ now' = now /\ item' = item /\ cl \in [Clients -> Client]
      /\ r.op = "append" /\ r.n = 0 /\ r.pc # "idle" /\ cl[c] \in ClientType
      /\ DOMAIN cl = Clients
  BY AppAt, ContextTypes DEF AppendLoad, At, LocalStep, ClientStep
<1>2. Again(r, item, shown) \/ (r.tries = 0 /\ Whole(item, shown, now))
  BY <1>1 DEF AppLoad
<1>3. CASE Live(item, now) /\ item.t # TStr
  <2>1. Return(c) /\ q.pc = "idle"
    BY <1>1, <1>3, Moves DEF AppendLoad
  <2>2. Whole(item, shown, now) /\ shown = item
    BY <1>2, <1>3, AgainIs DEF Whole
  <2>3. ASSUME shown' = shown, last' = [op |-> r.op, n |-> r.n]
        PROVE  Redis!Next
    BY <1>1, <1>3, <2>2, <2>3, Refusals DEF Live, HasMeta
  <2> QED
    BY <1>1, <2>1, <2>2, <2>3, EndsUnchanged
<1>4. CASE ~(Live(item, now) /\ item.t # TStr)
  <2>1. cl' = [cl EXCEPT ![c] = [@ EXCEPT !.pc = "get",
                                          !.val = IF Live(item, now) THEN 0 ELSE Gone]]
    BY <1>4 DEF AppendLoad
  <2>2. /\ q.pc = "get" /\ q.val = (IF Live(item, now) THEN 0 ELSE Gone)
        /\ q.op = r.op /\ q.n = r.n /\ q.tries = r.tries
    BY <1>1, <2>1 DEF ClientType
  <2>3. Again(r, item, shown) => Again(q, item', shown)
    BY <1>1, <2>2 DEF Again
  <2>4. r.tries = 0 /\ Whole(item, shown, now) => First(q, item', shown, now)
    BY <1>1, <1>4, <2>2, AbsentShape DEF First, Whole
  <2>5. AppGet(q, item', shown, now)
    BY <1>1, <1>2, <2>2, <2>3, <2>4 DEF AppGet
  <2>6. AppPhase(q, item', shown, now)
    BY <1>1, <2>2, <2>5 DEF AppPhase
  <2> QED
    BY <1>1, <2>2, <2>6, Goes DEF Phase
<1> QED
  BY <1>3, <1>4

\* readStringForRMW, second call, and the compute function with its guard.
LEMMA AppGetStep ==
    ASSUME NEW c \in Clients, Context(c), AppPhase(cl[c], item, shown, now), AppendGet(c)
    PROVE  Good(c)
<1> DEFINE r == cl[c]
           q == cl'[c]
           base == IF r.val = Gone THEN 0 ELSE Base(item.data[ValueSK])
<1>1. /\ AppGet(r, item, shown, now) /\ now' = now /\ item' = item /\ cl \in [Clients -> Client]
      /\ r.op = "append" /\ r.n = 0 /\ r.pc # "idle" /\ cl[c] \in ClientType
      /\ DOMAIN cl = Clients
  BY AppAt, ContextTypes DEF AppendGet, At, LocalStep, ClientStep
<1>2. \/ Again(r, item, shown)
      \/ First(r, item, shown, now) /\ r.val = IF Live(item, now) THEN 0 ELSE Gone
  BY <1>1 DEF AppGet
<1>3. base = Base(shown.data[ValueSK])
  <2>1. CASE Again(r, item, shown)
    <3>1. item.data[ValueSK] = Gone /\ shown = Absent
      BY <2>1, AgainIs
    <3> QED
      BY <3>1, AbsentShape, TypesDiffer DEF Base
  <2>2. CASE First(r, item, shown, now) /\ r.val = IF Live(item, now) THEN 0 ELSE Gone
    <3>1. CASE Live(item, now)
      <4>1. shown = item /\ r.val # Gone
        BY <2>2, <3>1, ItemsAssumption, ConstantsAssumption DEF First, Whole
      <4> QED
        BY <4>1
    <3>2. CASE ~Live(item, now)
      <4>1. shown = Absent /\ r.val = Gone
        BY <2>2, <3>2 DEF First, Whole
      <4> QED
        BY <4>1, AbsentShape, TypesDiffer DEF Base
    <3> QED
      BY <3>1, <3>2
  <2> QED
    BY <1>2, <2>1, <2>2
<1>4. CASE base + 1 \in Vals
  <2>1. cl' = [cl EXCEPT ![c] = [@ EXCEPT !.pc = "ensure", !.seen = item.data[ValueSK],
                                          !.val = base + 1]]
    BY <1>4 DEF AppendGet, Value
  <2>2. /\ q.pc = "ensure" /\ q.val = base + 1 /\ q.seen = item.data[ValueSK]
        /\ q.op = r.op /\ q.n = r.n /\ q.tries = r.tries
    <3> HIDE DEF base
    <3> QED
      BY <1>1, <2>1 DEF ClientType
  <2>3. Again(q, item', shown) \/ First(q, item', shown, now)
    BY <1>1, <1>2, <2>2 DEF Again, First
  <2>4. Appended(q, shown)
    <3> HIDE DEF base
    <3> QED
      BY <1>3, <1>4, <2>2 DEF Appended
  <2>5. AppEnsure(q, item', shown, now)
    BY <1>1, <2>2, <2>3, <2>4 DEF AppEnsure
  <2>6. AppPhase(q, item', shown, now)
    BY <1>1, <2>2, <2>5 DEF AppPhase
  <2> QED
    BY <1>1, <2>2, <2>6, Goes DEF Phase
<1>5. CASE base + 1 \notin Vals
  <2>1. Return(c) /\ q.pc = "idle"
    BY <1>1, <1>5, Moves DEF AppendGet, Value
  <2>2. shown.data[ValueSK] # Gone /\ shown.data[ValueSK] + 1 \notin Vals
    <3> HIDE DEF base
    <3>1. ASSUME shown.data[ValueSK] = Gone
          PROVE  FALSE
      <4>1. base = 0 /\ 0 + 1 = 1
        BY <1>3, <3>1 DEF Base
      <4> QED
        BY <1>5, <4>1, SerialAssumption
    <3> QED
      BY <1>3, <1>5, <3>1 DEF Base
  <2>3. shown # Absent
    BY <2>2, AbsentShape, TypesDiffer
  <2>4. First(r, item, shown, now)
    BY <1>2, <2>3, AgainIs
  <2>5. Whole(item, shown, now) /\ shown.t = TStr
    <3>1. Shapely(shown) /\ shown.t \in {NoType, TStr}
      BY <2>4, ContextTypes DEF First, Shows
    <3> QED
      BY <2>3, <2>4, <3>1, TypesDiffer DEF First, Shapely
  <2>6. ASSUME shown' = shown, last' = [op |-> r.op, n |-> r.n]
        PROVE  Redis!Next
    BY <1>1, <2>2, <2>5, <2>6, Refusals
  <2> QED
    BY <1>1, <2>1, <2>5, <2>6, EndsUnchanged
<1> QED
  BY <1>4, <1>5

\* ensureTypeExpiring, whose takeover reclaims the value that was read.
LEMMA AppEnsureSteps ==
    ASSUME NEW c \in Clients, Context(c), AppPhase(cl[c], item, shown, now),
           EnsureTypeExpiringStep(c, TStr, "swap") \/ DeleteMembersSteps(c)
    PROVE  Good(c)
<1> DEFINE r == cl[c]
           q == cl'[c]
<1>1. /\ r.op = "append" /\ r.n = 0 /\ r.pc # "idle" /\ item \in ItemType
      /\ cl \in [Clients -> Client]
  BY AppAt, ContextTypes
<1>2. ASSUME now' = now, Keeps(q, r), q.pc # "idle",
             AppReclaim(q, item', shown) \/ AppSwap(q, item', shown)
      PROVE  Good(c)
  <2>1. AppPhase(q, item', shown, now)
    BY <1>1, <1>2 DEF AppPhase, Keeps
  <2> QED
    BY <1>2, <2>1, Goes DEF Phase
<1>3. ASSUME Keeps(q, r), Appended(r, shown)
      PROVE  Appended(q, shown) /\ q.tries = r.tries /\ q.seen = r.seen
  BY <1>3 DEF Keeps, Appended
<1>4. CASE EnsureTypeExpiringStep(c, TStr, "swap")
  <2>1. /\ Appended(r, shown) /\ r.seen = item.data[ValueSK]
        /\ Again(r, item, shown) \/ First(r, item, shown, now)
    BY <1>4, AppAt DEF EnsureTypeExpiringStep, At, AppEnsure
  <2>2. CASE Again(r, item, shown)
    <3>1. /\ Ready(item, shown, TStr) /\ EnsureType(item, TStr, 0) = item
          /\ ~TakesOver(item, now) /\ ExpiringAllows(item, TStr, now)
      BY <2>2, AgainIs DEF TakesOver, IsExpired, ExpiringAllows, TypeAllows
    <3>2. item' = item /\ Goto(c, "swap") /\ now' = now
      BY <1>4, <3>1 DEF EnsureTypeExpiringStep, EnsureTypeExpiring, ClientStep
    <3>3. q.pc = "swap" /\ Keeps(q, r)
      BY <1>1, <3>2, Moves
    <3>4. AppSwap(q, item', shown)
      BY <1>3, <2>1, <3>1, <3>2, <3>3 DEF AppSwap
    <3> QED
      BY <1>2, <3>2, <3>3, <3>4
  <2>3. CASE First(r, item, shown, now)
    <3>1. /\ Whole(item, shown, now) /\ Shapely(item) /\ r.tries = 0
          /\ shown.t \in {NoType, TStr}
      BY <2>3 DEF First, Whole
    <3>2. ~(Live(item, now) /\ item.t \notin {NoType, TStr})
      BY <3>1 DEF Whole
    <3>3. CASE /\ Reclaims(q, "swap", item') /\ Keeps(q, r) /\ Hollow(item', TStr)
               /\ ~Live(item, now) /\ now' = now
      <4>1. shown = Absent
        BY <3>1, <3>3 DEF Whole
      <4>2. AppReclaim(q, item', shown) /\ q.pc # "idle"
        BY <1>3, <2>1, <3>1, <3>3, <4>1 DEF AppReclaim, Reclaims
      <4> QED
        BY <1>2, <3>3, <4>2
    <3>4. CASE /\ q.pc = "swap" /\ Keeps(q, r) /\ Ready(item', item, TStr)
               /\ (item = Absent \/ Live(item, now)) /\ now' = now
      <4>1. shown = item
        BY <3>1, <3>4 DEF Whole
      <4>2. item'.data = item.data
        BY <3>1, <3>4, StringSteps
      <4>3. AppSwap(q, item', shown)
        BY <1>3, <2>1, <3>4, <4>1, <4>2 DEF AppSwap
      <4> QED
        BY <1>2, <3>4, <4>3
    <3> QED
      BY <1>4, <3>1, <3>2, <3>3, <3>4, StringAssumption, EnsureSteps
  <2> QED
    BY <2>1, <2>2, <2>3
<1>5. CASE DeleteMembersSteps(c)
  <2>1. AppReclaim(r, item, shown)
    BY <1>5, AppAt DEF DeleteMembersSteps, ListStep, ReclaimStep, At
  <2>2. /\ Reclaims(r, "swap", item) /\ Appended(r, shown) /\ Hollow(item, TStr)
        /\ shown = Absent /\ r.tries = 0
    BY <2>1 DEF AppReclaim
  <2>3. /\ now' = now /\ Keeps(q, r)
        /\ \/ Reclaims(q, "swap", item') /\ item' = item
           \/ item' = Remove(item, Present(item)) /\ q.pc = "swap"
    BY <1>5, <2>2, ReclaimSteps
  <2>4. Ready(Remove(item, Present(item)), Absent, TStr)
    BY <1>1, <2>2, HollowString
  <2>5. AppReclaim(q, item', shown) \/ AppSwap(q, item', shown)
    BY <1>3, <2>2, <2>3, <2>4 DEF AppReclaim, AppSwap
  <2>6. q.pc # "idle"
    BY <2>3 DEF Reclaims
  <2> QED
    BY <1>2, <2>3, <2>5, <2>6
<1> QED
  BY <1>4, <1>5

\* The compare-and-set: it lands, or APPEND starts over.
LEMMA AppSwapStep ==
    ASSUME NEW c \in Clients, Context(c), AppPhase(cl[c], item, shown, now),
           CompareAndSet(c, "swap", "load", ValueSK)
    PROVE  Good(c)
<1> DEFINE r == cl[c]
           q == cl'[c]
<1>1. /\ AppSwap(r, item, shown) /\ now' = now /\ cl \in [Clients -> Client]
      /\ r.op = "append" /\ r.n = 0 /\ r.pc # "idle"
  BY AppAt, ContextTypes DEF CompareAndSet, At, ClientStep
<1>2. /\ r.val \in Vals /\ r.val = Base(shown.data[ValueSK]) + 1 /\ Ready(item, shown, TStr)
      /\ r.seen = item.data[ValueSK] \/ (r.tries = 0 /\ shown = Absent)
  BY <1>1 DEF AppSwap, Appended
<1>3. CASE r.seen = item.data[ValueSK]
  <2>1. item' = Put(item, ValueSK, r.val) /\ Return(c)
    BY <1>3, TypesDiffer DEF CompareAndSet
  <2>2. q.pc = "idle"
    BY <1>1, <2>1, Moves
  <2> QED
    BY <1>1, <1>2, <2>1, <2>2, AddedOne
<1>4. CASE r.seen # item.data[ValueSK]
  <2>1. r.tries = 0 /\ shown = Absent /\ r.tries + 1 < MaxTries
    <3>1. 0 + 1 < MaxTries
      <4>1. MaxTries > 1 /\ MaxTries \in Nat
        BY SerialAssumption, ItemsAssumption
      <4> QED
        BY <4>1
    <3> QED
      BY <1>2, <1>4, <3>1
  <2>2. item' = item /\ cl' = [cl EXCEPT ![c].pc = "load", ![c].tries = @ + 1]
    BY <1>4, <2>1 DEF CompareAndSet
  <2>3. q.pc = "load" /\ q.tries = 0 + 1 /\ q.op = r.op /\ q.n = r.n
    <3>1. cl[c] \in ClientType /\ DOMAIN cl = Clients
      BY ContextTypes
    <3> QED
      BY <2>1, <2>2, <3>1 DEF ClientType
  <2>4. Again(q, item', shown)
    BY <1>2, <2>1, <2>2, <2>3 DEF Again
  <2>5. AppPhase(q, item', shown, now)
    BY <1>1, <2>3, <2>4 DEF AppPhase, AppLoad
  <2> QED
    BY <1>1, <2>3, <2>5, Goes DEF Phase
<1> QED
  BY <1>3, <1>4
-----------------------------------------------------------------------------
(***************************************************************************)
(* The commands, step by step.                                             *)
(***************************************************************************)

\* The next call of a command finds it between two calls.
LEMMA Busy ==
    ASSUME NEW c \in Clients, Continue(c)
    PROVE  cl[c].pc # "idle"
<1>1. ASSUME NEW type, NEW next,
             \/ LoadState(c, type, next) \/ EnsureTypeExpiringStep(c, type, next)
             \/ DeleteMembersSteps(c) \/ DeleteMetaStep(c, next) \/ EnqueueStep(c)
             \/ AdjustCountSteps(c, type)
      PROVE  cl[c].pc # "idle"
  BY <1>1 DEF LoadState, EnsureTypeExpiringStep, DeleteMembersSteps, ListStep, ReclaimStep,
              DeleteMetaStep, EnqueueStep, AdjustCountSteps, AdjustStep, DropIfEmptyStep, At
<1>2. ASSUME NEW counted,
             \/ WriteMember(c, counted) \/ RemoveMember(c) \/ ChooseMembers(c)
             \/ StoreReclaim(c) \/ StoreResult(c)
      PROVE  cl[c].pc # "idle"
  BY <1>2 DEF WriteMember, RemoveMember, ChooseMembers, StoreReclaim, StoreResult, At
<1>3. ASSUME NEW sk, IncrRead(c, sk) \/ CompareAndSet(c, "cas", "read", sk)
                     \/ CompareAndSet(c, "swap", "load", sk)
      PROVE  cl[c].pc # "idle"
  BY <1>3 DEF IncrRead, CompareAndSet, At
<1>4. ASSUME NEW type, AddMembers(c, type, TRUE) \/ AddMembers(c, type, FALSE)
                       \/ TakeMembers(c, type) \/ PickMembers(c, type) \/ StoreMembers(c, type)
      PROVE  cl[c].pc # "idle"
  BY <1>1, <1>2, <1>4 DEF AddMembers, TakeMembers, PickMembers, StoreMembers
<1>5. CASE KeyCommand(c)
  BY <1>1, <1>5
     DEF KeyCommand, Del, Expire, PersistCmd, DelLoad, ExpireLoad, SetExpireStep, PersistLoad,
         PersistStep, At
<1>6. CASE SetCommand(c)
  BY <1>4, <1>6 DEF SetCommand, SAdd, SRem, SPop, SStore
<1>7. CASE HashCommand(c)
  BY <1>1, <1>3, <1>4, <1>7 DEF HashCommand, HSet, HSetNX, HDel, HIncr, FieldThere, At
<1>8. CASE ZSetCommand(c)
  BY <1>1, <1>2, <1>4, <1>8
     DEF ZSetCommand, ZAdd, ZAddFlag, ZIncr, ZRem, ZRemRange, ZStore, WrongTypeOnly, Look,
         ZIncrRead, At
<1>9. CASE StringCommand(c)
  BY <1>1, <1>3, <1>9
     DEF StringCommand, SetCmd, SetNXOpt, SetNX, GetSet, Incr, AppendCmd, PutValue, SetXX,
         OverwriteAnyType, SetExpireStep, PersistStep, Claim, GetSetValue, AppendLoad,
         AppendGet, At
<1> QED
  BY <1>5, <1>6, <1>7, <1>8, <1>9 DEF Continue

\* The phases by the name of the command.
LEMMA PhaseOf ==
    ASSUME NEW r, NEW k, NEW s, NEW t, Phase(r, k, s, t)
    PROVE  /\ r.pc = "idle" => Whole(k, s, t)
           /\ r.pc # "idle" =>
                /\ r.op \in AddOps /\ r.op \notin Stores => AddPhase(r, k, s, t)
                /\ r.op \in TakeOps => TakePhase(r, k, s, t)
                /\ r.op \in {"del", "expirepast"} => DropPhase(r, k, s, t)
                /\ r.op \in Stores => AddPhase(r, k, s, t) \/ DropPhase(r, k, s, t)
                /\ r.op \in {"expire", "persist"} => ExpiryPhase(r, k, s, t)
                /\ r.op = "set" => SetPhase(r, k, s, t)
                /\ r.op = "set nx" => NXPhase(r, k, s, t)
                /\ r.op \in {"getset", "incr"} => ValuePhase(r, k, s, t)
                /\ r.op = "append" => AppPhase(r, k, s, t)
                /\ r.op \notin {"setnx", "zincr nx", "zincr xx"} \cup Flags
<1>1. AddPhase(r, k, s, t) => r.op \in AddOps /\ r.pc # "idle"
  BY AddAt
<1>2. TakePhase(r, k, s, t) => r.op \in TakeOps /\ r.pc # "idle"
  BY TakeAt
<1>3. DropPhase(r, k, s, t) => r.op \in DropOps /\ r.pc # "idle"
  BY DropAt
<1>4. ExpiryPhase(r, k, s, t) => r.op \in {"expire", "persist"} /\ r.pc # "idle"
  BY DEF ExpiryPhase
<1>5. SetPhase(r, k, s, t) => r.op = "set" /\ r.pc # "idle"
  BY SetAt
<1>6. NXPhase(r, k, s, t) => r.op = "set nx" /\ r.pc # "idle"
  BY DEF NXPhase, NXClaim, NXReclaim, NXPut, NXExpiry, Reclaims
<1>7. ValuePhase(r, k, s, t) => r.op \in {"getset", "incr"} /\ r.pc # "idle"
  BY ValueAt
<1>8. AppPhase(r, k, s, t) => r.op = "append" /\ r.pc # "idle"
  BY AppAt
<1>9. \/ r.pc = "idle" /\ Whole(k, s, t)
      \/ AddPhase(r, k, s, t) \/ TakePhase(r, k, s, t) \/ DropPhase(r, k, s, t)
      \/ ExpiryPhase(r, k, s, t) \/ SetPhase(r, k, s, t) \/ NXPhase(r, k, s, t)
      \/ ValuePhase(r, k, s, t) \/ AppPhase(r, k, s, t)
  BY DEF Phase
<1> QED
  BY <1>1, <1>2, <1>3, <1>4, <1>5, <1>6, <1>7, <1>8, <1>9
     DEF AddOps, TakeOps, DropOps, Stores, Finders, Flags

\* The write path.
LEMMA AddMembersSteps ==
    ASSUME NEW c \in Clients, Context(c), AddPhase(cl[c], item, shown, now),
           cl[c].op \notin {"hincr", "zincr"}, cl[c].op = "hsetnx" => ~FieldThere(c),
           AddMembers(c, AddType(cl[c].op), TRUE)
    PROVE  Good(c)
<1>1. AddNext(cl[c].op) = "write"
  BY DEF AddNext
<1>2. CASE WriteMember(c, TRUE)
  BY <1>2, AddWriteSteps
<1>3. CASE EnsureTypeExpiringStep(c, AddType(cl[c].op), "write") \/ DeleteMembersSteps(c)
  BY <1>1, <1>3, AddEnsureSteps
<1>4. CASE AdjustCountSteps(c, AddType(cl[c].op))
  BY <1>4, AddAdjustSteps
<1> QED
  BY <1>2, <1>3, <1>4 DEF AddMembers

\* The delete paths.
LEMMA TakeMembersSteps ==
    ASSUME NEW c \in Clients, Context(c), TakePhase(cl[c], item, shown, now),
           \/ cl[c].op \notin Finders /\ TakeMembers(c, TakeType(cl[c].op))
           \/ cl[c].op \in Finders /\ PickMembers(c, TakeType(cl[c].op))
    PROVE  Good(c)
<1>1. CASE RemoveMember(c)
  BY <1>1, TakeRemoveStep
<1>2. CASE LoadState(c, TakeType(cl[c].op),
                     IF cl[c].op \in Finders THEN "choose" ELSE "remove")
  BY <1>2, TakeLoadStep
<1>3. CASE ChooseMembers(c)
  BY <1>3, TakeChooseStep
<1>4. CASE AdjustStep(c, TakeType(cl[c].op))
  BY <1>4, TakeAdjustStep
<1>5. CASE DropIfEmptyStep(c)
  BY <1>5, TakeDropStep
<1> QED
  BY <1>1, <1>2, <1>3, <1>4, <1>5 DEF TakeMembers, PickMembers, AdjustCountSteps

\* The STORE commands: the destination is dropped, then filled.
LEMMA StoreMembersSteps ==
    ASSUME NEW c \in Clients, Context(c), cl[c].op \in Stores,
           AddPhase(cl[c], item, shown, now) \/ DropPhase(cl[c], item, shown, now),
           StoreMembers(c, AddType(cl[c].op))
    PROVE  Good(c)
<1> DEFINE r == cl[c]
<1>1. /\ r.op \notin {"hincr", "zincr", "hsetnx"} /\ AddNext(r.op) = "write"
      /\ DropNext(r.op) = "replace"
  BY DEF Stores, AddNext, DropNext
<1>2. CASE AddPhase(r, item, shown, now)
  <2>1. r.pc \in {"ensure", "list", "reclaim", "isnew", "read", "cas", "write", "adjust"}
    BY <1>2, AddAt
  <2>2. AddMembers(c, AddType(r.op), TRUE)
    BY <2>1 DEF StoreMembers, DeleteMetaStep, EnqueueStep, StoreReclaim, StoreResult, At
  <2> QED
    BY <1>1, <1>2, <2>2, AddMembersSteps
<1>3. CASE DropPhase(r, item, shown, now)
  <2>1. r.pc \in {"load", "delmeta", "enqueue", "list", "reclaim", "replace", "result"}
    BY <1>3, DropAt
  <2>2. \/ DeleteMembersSteps(c) \/ DeleteMetaStep(c, "replace") \/ EnqueueStep(c)
        \/ StoreReclaim(c) \/ StoreResult(c)
    BY <2>1 DEF StoreMembers, AddMembers, WriteMember, EnsureTypeExpiringStep,
                AdjustCountSteps, AdjustStep, DropIfEmptyStep, At
  <2> QED
    BY <1>1, <1>3, <2>2, DropReclaimSteps, DropMetaSteps, StoreSteps
<1> QED
  BY <1>2, <1>3

\* The next call of a key command.
LEMMA KeyCommandGood ==
    ASSUME NEW c \in Clients, Context(c), cl[c].pc # "idle", KeyCommand(c)
    PROVE  Good(c)
<1> DEFINE r == cl[c]
<1>1. Phase(r, item, shown, now)
  BY ContextTypes
<1>2. CASE Del(c)
  <2>1. r.op = "del" /\ DropPhase(r, item, shown, now) /\ DropNext(r.op) = "idle"
    BY <1>1, <1>2, PhaseOf DEF Del, DropNext, Stores
  <2>2. DelLoad(c) \/ DeleteMetaStep(c, "idle") \/ EnqueueStep(c) \/ DeleteMembersSteps(c)
    BY <1>2 DEF Del
  <2> QED
    BY <2>1, <2>2, DropLoadSteps, DropMetaSteps, DropReclaimSteps
<1>3. CASE Expire(c) /\ r.op = "expirepast"
  <2>1. DropPhase(r, item, shown, now) /\ DropNext(r.op) = "idle"
    BY <1>1, <1>3, PhaseOf DEF DropNext, Stores
  <2>2. r.pc # "setexp"
    BY <2>1, DropAt
  <2>3. ExpireLoad(c) \/ DeleteMetaStep(c, "idle") \/ EnqueueStep(c) \/ DeleteMembersSteps(c)
    BY <1>3, <2>2 DEF Expire, SetExpireStep, At
  <2> QED
    BY <1>3, <2>1, <2>3, DropLoadSteps, DropMetaSteps, DropReclaimSteps
<1>4. CASE Expire(c) /\ r.op = "expire"
  <2>1. ExpiryPhase(r, item, shown, now)
    BY <1>1, <1>4, PhaseOf
  <2>2. r.pc \in {"load", "setexp"}
    BY <1>4, <2>1 DEF ExpiryPhase
  <2>3. ExpireLoad(c) \/ SetExpireStep(c)
    BY <1>4, <2>2
       DEF Expire, DeleteMetaStep, EnqueueStep, DeleteMembersSteps, ListStep, ReclaimStep, At
  <2> QED
    BY <1>4, <2>1, <2>3, ExpiryLoadSteps, ExpiryWriteSteps
<1>5. CASE PersistCmd(c)
  <2>1. r.op = "persist" /\ ExpiryPhase(r, item, shown, now)
    BY <1>1, <1>5, PhaseOf DEF PersistCmd
  <2>2. PersistLoad(c) \/ PersistStep(c)
    BY <1>5 DEF PersistCmd
  <2> QED
    BY <2>1, <2>2, ExpiryLoadSteps, ExpiryWriteSteps
<1> QED
  BY <1>2, <1>3, <1>4, <1>5 DEF KeyCommand, Expire

\* The next call of a Set or Hash command.
LEMMA SetHashCommandGood ==
    ASSUME NEW c \in Clients, Context(c), cl[c].pc # "idle", SetCommand(c) \/ HashCommand(c)
    PROVE  Good(c)
<1> DEFINE r == cl[c]
<1>1. Phase(r, item, shown, now)
  BY ContextTypes
<1>2. CASE SAdd(c) \/ HSet(c)
  <2>1. /\ r.op \in {"sadd", "hset"} /\ AddPhase(r, item, shown, now)
        /\ AddMembers(c, AddType(r.op), TRUE)
    BY <1>1, <1>2, PhaseOf DEF SAdd, HSet, AddType, AddOps, Stores
  <2> QED
    BY <2>1, AddMembersSteps
<1>3. CASE SRem(c) \/ HDel(c)
  <2>1. /\ r.op \in {"srem", "hdel"} /\ TakePhase(r, item, shown, now)
        /\ TakeMembers(c, TakeType(r.op)) /\ r.op \notin Finders
    BY <1>1, <1>3, PhaseOf DEF SRem, HDel, TakeType, TakeOps, Finders
  <2> QED
    BY <2>1, TakeMembersSteps
<1>4. CASE SPop(c)
  <2>1. /\ TakePhase(r, item, shown, now) /\ PickMembers(c, TakeType(r.op)) /\ r.op \in Finders
    BY <1>1, <1>4, PhaseOf DEF SPop, TakeType, TakeOps, Finders
  <2> QED
    BY <2>1, TakeMembersSteps
<1>5. CASE SStore(c)
  <2>1. /\ AddPhase(r, item, shown, now) \/ DropPhase(r, item, shown, now)
        /\ r.op \in Stores /\ StoreMembers(c, AddType(r.op))
    BY <1>1, <1>5, PhaseOf DEF SStore, Stores, AddType
  <2> QED
    BY <2>1, StoreMembersSteps
<1>6. CASE HSetNX(c)
  <2>1. r.op = "hsetnx" /\ AddPhase(r, item, shown, now) /\ AddType(r.op) = THash
    BY <1>1, <1>6, PhaseOf DEF HSetNX, AddOps, Stores, AddType
  <2>2. CASE FieldThere(c) /\ Return(c) /\ LocalStep
    BY <2>1, <2>2, FieldThereStep
  <2>3. CASE ~FieldThere(c) /\ AddMembers(c, THash, TRUE)
    BY <2>1, <2>3, AddMembersSteps
  <2> QED
    BY <1>6, <2>2, <2>3 DEF HSetNX
<1>7. CASE HIncr(c)
  <2>1. /\ r.op = "hincr" /\ AddPhase(r, item, shown, now) /\ AddType(r.op) = THash
        /\ AddNext(r.op) = "read"
    BY <1>1, <1>7, PhaseOf DEF HIncr, AddOps, Stores, AddType, AddNext
  <2>2. CASE \E f \in r.args : CompareAndSet(c, "cas", "read", f)
    BY <2>1, <2>2, HIncrCasStep
  <2>3. CASE EnsureTypeExpiringStep(c, THash, "read") \/ DeleteMembersSteps(c)
    BY <2>1, <2>3, AddEnsureSteps
  <2>4. CASE \E f \in r.args : IncrRead(c, f)
    BY <2>1, <2>4, HIncrReadStep
  <2>5. CASE AdjustCountSteps(c, THash)
    BY <2>1, <2>5, AddAdjustSteps
  <2> QED
    BY <1>7, <2>2, <2>3, <2>4, <2>5 DEF HIncr
<1> QED
  BY <1>2, <1>3, <1>4, <1>5, <1>6, <1>7 DEF SetCommand, HashCommand

\* The next call of a Sorted Set command.
LEMMA ZSetCommandGood ==
    ASSUME NEW c \in Clients, Context(c), cl[c].pc # "idle", ZSetCommand(c)
    PROVE  Good(c)
<1> DEFINE r == cl[c]
<1>1. Phase(r, item, shown, now)
  BY ContextTypes
<1>2. CASE ZAdd(c)
  <2>1. /\ r.op = "zadd" /\ AddPhase(r, item, shown, now)
        /\ AddMembers(c, AddType(r.op), TRUE)
    BY <1>1, <1>2, PhaseOf DEF ZAdd, AddType, AddOps, Stores
  <2> QED
    BY <2>1, AddMembersSteps
<1>3. CASE ZAddFlag(c)
  BY <1>1, <1>3, PhaseOf DEF ZAddFlag
<1>4. CASE ZIncr(c)
  <2>1. r.op = "zincr"
    BY <1>1, <1>4, PhaseOf DEF ZIncr, ZIncrOps
  <2>2. AddPhase(r, item, shown, now) /\ AddType(r.op) = TZSet /\ AddNext(r.op) = "isnew"
    BY <1>1, <2>1, PhaseOf DEF AddOps, Stores, AddType, AddNext
  <2>3. r.pc \notin {"load", "look"}
    BY <2>2, AddAt
  <2>4. CASE WriteMember(c, FALSE)
    BY <2>1, <2>2, <2>4, AddWriteSteps
  <2>5. CASE EnsureTypeExpiringStep(c, TZSet, "isnew") \/ DeleteMembersSteps(c)
    BY <2>2, <2>5, AddEnsureSteps
  <2>6. CASE ZIncrRead(c)
    BY <2>1, <2>2, <2>6, ZIncrReadStep
  <2>7. CASE AdjustCountSteps(c, TZSet)
    BY <2>2, <2>7, AddAdjustSteps
  <2> QED
    BY <1>4, <2>3, <2>4, <2>5, <2>6, <2>7 DEF ZIncr, WrongTypeOnly, Look, At
<1>5. CASE ZRem(c)
  <2>1. /\ TakePhase(r, item, shown, now) /\ TakeMembers(c, TakeType(r.op))
        /\ r.op \notin Finders
    BY <1>1, <1>5, PhaseOf DEF ZRem, TakeType, TakeOps, Finders
  <2> QED
    BY <2>1, TakeMembersSteps
<1>6. CASE ZRemRange(c)
  <2>1. /\ TakePhase(r, item, shown, now) /\ PickMembers(c, TakeType(r.op)) /\ r.op \in Finders
    BY <1>1, <1>6, PhaseOf DEF ZRemRange, TakeType, TakeOps, Finders
  <2> QED
    BY <2>1, TakeMembersSteps
<1>7. CASE ZStore(c)
  <2>1. /\ AddPhase(r, item, shown, now) \/ DropPhase(r, item, shown, now)
        /\ r.op \in Stores /\ StoreMembers(c, AddType(r.op))
    BY <1>1, <1>7, PhaseOf DEF ZStore, Stores, AddType
  <2> QED
    BY <2>1, StoreMembersSteps
<1> QED
  BY <1>2, <1>3, <1>4, <1>5, <1>6, <1>7 DEF ZSetCommand

\* The next call of a String command.
LEMMA StringCommandGood ==
    ASSUME NEW c \in Clients, Context(c), cl[c].pc # "idle", StringCommand(c)
    PROVE  Good(c)
<1> DEFINE r == cl[c]
<1>1. Phase(r, item, shown, now)
  BY ContextTypes
<1>2. CASE SetCmd(c)
  <2>1. SetPhase(r, item, shown, now)
    BY <1>1, <1>2, PhaseOf DEF SetCmd
  <2> QED
    BY <1>2, <2>1, SetValueSteps, SetCheckSteps, SetReclaimSteps, SetMetaSteps DEF SetCmd
<1>3. CASE SetNXOpt(c)
  <2>1. NXPhase(r, item, shown, now)
    BY <1>1, <1>3, PhaseOf DEF SetNXOpt
  <2> QED
    BY <1>3, <2>1, NXValueSteps, NXClaimStep, NXReclaimSteps DEF SetNXOpt
<1>4. CASE SetNX(c)
  BY <1>1, <1>4, PhaseOf DEF SetNX
<1>5. CASE GetSet(c)
  <2>1. r.op = "getset" /\ ValuePhase(r, item, shown, now) /\ ValueNext(r.op) = "getset"
    BY <1>1, <1>5, PhaseOf DEF GetSet, ValueNext
  <2> QED
    BY <1>5, <2>1, GetSetSteps, ValueEnsureSteps DEF GetSet
<1>6. CASE Incr(c)
  <2>1. r.op = "incr" /\ ValuePhase(r, item, shown, now) /\ ValueNext(r.op) = "read"
    BY <1>1, <1>6, PhaseOf DEF Incr, ValueNext
  <2> QED
    BY <1>6, <2>1, IncrSteps, ValueEnsureSteps DEF Incr
<1>7. CASE AppendCmd(c)
  <2>1. AppPhase(r, item, shown, now)
    BY <1>1, <1>7, PhaseOf DEF AppendCmd
  <2> QED
    BY <1>7, <2>1, AppSwapStep, AppLoadStep, AppGetStep, AppEnsureSteps DEF AppendCmd
<1> QED
  BY <1>2, <1>3, <1>4, <1>5, <1>6, <1>7 DEF StringCommand

\* Every call of every command.
LEMMA ContinueGood ==
    ASSUME NEW c \in Clients, Context(c), Continue(c)
    PROVE  Good(c)
  BY Busy, KeyCommandGood, SetHashCommandGood, ZSetCommandGood, StringCommandGood DEF Continue

-----------------------------------------------------------------------------
(***************************************************************************)
(* A command that arrives, the clock, and the theorem.                     *)
(***************************************************************************)

\* The client records that commands begin with.
Arriving(r, t) ==
    /\ r.n = 0
    /\ \/ r.op \in {"del", "expirepast", "persist"} /\ r.pc = "load"
       \/ r.op = "expire" /\ r.pc = "load" /\ r.exp = t + 1
       \/ r.op \in AddOps \ Stores /\ r.pc = "ensure" /\ Given(r, r.args)
       \/ r.op \in Stores /\ r.pc = "delmeta" /\ r.val = 0
       \/ r.op \in TakeOps /\ r.pc = "load" /\ (r.op \notin Finders => r.args # {})
       \/ r.op = "set" /\ r.pc \in {"xx", "overwrite"} /\ r.exp \in {0, t + 1}
       \/ r.op = "set nx" /\ r.pc = "claim" /\ r.exp \in {0, t + 1}
       \/ r.op \in {"getset", "incr"} /\ r.pc = "ensure"
       \/ r.op = "append" /\ r.pc = "load" /\ r.tries = 0

\* They are the first phase of the command.
LEMMA ArrivingPhase ==
    ASSUME NEW r, NEW k, NEW s, NEW t, Whole(k, s, t), Arriving(r, t)
    PROVE  Phase(r, k, s, t) /\ r.pc # "idle"
<1>1. Shapely(k) /\ k \in ItemType
  BY DEF Whole, Shapely
<1>2. CASE r.op \in {"del", "expirepast"} /\ r.pc = "load"
  BY <1>2 DEF Arriving, Phase, DropPhase, DropLoad, DropOps, Stores
<1>3. CASE r.op \in {"expire", "persist"} /\ r.pc = "load" /\ (r.op = "expire" => r.exp = t + 1)
  BY <1>3 DEF Arriving, Phase, ExpiryPhase
<1>4. CASE r.op \in AddOps \ Stores /\ r.pc = "ensure" /\ Given(r, r.args)
  BY <1>4 DEF Arriving, Phase, AddPhase, AddEnsure
<1>5. CASE r.op \in Stores /\ r.pc = "delmeta" /\ r.val = 0
  BY <1>1, <1>5 DEF Arriving, Phase, DropPhase, DropMeta, DropOps
<1>6. CASE r.op \in TakeOps /\ r.pc = "load" /\ (r.op \notin Finders => r.args # {})
  BY <1>6 DEF Arriving, Phase, TakePhase, TakeLoad
<1>7. CASE r.op = "set" /\ r.pc \in {"xx", "overwrite"} /\ r.exp \in {0, t + 1}
  BY <1>1, <1>7 DEF Arriving, Phase, SetPhase, SetCheck
<1>8. CASE r.op = "set nx" /\ r.pc = "claim" /\ r.exp \in {0, t + 1}
  BY <1>8 DEF Arriving, Phase, NXPhase, NXClaim
<1>9. CASE r.op \in {"getset", "incr"} /\ r.pc = "ensure"
  BY <1>9 DEF Arriving, Phase, ValuePhase, ValueEnsure
<1>10. CASE r.op = "append" /\ r.pc = "load" /\ r.tries = 0
  BY <1>10 DEF Arriving, Phase, AppPhase, AppLoad
<1> QED
  BY <1>2, <1>3, <1>4, <1>5, <1>6, <1>7, <1>8, <1>9, <1>10 DEF Arriving

\* A command that arrives is not seen.
LEMMA Begins ==
    ASSUME NEW c \in Clients, Context(c), NEW rec, Begin(c, rec), Arriving(rec, now)
    PROVE  Good(c)
<1>1. cl[c].pc = "idle" /\ cl'[c] = rec /\ item' = item /\ now' = now
  <2>1. DOMAIN cl = Clients
    BY ContextTypes
  <2> QED
    BY <2>1 DEF Begin, At
<1>2. Whole(item, shown, now)
  BY <1>1, ContextTypes, PhaseOf
<1>3. Phase(rec, item, shown, now) /\ rec.pc # "idle"
  BY <1>2, ArrivingPhase
<1> QED
  BY <1>1, <1>3, Goes

\* DEL, the EXPIRE family and PERSIST arrive.
LEMMA KeyStartGood ==
    ASSUME NEW c \in Clients, Context(c), KeyStart(c)
    PROVE  Good(c)
<1>1. CASE DelStart(c)
  <2> DEFINE rec == [Idle EXCEPT !.op = "del", !.pc = "load"]
  <2>1. Begin(c, rec) /\ Arriving(rec, now)
    BY <1>1 DEF DelStart, Arriving, Idle
  <2> QED
    BY <2>1, Begins
<1>2. CASE ExpireStart(c)
  <2>1. PICK exp \in now .. now + 1 :
          Begin(c, [Idle EXCEPT !.op = IF exp <= now THEN "expirepast" ELSE "expire",
                                !.pc = "load", !.exp = exp])
    BY <1>2 DEF ExpireStart
  <2> DEFINE rec == [Idle EXCEPT !.op = IF exp <= now THEN "expirepast" ELSE "expire",
                                 !.pc = "load", !.exp = exp]
  <2>2. exp <= now \/ exp = now + 1
    BY ContextTypes
  <2>3. Arriving(rec, now)
    BY <2>2 DEF Arriving, Idle
  <2> QED
    BY <2>1, <2>3, Begins
<1>3. CASE PersistStart(c)
  <2> DEFINE rec == [Idle EXCEPT !.op = "persist", !.pc = "load"]
  <2>1. Begin(c, rec) /\ Arriving(rec, now)
    BY <1>3 DEF PersistStart, Arriving, Idle
  <2> QED
    BY <2>1, Begins
<1> QED
  BY <1>1, <1>2, <1>3 DEF KeyStart

\* The commands that name no member or some members arrive.
LEMMA MembersStartGood ==
    ASSUME NEW c \in Clients, Context(c), NEW op, NEW ms \in SUBSET Members, NEW v \in Vals
    PROVE  /\ op \in TakeOps /\ ms # {} /\ Begin(c, [Idle EXCEPT !.op = op, !.pc = "load", !.args = ms])
              => Good(c)
           /\ op \in Finders /\ Begin(c, [Idle EXCEPT !.op = op, !.pc = "load"]) => Good(c)
           /\ op \in Stores /\ v = 0
              /\ Begin(c, [Idle EXCEPT !.op = op, !.pc = "delmeta", !.args = ms, !.val = v])
              => Good(c)
           /\ op \in {"sadd", "zadd"} /\ v = 0 /\ ms # {}
              /\ Begin(c, [Idle EXCEPT !.op = op, !.pc = "ensure", !.args = ms, !.val = v])
              => Good(c)
           /\ op = "hset" /\ ms # {}
              /\ Begin(c, [Idle EXCEPT !.op = op, !.pc = "ensure", !.args = ms, !.val = v])
              => Good(c)
<1>1. ASSUME op \in TakeOps, ms # {}, Begin(c, [Idle EXCEPT !.op = op, !.pc = "load", !.args = ms])
      PROVE  Good(c)
  <2>1. Arriving([Idle EXCEPT !.op = op, !.pc = "load", !.args = ms], now)
    BY <1>1 DEF Arriving, Idle
  <2> QED
    BY <1>1, <2>1, Begins
<1>2. ASSUME op \in Finders, Begin(c, [Idle EXCEPT !.op = op, !.pc = "load"])
      PROVE  Good(c)
  <2>1. Arriving([Idle EXCEPT !.op = op, !.pc = "load"], now)
    BY <1>2 DEF Arriving, Idle, TakeOps
  <2> QED
    BY <1>2, <2>1, Begins
<1>3. ASSUME op \in Stores, v = 0,
             Begin(c, [Idle EXCEPT !.op = op, !.pc = "delmeta", !.args = ms, !.val = v])
      PROVE  Good(c)
  <2>1. Arriving([Idle EXCEPT !.op = op, !.pc = "delmeta", !.args = ms, !.val = v], now)
    BY <1>3 DEF Arriving, Idle
  <2> QED
    BY <1>3, <2>1, Begins
<1>4. ASSUME op \in {"sadd", "hset", "zadd"}, op \in {"sadd", "zadd"} => v = 0, ms # {},
             Begin(c, [Idle EXCEPT !.op = op, !.pc = "ensure", !.args = ms, !.val = v])
      PROVE  Good(c)
  <2> DEFINE rec == [Idle EXCEPT !.op = op, !.pc = "ensure", !.args = ms, !.val = v]
  <2>1. rec.op = op /\ rec.pc = "ensure" /\ rec.args = ms /\ rec.val = v /\ rec.n = 0
    BY DEF Idle
  <2>2. Begin(c, rec)
    BY <1>4
  <2> HIDE DEF rec
  <2>3. Given(rec, rec.args)
    BY <1>4, <2>1 DEF Given
  <2>4. op \in AddOps \ Stores
    BY <1>4 DEF AddOps, Stores
  <2>5. Arriving(rec, now)
    BY <2>1, <2>3, <2>4 DEF Arriving
  <2> QED
    BY <2>2, <2>5, Begins
<1>5. /\ op \in {"sadd", "zadd"} => op \in {"sadd", "hset", "zadd"}
      /\ op = "hset" => op \in {"sadd", "hset", "zadd"} /\ op \notin {"sadd", "zadd"}
  OBVIOUS
<1> QED
  BY <1>1, <1>2, <1>3, <1>4, <1>5

\* The commands on one field or member arrive.
LEMMA OneMemberStartGood ==
    ASSUME NEW c \in Clients, Context(c), NEW m \in Members, NEW v \in Vals
    PROVE  /\ Begin(c, [Idle EXCEPT !.op = "hsetnx", !.pc = "ensure", !.args = {m}, !.val = v])
              => Good(c)
           /\ Begin(c, [Idle EXCEPT !.op = "hincr", !.pc = "ensure", !.args = {m}]) => Good(c)
           /\ Begin(c, [Idle EXCEPT !.op = "zincr", !.pc = "ensure", !.args = {m}, !.val = 0])
              => Good(c)
<1>1. ASSUME NEW rec, rec.op \in {"hsetnx", "hincr", "zincr"}, rec.pc = "ensure", rec.args = {m},
             rec.n = 0, rec.op = "zincr" => rec.val = 0, Begin(c, rec)
      PROVE  Good(c)
  <2>1. Given(rec, rec.args)
    BY <1>1 DEF Given
  <2>2. rec.op \in AddOps \ Stores
    BY <1>1 DEF AddOps, Stores
  <2>3. Arriving(rec, now)
    BY <1>1, <2>1, <2>2 DEF Arriving
  <2> QED
    BY <1>1, <2>3, Begins
<1> DEFINE a == [Idle EXCEPT !.op = "hsetnx", !.pc = "ensure", !.args = {m}, !.val = v]
           b == [Idle EXCEPT !.op = "hincr", !.pc = "ensure", !.args = {m}]
           d == [Idle EXCEPT !.op = "zincr", !.pc = "ensure", !.args = {m}, !.val = 0]
<1>2. /\ a.op = "hsetnx" /\ a.pc = "ensure" /\ a.args = {m} /\ a.n = 0
      /\ b.op = "hincr" /\ b.pc = "ensure" /\ b.args = {m} /\ b.n = 0
      /\ d.op = "zincr" /\ d.pc = "ensure" /\ d.args = {m} /\ d.n = 0 /\ d.val = 0
  BY DEF Idle
<1>3. (Begin(c, a) => Good(c)) /\ (Begin(c, b) => Good(c)) /\ (Begin(c, d) => Good(c))
  <2> HIDE DEF a, b, d
  <2>1. Begin(c, a) => Good(c)
    BY <1>1, <1>2
  <2>2. Begin(c, b) => Good(c)
    BY <1>1, <1>2
  <2>3. Begin(c, d) => Good(c)
    BY <1>1, <1>2
  <2> QED
    BY <2>1, <2>2, <2>3
<1> QED
  BY <1>3

\* The Set and Hash commands arrive.
LEMMA SetHashStartGood ==
    ASSUME NEW c \in Clients, Context(c),
           SetCommandStart(c, Commands) \/ HashCommandStart(c, Commands)
    PROVE  Good(c)
<1>1. /\ {"sadd", "zadd"} \subseteq AddOps /\ {"srem", "hdel", "zrem"} \subseteq TakeOps
      /\ {"spop", "zremrange"} = Finders /\ Stores = {"sstore", "zstore"} /\ 0 \in Vals
  BY ItemsAssumption DEF AddOps, TakeOps, Finders, Stores
<1>2. CASE SAddStart(c)
  BY <1>1, <1>2, MembersStartGood DEF SAddStart, InSet
<1>3. CASE SRemStart(c)
  BY <1>1, <1>3, MembersStartGood DEF SRemStart
<1>4. CASE SPopStart(c)
  <2>1. {} \in SUBSET Members
    OBVIOUS
  <2> QED
    BY <1>1, <1>4, <2>1, MembersStartGood DEF SPopStart
<1>5. CASE SStoreStart(c)
  BY <1>1, <1>5, MembersStartGood DEF SStoreStart, InSet
<1>6. CASE HSetStart(c)
  BY <1>1, <1>6, MembersStartGood DEF HSetStart
<1>7. CASE HSetNXStart(c)
  BY <1>7, OneMemberStartGood DEF HSetNXStart
<1>8. CASE HDelStart(c)
  BY <1>1, <1>8, MembersStartGood DEF HDelStart
<1>9. CASE HIncrStart(c)
  BY <1>1, <1>9, OneMemberStartGood DEF HIncrStart
<1> QED
  BY <1>2, <1>3, <1>4, <1>5, <1>6, <1>7, <1>8, <1>9 DEF SetCommandStart, HashCommandStart

\* The Sorted Set commands without flags arrive.
LEMMA ZSetStartGood ==
    ASSUME NEW c \in Clients, Context(c), ZSetCommandStart(c, Commands)
    PROVE  Good(c)
<1>1. /\ {"srem", "hdel", "zrem"} \subseteq TakeOps
      /\ {"spop", "zremrange"} = Finders /\ Stores = {"sstore", "zstore"} /\ 0 \in Vals
  BY ItemsAssumption DEF TakeOps, Finders, Stores
<1>2. Commands \cap Flags = {} /\ Commands \cap ZIncrOps \subseteq {"zincr"}
  BY SerialAssumption DEF ZIncrOps
<1>3. CASE ZAddStart(c)
  BY <1>1, <1>3, MembersStartGood DEF ZAddStart, Scored
<1>4. CASE \E op \in Commands \cap ZIncrOps : ZIncrStart(c, op)
  <2>1. ZIncrStart(c, "zincr")
    BY <1>2, <1>4
  <2>2. PICK m \in Members :
          Begin(c, [Idle EXCEPT !.op = "zincr", !.pc = "ensure", !.args = {m}, !.val = 0])
    BY <2>1 DEF ZIncrStart, Scored
  <2> QED
    BY <1>1, <2>2, OneMemberStartGood
<1>5. CASE ZRemStart(c)
  BY <1>1, <1>5, MembersStartGood DEF ZRemStart
<1>6. CASE ZRemRangeStart(c)
  <2>1. {} \in SUBSET Members
    OBVIOUS
  <2> QED
    BY <1>1, <1>6, <2>1, MembersStartGood DEF ZRemRangeStart
<1>7. CASE ZStoreStart(c)
  BY <1>1, <1>7, MembersStartGood DEF ZStoreStart, Scored
<1> QED
  BY <1>2, <1>3, <1>4, <1>5, <1>6, <1>7 DEF ZSetCommandStart

\* The String commands other than SETNX arrive.
LEMMA StringStartGood ==
    ASSUME NEW c \in Clients, Context(c), StringCommandStart(c, Commands)
    PROVE  Good(c)
<1>1. "setnx" \notin Commands
  BY SerialAssumption
<1>2. CASE SetStart(c)
  <2>1. PICK xx \in BOOLEAN, v \in Vals, exp \in {0, now + 1} :
          Begin(c, [Idle EXCEPT !.op = "set", !.pc = IF xx THEN "xx" ELSE "overwrite",
                                !.val = v, !.exp = exp])
    BY <1>2 DEF SetStart
  <2> DEFINE rec == [Idle EXCEPT !.op = "set", !.pc = IF xx THEN "xx" ELSE "overwrite",
                                 !.val = v, !.exp = exp]
  <2>2. Arriving(rec, now)
    BY DEF Arriving, Idle
  <2> QED
    BY <2>1, <2>2, Begins
<1>3. CASE SetNXOptStart(c)
  <2>1. PICK v \in Vals, exp \in {0, now + 1} :
          Begin(c, [Idle EXCEPT !.op = "set nx", !.pc = "claim", !.val = v, !.exp = exp])
    BY <1>3 DEF SetNXOptStart
  <2>2. Arriving([Idle EXCEPT !.op = "set nx", !.pc = "claim", !.val = v, !.exp = exp], now)
    BY DEF Arriving, Idle
  <2> QED
    BY <2>1, <2>2, Begins
<1>4. CASE GetSetStart(c)
  <2>1. PICK v \in Vals : Begin(c, [Idle EXCEPT !.op = "getset", !.pc = "ensure", !.val = v])
    BY <1>4 DEF GetSetStart
  <2>2. Arriving([Idle EXCEPT !.op = "getset", !.pc = "ensure", !.val = v], now)
    BY DEF Arriving, Idle
  <2> QED
    BY <2>1, <2>2, Begins
<1>5. CASE IncrStart(c)
  <2>1. Arriving([Idle EXCEPT !.op = "incr", !.pc = "ensure"], now)
    BY DEF Arriving, Idle
  <2> QED
    BY <1>5, <2>1, Begins DEF IncrStart
<1>6. CASE AppendStart(c)
  <2>1. Arriving([Idle EXCEPT !.op = "append", !.pc = "load"], now)
    BY DEF Arriving, Idle
  <2> QED
    BY <1>6, <2>1, Begins DEF AppendStart
<1> QED
  BY <1>1, <1>2, <1>3, <1>4, <1>5, <1>6 DEF StringCommandStart

\* Every command that arrives.
LEMMA StartGood ==
    ASSUME NEW c \in Clients, Context(c), Start(c)
    PROVE  Good(c)
  BY KeyStartGood, SetHashStartGood, ZSetStartGood, StringStartGood DEF Start

\* The clock, between two commands: a key that expires is gone from what is shown.
LEMMA TickGood ==
    ASSUME NEW c \in Clients, Context(c), AllIdle, Tick
    PROVE  Good(c)
<1>1. /\ cl' = cl /\ item' = item /\ now' = now + 1 /\ now < MaxTime /\ cl[c].pc = "idle"
  BY DEF Tick, AllIdle, At
<1>2. Whole(item, shown, now) /\ now \in Nat /\ Shows(shown, now)
  BY <1>1, ContextTypes, PhaseOf
<1>3. shown' = (IF Live(item, now + 1) THEN item ELSE Absent) /\ last' = last
  BY <1>1, RecordIs
<1>4. Absent = Redis!NoKey /\ ~Live(Absent, now) /\ ~Live(Absent, now + 1)
  BY DEF Redis!NoKey, Absent, SK, Redis!SK, Live, HasMeta
<1>5. shown.exp \in Nat /\ item.exp \in Nat
  BY <1>2, ContextTypes DEF ItemType
  \* A key that lives on was live; one that is shown and does not live on has expired.
<1>6. Live(item, now + 1) => Live(item, now)
  BY <1>2, <1>5 DEF Live, IsExpired
<1>7. shown' = IF shown.exp > 0 /\ shown.exp <= now + 1 THEN Absent ELSE shown
  <2>1. CASE Live(item, now)
    <3>1. shown = item /\ HasMeta(item)
      BY <1>2, <2>1 DEF Whole, Live
    <3> QED
      BY <1>3, <3>1 DEF Live, IsExpired
  <2>2. CASE ~Live(item, now)
    <3>1. shown = Absent /\ shown' = Absent
      BY <1>2, <1>3, <1>6, <2>2 DEF Whole
    <3> QED
      BY <3>1
  <2> QED
    BY <2>1, <2>2
<1>8. Redis!Next
  <2>1. Redis!Tick
    BY <1>1, <1>3, <1>4, <1>7 DEF Redis!Tick
  <2> QED
    BY <2>1 DEF Redis!Next
<1>9. Whole(item', shown', now')
  BY <1>1, <1>2, <1>3 DEF Whole
<1>10. Shows(shown', now')
  BY <1>1, <1>2, <1>3, AbsentShape DEF Shows, Whole
<1> QED
  BY <1>1, <1>8, <1>9, <1>10 DEF Good, Effect, Phase

-----------------------------------------------------------------------------
\* The first state: no command runs, no key is shown.
LEMMA RefInit ==
    ASSUME Init, shown = Absent, last = [op |-> "none", n |-> 0]
    PROVE  RefInv /\ Redis!Init
<1>1. TypeInv
  BY TypeInit
<1>2. /\ item = Absent /\ now = 1 /\ \A c \in Clients : cl[c].pc = "idle"
      /\ ~Live(Absent, 1)
  BY DEF Init, CoreInit, Idle, Live, HasMeta, Absent
<1>3. Shows(shown, now) /\ Whole(item, shown, now)
  BY <1>2, AbsentShape DEF Shows, Whole
<1>4. Redis!Init
  BY <1>2 DEF Redis!Init, Redis!NoKey, Absent, SK, Redis!SK
<1> QED
  BY <1>1, <1>2, <1>3, <1>4 DEF RefInv, Phase

\* The connection's steps and the clock are steps of Key.
LEMMA SerialSteps == SerialNext => Next
  BY DEF SerialNext, Next, Work, Background

\* Every step keeps the invariant, and is a step of the abstract specification or
\* changes nothing that is shown.
LEMMA RefStep ==
    ASSUME RefInv, [SerialNext]_allVars
    PROVE  RefInv' /\ [Redis!Next]_<<shown, now, last>>
<1>1. TypeInv'
  <2>1. [Next]_vars
    BY SerialSteps DEF allVars
  <2> QED
    BY <2>1, TypeStep DEF RefInv
<1>2. CASE SerialNext
  <2>1. PICK c \in Clients : Clients = {c}
    BY OneConnection
  <2>2. Context(c)
    BY <1>2, <2>1 DEF Context, SerialNext
  <2>3. Start(c) \/ Continue(c) \/ (AllIdle /\ Tick)
    BY <1>2, <2>1 DEF SerialNext
  <2>4. Good(c)
    BY <2>2, <2>3, StartGood, ContinueGood, TickGood
  <2> QED
    BY <1>1, <2>1, <2>4 DEF Good, Effect, RefInv
<1>3. CASE UNCHANGED allVars
  BY <1>1, <1>3 DEF RefInv, allVars, vars, coreVars
<1> QED
  BY <1>2, <1>3

\* The invariant of a single connection: what the table holds at each call of each
\* command, relative to what it showed when the command arrived.
THEOREM SerialInvariant == SerialSpec => []RefInv
<1>1. Init /\ shown = Absent /\ last = [op |-> "none", n |-> 0] => RefInv
  BY RefInit
<1>2. RefInv /\ [SerialNext]_allVars => RefInv'
  BY RefStep
<1> QED
  BY <1>1, <1>2, PTL DEF SerialSpec

\* The commands of one connection have the effect Redis gives them: its table, seen
\* between commands, changes as the abstract key does, and the other steps (the
\* calls of a handler, its type check, takeover, reclaim and count) are not seen.
THEOREM SingleConnectionIsRedis == SerialSpec => ImplementsRedis
<1>1. Init /\ shown = Absent /\ last = [op |-> "none", n |-> 0] => RefInv /\ Redis!Init
  BY RefInit
<1>2. RefInv /\ [SerialNext]_allVars => RefInv' /\ [Redis!Next]_<<shown, now, last>>
  BY RefStep
<1> QED
  BY <1>1, <1>2, PTL DEF SerialSpec, ImplementsRedis, Redis!Spec
=============================================================================
