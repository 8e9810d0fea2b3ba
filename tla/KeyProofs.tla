------------------------------ MODULE KeyProofs ------------------------------
(***************************************************************************)
(* Theorems about Key, for any number of connections, members, values and  *)
(* commands, and any bound.                                                *)
(***************************************************************************)
EXTENDS Key, TLAPS

-----------------------------------------------------------------------------
(***************************************************************************)
(* What the storage primitives return.                                     *)
(***************************************************************************)

\* Every primitive maps a key record to a key record.
LEMMA PrimitiveTypes ==
    ASSUME NEW k \in ItemType
    PROVE  /\ \A type \in Types, time \in Nat :
                /\ EnsureTypeExpiring(k, type, time) \in ItemType
                /\ CreateTypeIfAbsent(k, type, time) \in ItemType
           /\ \A type \in Types, delta \in Int : EnsureType(k, type, delta) \in ItemType
           /\ \A exp \in Nat : SetExpire(k, exp) \in ItemType
           /\ Persist(k) \in ItemType
           /\ DeleteMeta(k) \in ItemType
           /\ DeleteMetaIfEmpty(k) \in ItemType
           /\ \A sk \in SK, v \in Vals \cup {Gone} : Put(k, sk, v) \in ItemType
           /\ \A listed \in SUBSET SK : Remove(k, listed) \in ItemType
           /\ Present(k) \in SUBSET SK
<1>1. \A type \in Types \cup {NoType} : Claimed(k, type) \in ItemType
  BY DEF Claimed, ItemType
<1>2. \A type \in Types, delta \in Int : EnsureType(k, type, delta) \in ItemType
  BY DEF EnsureType, ItemType
<1>3. \A exp \in Nat : SetExpire(k, exp) \in ItemType
  BY DEF SetExpire, ItemType
<1>4. \A sk \in SK, v \in Vals \cup {Gone} : Put(k, sk, v) \in ItemType
  BY DEF Put, ItemType
<1>5. \A listed \in SUBSET SK : Remove(k, listed) \in ItemType
  BY DEF Remove, ItemType
<1>6. Present(k) \in SUBSET SK
  BY DEF Present, ItemType
<1> QED
  BY <1>1, <1>2, <1>3, <1>4, <1>5, <1>6
     DEF EnsureTypeExpiring, CreateTypeIfAbsent, Persist, DeleteMeta, DeleteMetaIfEmpty, NoMeta

(***************************************************************************)
(* Type correctness.  It is inductive together with three facts about the  *)
(* commands in flight, so TypeInv asks more of a client record than TypeOK *)
(* does: a command that will write an item holds a value to write; the     *)
(* value of an INCR at its compare-and-set is one more than what it read;  *)
(* and no APPEND runs that no client may issue.                            *)
(***************************************************************************)
Writers == {"set", "set nx", "setnx", "getset", "sadd", "sstore", "hset", "hsetnx", "zadd",
            "zadd nx", "zadd xx", "zadd ch", "zincr", "zincr nx", "zincr xx", "zstore"}
SharedLabels == Labels \ {"cas"}
ClientInv(r) ==
    /\ r.op \in Writers => r.val \in Vals
    /\ r.op = "append" => "append" \in Commands
    /\ r.pc = "cas" => r.val \in Vals /\ r.val = Base(r.seen) + 1
    /\ r.ret # "cas"
Client == {r \in ClientType : ClientInv(r)}
TypeInv == TypeOK /\ cl \in [Clients -> Client]

\* A record of a client with one field changed.
LEMMA RecordUpdates ==
    ASSUME NEW r \in ClientType
    PROVE  /\ \A x \in Ops : [r EXCEPT !.op = x] \in ClientType
           /\ \A x \in Labels : [r EXCEPT !.pc = x] \in ClientType
           /\ \A x \in SUBSET Members : [r EXCEPT !.args = x] \in ClientType
           /\ \A x \in Nat : [r EXCEPT !.exp = x] \in ClientType
           /\ \A x \in Vals \cup {Gone} : [r EXCEPT !.seen = x] \in ClientType
           /\ \A x \in Vals \cup {Gone} : [r EXCEPT !.val = x] \in ClientType
<1>1. \A x \in Ops : [r EXCEPT !.op = x] \in ClientType
  BY DEF ClientType
<1>2. \A x \in Labels : [r EXCEPT !.pc = x] \in ClientType
  BY DEF ClientType
<1>3. \A x \in SUBSET Members : [r EXCEPT !.args = x] \in ClientType
  BY DEF ClientType
<1>4. \A x \in Nat : [r EXCEPT !.exp = x] \in ClientType
  BY DEF ClientType
<1>5. \A x \in Vals \cup {Gone} : [r EXCEPT !.seen = x] \in ClientType
  BY DEF ClientType
<1>6. \A x \in Vals \cup {Gone} : [r EXCEPT !.val = x] \in ClientType
  BY DEF ClientType
<1> QED
  BY <1>1, <1>2, <1>3, <1>4, <1>5, <1>6

\* A connection between two commands is well typed.
LEMMA IdleType == Idle \in Client
<1>1. Idle \in ClientType
  BY SMT DEF Idle, ClientType, Labels, Ops
<1>2. ClientInv(Idle)
  BY DEF ClientInv, Idle, Writers
<1> QED
  BY <1>1, <1>2 DEF Client

\* The labels and names the handlers use are labels and names.
LEMMA LabelTypes ==
    /\ "idle" \in SharedLabels /\ "load" \in SharedLabels /\ "ensure" \in SharedLabels
    /\ "list" \in SharedLabels /\ "reclaim" \in SharedLabels /\ "delmeta" \in SharedLabels
    /\ "enqueue" \in SharedLabels /\ "adjust" \in SharedLabels /\ "drop" \in SharedLabels
    /\ "setexp" \in SharedLabels /\ "persist" \in SharedLabels /\ "write" \in SharedLabels
    /\ "remove" \in SharedLabels /\ "choose" \in SharedLabels /\ "replace" \in SharedLabels
    /\ "result" \in SharedLabels /\ "xx" \in SharedLabels /\ "claim" \in SharedLabels
    /\ "overwrite" \in SharedLabels /\ "put" \in SharedLabels /\ "getset" \in SharedLabels
    /\ "read" \in SharedLabels /\ "get" \in SharedLabels /\ "swap" \in SharedLabels
    /\ "look" \in SharedLabels /\ "isnew" \in SharedLabels
    /\ "cas" \in Labels
  BY DEF Labels, SharedLabels

\* The connections stay well typed when one of them begins or ends a command, or
\* changes one of its variables.
LEMMA ClientUpdates ==
    ASSUME NEW f \in [Clients -> Client], NEW c \in Clients
    PROVE  /\ \A r \in Client : [f EXCEPT ![c] = r] \in [Clients -> Client]
           /\ \A x \in SharedLabels : [f EXCEPT ![c].pc = x] \in [Clients -> Client]
           /\ \A x \in SharedLabels : [f EXCEPT ![c].ret = x] \in [Clients -> Client]
           /\ \A x \in SUBSET Members : [f EXCEPT ![c].args = x] \in [Clients -> Client]
           /\ \A x \in Int : [f EXCEPT ![c].n = x] \in [Clients -> Client]
           /\ \A x \in Nat : [f EXCEPT ![c].tries = x] \in [Clients -> Client]
           /\ \A x \in SUBSET SK : [f EXCEPT ![c].lst = x] \in [Clients -> Client]
<1>1. \A r \in Client : [f EXCEPT ![c] = r] \in [Clients -> Client]
  OBVIOUS
<1> USE DEF ClientType, Client, ClientInv, SharedLabels
<1>2. \A x \in SharedLabels : [f EXCEPT ![c].pc = x] \in [Clients -> Client]
  OBVIOUS
<1>3. \A x \in SharedLabels : [f EXCEPT ![c].ret = x] \in [Clients -> Client]
  OBVIOUS
<1>4. \A x \in SUBSET Members : [f EXCEPT ![c].args = x] \in [Clients -> Client]
  OBVIOUS
<1>5. \A x \in Int : [f EXCEPT ![c].n = x] \in [Clients -> Client]
  OBVIOUS
<1>6. \A x \in Nat : [f EXCEPT ![c].tries = x] \in [Clients -> Client]
  OBVIOUS
<1>7. \A x \in SUBSET SK : [f EXCEPT ![c].lst = x] \in [Clients -> Client]
  OBVIOUS
<1> QED
  BY <1>1, <1>2, <1>3, <1>4, <1>5, <1>6, <1>7

\* The steps that remember a string value they have read or computed.
LEMMA ClientValues ==
    ASSUME NEW f \in [Clients -> Client], NEW c \in Clients, NEW x \in Labels,
           NEW s \in Vals \cup {Gone}, NEW v \in Vals \cup {Gone}
    PROVE  /\ x # "cas" =>
                [f EXCEPT ![c] = [@ EXCEPT !.pc = x, !.seen = s]] \in [Clients -> Client]
           /\ (f[c].op \in Writers => v \in Vals) /\ x # "cas" =>
                [f EXCEPT ![c] = [@ EXCEPT !.pc = x, !.val = v]] \in [Clients -> Client]
           /\ (f[c].op \in Writers => v \in Vals) /\ x # "cas" =>
                [f EXCEPT ![c] = [@ EXCEPT !.pc = x, !.seen = s, !.val = v]]
                  \in [Clients -> Client]
<1> DEFINE p == [f[c] EXCEPT !.pc = x]
           ps == [p EXCEPT !.seen = s]
           pv == [p EXCEPT !.val = v]
           psv == [ps EXCEPT !.val = v]
<1>1. f[c] \in ClientType /\ ClientInv(f[c])
  BY DEF Client
<1>2. p \in ClientType
  BY <1>1, RecordUpdates
<1>3. ps \in ClientType /\ pv \in ClientType
  <2> HIDE DEF p
  <2> QED
    BY <1>2, RecordUpdates
<1>4. psv \in ClientType
  <2> HIDE DEF ps
  <2> QED
    BY <1>3, RecordUpdates
<1>5. /\ ps.op = f[c].op /\ ps.ret = f[c].ret /\ ps.pc = x /\ ps.val = f[c].val
      /\ pv.op = f[c].op /\ pv.ret = f[c].ret /\ pv.pc = x /\ pv.val = v
      /\ psv.op = f[c].op /\ psv.ret = f[c].ret /\ psv.pc = x /\ psv.seen = s /\ psv.val = v
  BY <1>1 DEF ClientType
<1> HIDE DEF ps, pv, psv
<1>6. x # "cas" => ps \in Client
  BY <1>1, <1>3, <1>5 DEF Client, ClientInv
<1>7. (f[c].op \in Writers => v \in Vals) /\ x # "cas" => pv \in Client
  BY <1>1, <1>3, <1>5 DEF Client, ClientInv
<1>8. (f[c].op \in Writers => v \in Vals) /\ x # "cas" => psv \in Client
  BY <1>1, <1>4, <1>5 DEF Client, ClientInv
<1> QED
  BY <1>6, <1>7, <1>8 DEF ps, pv, psv

\* A connection that is about to compare and set holds the number it read plus one.
LEMMA ClientIncrement ==
    ASSUME NEW f \in [Clients -> Client], NEW c \in Clients,
           NEW s \in Vals \cup {Gone}, NEW v \in Vals, v = Base(s) + 1
    PROVE  [f EXCEPT ![c] = [@ EXCEPT !.pc = "cas", !.seen = s, !.val = v]] \in [Clients -> Client]
<1> DEFINE p == [f[c] EXCEPT !.pc = "cas"]
           ps == [p EXCEPT !.seen = s]
           psv == [ps EXCEPT !.val = v]
<1>1. f[c] \in ClientType /\ ClientInv(f[c])
  BY DEF Client
<1>2. p \in ClientType
  BY <1>1, LabelTypes, RecordUpdates
<1>3. ps \in ClientType
  <2> HIDE DEF p
  <2> QED
    BY <1>2, RecordUpdates
<1>4. psv \in ClientType
  <2> HIDE DEF ps
  <2> QED
    BY <1>3, RecordUpdates
<1>5. psv.op = f[c].op /\ psv.ret = f[c].ret /\ psv.pc = "cas" /\ psv.seen = s /\ psv.val = v
  BY <1>1 DEF ClientType
<1>6. psv \in Client
  <2> HIDE DEF psv
  <2> QED
    BY <1>1, <1>4, <1>5 DEF Client, ClientInv
<1> QED
  BY <1>6

\* A client record's own variables.
LEMMA ClientFields ==
    ASSUME NEW f \in [Clients -> Client], NEW c \in Clients
    PROVE  /\ f[c].ret \in SharedLabels /\ f[c].args \in SUBSET Members /\ f[c].n \in Int
           /\ f[c].tries \in Nat /\ f[c].lst \in SUBSET SK /\ f[c].exp \in Nat
           /\ f[c].val \in Vals \cup {Gone} /\ f[c].seen \in Vals \cup {Gone}
           /\ f[c].op \in Writers => f[c].val \in Vals
  BY DEF ClientType, Client, ClientInv, SharedLabels

\* The variables that the steps of a command change.
ClientState == item \in ItemType /\ cl \in [Clients -> Client] /\ queued \in 0 .. QueueCap
Others == UNCHANGED <<now, worker, sweep, ops, faults>>

\* The steps the handlers share (ensureTypeExpiring, DeleteMembers, DeleteMeta,
\* Enqueue, adjustCount) keep the key, the queue and the connections well typed.
LEMMA SharedSteps ==
    ASSUME ClientState, NEW c \in Clients, NEW type \in Types, NEW next \in SharedLabels,
           now \in Nat,
           \/ LoadState(c, type, next) \/ EnsureTypeExpiringStep(c, type, next)
           \/ DeleteMembersSteps(c) \/ DeleteMetaStep(c, next) \/ EnqueueStep(c)
           \/ AdjustCountSteps(c, type) \/ SetExpireStep(c) \/ PersistStep(c)
    PROVE  ClientState' /\ Others
<1> USE ConstantsAssumption, LabelTypes
        DEF ClientState, Others, ClientStep, LocalStep, Return, Goto, bgVars
<1>1. CASE LoadState(c, type, next)
  BY <1>1, IdleType, ClientUpdates DEF LoadState
<1>2. CASE EnsureTypeExpiringStep(c, type, next)
  <2>1. item' \in ItemType
    <3>1. EnsureTypeExpiring(item, type, now) \in ItemType
      BY PrimitiveTypes
    <3> QED
      BY <1>2, <3>1 DEF EnsureTypeExpiringStep
  <2>2. cl' \in [Clients -> Client]
    BY <1>2, IdleType, ClientUpdates DEF EnsureTypeExpiringStep
  <2> QED
    BY <1>2, <2>1, <2>2 DEF EnsureTypeExpiringStep
<1>3. CASE DeleteMembersSteps(c)
  <2>1. CASE ListStep(c)
    BY <2>1, ClientUpdates, PrimitiveTypes DEF ListStep
  <2>2. CASE ReclaimStep(c)
    <3>1. item' \in ItemType
      BY <2>2, ClientFields, PrimitiveTypes DEF ReclaimStep
    <3>2. cl' \in [Clients -> Client]
      BY <2>2, IdleType, ClientFields, ClientUpdates DEF ReclaimStep
    <3> QED
      BY <2>2, <3>1, <3>2 DEF ReclaimStep
  <2> QED
    BY <1>3, <2>1, <2>2 DEF DeleteMembersSteps
<1>4. CASE DeleteMetaStep(c, next)
  <2>1. item' \in ItemType
    BY <1>4, PrimitiveTypes DEF DeleteMetaStep
  <2>2. cl' \in [Clients -> Client]
    BY <1>4, IdleType, ClientUpdates DEF DeleteMetaStep
  <2> QED
    BY <1>4, <2>1, <2>2 DEF DeleteMetaStep
<1>5. CASE EnqueueStep(c)
  <2>1. cl' \in [Clients -> Client]
    BY <1>5, IdleType, ClientFields, ClientUpdates DEF EnqueueStep
  <2> QED
    BY <1>5, <2>1 DEF EnqueueStep
<1>6. CASE AdjustCountSteps(c, type)
  <2>1. item' \in ItemType
    <3>1. cl[c].n \in Int
      BY ClientFields
    <3>2. EnsureType(item, type, cl[c].n) \in ItemType /\ DeleteMetaIfEmpty(item) \in ItemType
      BY <3>1, PrimitiveTypes
    <3> QED
      BY <1>6, <3>2 DEF AdjustCountSteps, AdjustStep, DropIfEmptyStep
  <2>2. cl' \in [Clients -> Client]
    BY <1>6, IdleType, ClientUpdates DEF AdjustCountSteps, AdjustStep, DropIfEmptyStep
  <2> QED
    BY <1>6, <2>1, <2>2 DEF AdjustCountSteps, AdjustStep, DropIfEmptyStep
<1>7. CASE SetExpireStep(c)
  BY <1>7, IdleType, ClientFields, ClientUpdates, PrimitiveTypes DEF SetExpireStep
<1>8. CASE PersistStep(c)
  BY <1>8, IdleType, ClientUpdates, PrimitiveTypes DEF PersistStep
<1> QED
  BY <1>1, <1>2, <1>3, <1>4, <1>5, <1>6, <1>7, <1>8

-----------------------------------------------------------------------------
\* A new command on a connection.
LEMMA BeginType ==
    ASSUME CoreTypeOK, cl \in [Clients -> Client], NEW c \in Clients, NEW rec \in Client,
           Begin(c, rec)
    PROVE  CoreTypeOK' /\ cl' \in [Clients -> Client]
<1>1. cl' \in [Clients -> Client]
  BY ClientUpdates DEF Begin
<1>2. cl' \in [Clients -> ClientType]
  BY <1>1 DEF Client
<1> QED
  BY <1>1, <1>2, ConstantsAssumption DEF Begin, CoreTypeOK, bgVars

\* The records commands begin with: any op but the writers, or a value to write.
Issued == {op \in Ops : op = "append" => "append" \in Commands}

\* A first local state, whatever of args, exp and val the command gives it.
LEMMA BeginRecord ==
    ASSUME NEW op \in Issued, NEW pc \in SharedLabels, NEW args \in SUBSET Members,
           NEW exp \in Nat, NEW v \in Vals
    PROVE  /\ op \notin Writers =>
                /\ [Idle EXCEPT !.op = op, !.pc = pc] \in Client
                /\ [Idle EXCEPT !.op = op, !.pc = pc, !.args = args] \in Client
                /\ [Idle EXCEPT !.op = op, !.pc = pc, !.exp = exp] \in Client
           /\ [Idle EXCEPT !.op = op, !.pc = pc, !.val = v] \in Client
           /\ [Idle EXCEPT !.op = op, !.pc = pc, !.val = v, !.exp = exp] \in Client
           /\ [Idle EXCEPT !.op = op, !.pc = pc, !.args = args, !.val = v] \in Client
<1> DEFINE a == [Idle EXCEPT !.op = op, !.pc = pc]
           b == [a EXCEPT !.args = args]
           d == [a EXCEPT !.exp = exp]
           e == [a EXCEPT !.val = v]
           f == [e EXCEPT !.exp = exp]
           g == [b EXCEPT !.val = v]
           Fits(r) == r.op = op /\ r.pc = pc /\ r.ret = "idle"
<1>1. Idle \in ClientType /\ op \in Ops /\ pc \in Labels
  BY IdleType DEF Client, Issued, SharedLabels
<1>2. a \in ClientType
  BY <1>1, RecordUpdates
<1>3. b \in ClientType /\ d \in ClientType /\ e \in ClientType
  <2> HIDE DEF a
  <2> QED
    BY <1>2, RecordUpdates
<1>4. f \in ClientType
  <2> HIDE DEF e
  <2> QED
    BY <1>3, RecordUpdates
<1>9. g \in ClientType
  <2> HIDE DEF b
  <2> QED
    BY <1>3, RecordUpdates
<1>5. Fits(a) /\ Fits(b) /\ Fits(d) /\ Fits(e) /\ Fits(f) /\ Fits(g)
  BY DEF Idle
<1>6. e.val = v /\ f.val = v /\ g.val = v
  BY DEF Idle
<1> USE DEF Client, ClientInv, Issued, SharedLabels
<1>7. op \notin Writers => a \in Client /\ b \in Client /\ d \in Client
  <2> HIDE DEF a, b, d
  <2> QED
    BY <1>2, <1>3, <1>5
<1>8. e \in Client /\ f \in Client /\ g \in Client
  <2> HIDE DEF e, f, g
  <2> QED
    BY <1>3, <1>4, <1>5, <1>6, <1>9
<1> QED
  BY <1>7, <1>8

\* The first local states the handlers start from.
LEMMA BeginRecords ==
    /\ \A op \in Issued \ Writers, pc \in SharedLabels :
         /\ [Idle EXCEPT !.op = op, !.pc = pc] \in Client
         /\ \A args \in SUBSET Members :
              [Idle EXCEPT !.op = op, !.pc = pc, !.args = args] \in Client
         /\ \A exp \in Nat : [Idle EXCEPT !.op = op, !.pc = pc, !.exp = exp] \in Client
    /\ \A op \in Issued, pc \in SharedLabels, v \in Vals :
         /\ [Idle EXCEPT !.op = op, !.pc = pc, !.val = v] \in Client
         /\ \A exp \in Nat :
              [Idle EXCEPT !.op = op, !.pc = pc, !.val = v, !.exp = exp] \in Client
         /\ \A args \in SUBSET Members :
              [Idle EXCEPT !.op = op, !.pc = pc, !.args = args, !.val = v] \in Client
<1>1. {} \in SUBSET Members /\ 0 \in Nat /\ 0 \in Vals
  BY ItemsAssumption
<1>2. ASSUME NEW op \in Issued \ Writers, NEW pc \in SharedLabels,
             NEW args \in SUBSET Members, NEW exp \in Nat
      PROVE  /\ [Idle EXCEPT !.op = op, !.pc = pc] \in Client
             /\ [Idle EXCEPT !.op = op, !.pc = pc, !.args = args] \in Client
             /\ [Idle EXCEPT !.op = op, !.pc = pc, !.exp = exp] \in Client
  BY <1>1, BeginRecord
<1>3. ASSUME NEW op \in Issued, NEW pc \in SharedLabels, NEW v \in Vals,
             NEW exp \in Nat, NEW args \in SUBSET Members
      PROVE  /\ [Idle EXCEPT !.op = op, !.pc = pc, !.val = v] \in Client
             /\ [Idle EXCEPT !.op = op, !.pc = pc, !.args = args, !.val = v] \in Client
             /\ [Idle EXCEPT !.op = op, !.pc = pc, !.val = v, !.exp = exp] \in Client
  BY <1>1, BeginRecord
<1> QED
  BY <1>1, <1>2, <1>3

-----------------------------------------------------------------------------
(***************************************************************************)
(* One lemma per command family: its steps keep the client state typed and *)
(* leave the background alone.                                             *)
(***************************************************************************)
\* DEL, the EXPIRE family and PERSIST keep everything well typed.
LEMMA KeyCommandType ==
    ASSUME ClientState, now \in Nat, NEW c \in Clients, KeyCommand(c)
    PROVE  ClientState' /\ Others
<1> USE ConstantsAssumption, LabelTypes, SetAssumption
    DEF ClientState, Others, ClientStep, LocalStep, Return, Goto, bgVars
<1>1. CASE Del(c)
  <2>1. CASE DelLoad(c)
    BY <2>1, ClientUpdates DEF DelLoad
  <2>2. CASE ~DelLoad(c)
    BY <1>1, <2>2, SharedSteps DEF Del
  <2> QED
    BY <2>1, <2>2
<1>2. CASE Expire(c)
  <2>1. CASE ExpireLoad(c)
    BY <2>1, IdleType, ClientUpdates DEF ExpireLoad
  <2>2. CASE ~ExpireLoad(c)
    BY <1>2, <2>2, SharedSteps DEF Expire
  <2> QED
    BY <2>1, <2>2
<1>3. CASE PersistCmd(c)
  <2>1. CASE PersistLoad(c)
    BY <2>1, IdleType, ClientUpdates DEF PersistLoad
  <2>2. CASE PersistStep(c)
    BY <2>2, SharedSteps
  <2> QED
    BY <1>3, <2>1, <2>2 DEF PersistCmd
<1> QED
  BY <1>1, <1>2, <1>3 DEF KeyCommand

\* The histories stay well typed under a step that writes no data item.
HistoriesType == ledger \in [Members -> Int] /\ landed \in [SK -> Nat]
LEMMA UntoldType ==
    ASSUME HistoriesType, Untold
    PROVE  HistoriesType'
  BY DEF HistoriesType, Untold, KeepLanded

\* A step that writes or removes one member.
LEMMA MemberStepType ==
    ASSUME ClientState, HistoriesType, NEW c \in Clients, NEW counted,
           \/ WriteMember(c, counted) /\ cl[c].op \in Writers
           \/ RemoveMember(c)
    PROVE  ClientState' /\ Others /\ HistoriesType'
<1> USE ConstantsAssumption, LabelTypes
    DEF ClientState, Others, ClientStep, LocalStep, Return, Goto, bgVars
<1>1. cl[c].args \subseteq Members /\ cl[c].n \in Int
  BY ClientFields
<1>2. CASE WriteMember(c, counted) /\ cl[c].op \in Writers
  <2>1. PICK m \in cl[c].args :
          /\ item' = Put(item, m, cl[c].val)
          /\ cl' = [cl EXCEPT ![c].args = cl[c].args \ {m},
                              ![c].n = IF item.data[m] = Gone /\ counted THEN @ + 1 ELSE @,
                              ![c].pc = IF cl[c].args \ {m} = {} THEN "adjust" ELSE "write"]
          /\ ledger' = IF item.data[m] = Gone THEN [ledger EXCEPT ![m] = @ + 1] ELSE ledger
          /\ landed' = [landed EXCEPT ![m] = cl[c].val]
    BY <1>2 DEF WriteMember
  <2>2. cl[c].val \in Vals /\ cl[c].val \in Nat
    BY <1>2, ClientFields, ItemsAssumption
  <2>3. item' \in ItemType
    BY <1>1, <2>1, <2>2, PrimitiveTypes DEF SK
  <2>4. cl' \in [Clients -> Client]
    <3> DEFINE g == [cl EXCEPT ![c].args = cl[c].args \ {m}]
               n == IF item.data[m] = Gone /\ counted THEN g[c].n + 1 ELSE g[c].n
               h == [g EXCEPT ![c].n = n]
               pc == IF cl[c].args \ {m} = {} THEN "adjust" ELSE "write"
    <3>1. g \in [Clients -> Client]
      BY <1>1, ClientUpdates
    <3>2. n \in Int /\ pc \in SharedLabels
      BY <3>1, ClientFields
    <3>3. h \in [Clients -> Client]
      <4> HIDE DEF g, n
      <4> QED
        BY <3>1, <3>2, ClientUpdates
    <3>4. [h EXCEPT ![c].pc = pc] \in [Clients -> Client]
      <4> HIDE DEF h, pc
      <4> QED
        BY <3>2, <3>3, ClientUpdates
    <3> QED
      BY <2>1, <3>4
  <2>5. HistoriesType'
    BY <1>1, <2>1, <2>2 DEF HistoriesType, SK
  <2> QED
    BY <1>2, <2>3, <2>4, <2>5 DEF WriteMember
<1>3. CASE RemoveMember(c)
  <2>1. PICK m \in cl[c].args :
          /\ item' = Remove(item, {m})
          /\ cl' = [cl EXCEPT ![c].args = cl[c].args \ {m},
                              ![c].n = IF item.data[m] # Gone THEN @ - 1 ELSE @,
                              ![c].pc = IF cl[c].args \ {m} = {} THEN "adjust" ELSE "remove"]
          /\ ledger' = IF item.data[m] # Gone THEN [ledger EXCEPT ![m] = @ - 1] ELSE ledger
          /\ KeepLanded
    BY <1>3 DEF RemoveMember
  <2>2. item' \in ItemType
    BY <1>1, <2>1, PrimitiveTypes DEF SK
  <2>3. cl' \in [Clients -> Client]
    <3> DEFINE g == [cl EXCEPT ![c].args = cl[c].args \ {m}]
               n == IF item.data[m] # Gone THEN g[c].n - 1 ELSE g[c].n
               h == [g EXCEPT ![c].n = n]
               pc == IF cl[c].args \ {m} = {} THEN "adjust" ELSE "remove"
    <3>1. g \in [Clients -> Client]
      BY <1>1, ClientUpdates
    <3>2. n \in Int /\ pc \in SharedLabels
      BY <3>1, ClientFields
    <3>3. h \in [Clients -> Client]
      <4> HIDE DEF g, n
      <4> QED
        BY <3>1, <3>2, ClientUpdates
    <3>4. [h EXCEPT ![c].pc = pc] \in [Clients -> Client]
      <4> HIDE DEF h, pc
      <4> QED
        BY <3>2, <3>3, ClientUpdates
    <3> QED
      BY <2>1, <3>4
  <2>4. HistoriesType'
    BY <1>1, <2>1 DEF HistoriesType, KeepLanded
  <2> QED
    BY <1>3, <2>2, <2>3, <2>4 DEF RemoveMember
<1> QED
  BY <1>2, <1>3

\* The read of an increment, and its compare-and-set, on any data item.
LEMMA IncrReadType ==
    ASSUME ClientState, NEW c \in Clients, NEW sk \in SK, IncrRead(c, sk)
    PROVE  ClientState' /\ Others
<1> USE LabelTypes DEF ClientState, Others, ClientStep, LocalStep, Return, Goto, bgVars
<1> DEFINE s == item.data[sk]
           v == Base(s) + 1
<1>1. s \in Vals \cup {Gone}
  BY DEF ItemType
<1>2. ASSUME v \in Vals
      PROVE  [cl EXCEPT ![c] = [@ EXCEPT !.pc = "cas", !.seen = s, !.val = v]] \in [Clients -> Client]
  <2>1. cl \in [Clients -> Client] /\ v = Base(s) + 1
    OBVIOUS
  <2> HIDE DEF s, v
  <2> QED
    BY <1>1, <1>2, <2>1, ClientIncrement
<1>3. cl' \in [Clients -> Client]
  BY <1>2, IdleType, ClientUpdates DEF IncrRead
<1> QED
  BY <1>3 DEF IncrRead

LEMMA CompareAndSetType ==
    ASSUME ClientState, HistoriesType, NEW c \in Clients, NEW sk \in SK, NEW label,
           NEW next \in SharedLabels, CompareAndSet(c, label, next, sk)
    PROVE  ClientState' /\ Others /\ HistoriesType'
<1> USE LabelTypes DEF ClientState, Others, ClientStep, Return, Goto, bgVars
<1>1. cl[c].val \in Vals \cup {Gone}
  BY ClientFields
<1>2. Put(item, sk, cl[c].val) \in ItemType
  BY <1>1, PrimitiveTypes
<1>3. cl' \in [Clients -> Client]
  <2> DEFINE g == [cl EXCEPT ![c].pc = next]
             h == [cl EXCEPT ![c].pc = "adjust"]
  <2>1. g \in [Clients -> Client] /\ h \in [Clients -> Client]
    BY ClientUpdates
  <2>2. g[c].tries + 1 \in Nat
    BY <2>1, ClientFields
  <2>3. /\ [g EXCEPT ![c].tries = g[c].tries + 1] \in [Clients -> Client]
        /\ [h EXCEPT ![c].n = 1] \in [Clients -> Client]
    <3> HIDE DEF g, h
    <3>1. \A x \in Nat : [g EXCEPT ![c].tries = x] \in [Clients -> Client]
      BY <2>1, ClientUpdates
    <3>2. \A x \in Int : [h EXCEPT ![c].n = x] \in [Clients -> Client]
      BY <2>1, ClientUpdates
    <3>3. 1 \in Int
      OBVIOUS
    <3> QED
      BY <2>2, <3>1, <3>2, <3>3, Zenon
  <2>4. [cl EXCEPT ![c] = Idle] \in [Clients -> Client]
    BY IdleType
  <2>5. \/ cl' = [cl EXCEPT ![c].pc = "adjust", ![c].n = 1]
        \/ cl' = [cl EXCEPT ![c].pc = next, ![c].tries = @ + 1]
        \/ cl' = [cl EXCEPT ![c] = Idle]
    BY DEF CompareAndSet
  <2>6. /\ [cl EXCEPT ![c].pc = "adjust", ![c].n = 1] = [h EXCEPT ![c].n = 1]
        /\ [cl EXCEPT ![c].pc = next, ![c].tries = @ + 1]
             = [g EXCEPT ![c].tries = g[c].tries + 1]
    OBVIOUS
  <2> HIDE DEF g, h
  <2> QED
    BY <2>3, <2>4, <2>5, <2>6
<1>4. item' \in ItemType
  BY <1>2 DEF CompareAndSet
<1>5. HistoriesType'
  BY DEF CompareAndSet, HistoriesType
<1> QED
  BY <1>3, <1>4, <1>5 DEF CompareAndSet

\* The paths the collections share.
CollectionPaths(c, type) ==
    \/ \E counted \in BOOLEAN : AddMembers(c, type, counted) /\ cl[c].op \in Writers
    \/ StoreMembers(c, type) /\ cl[c].op \in Writers
    \/ TakeMembers(c, type) \/ PickMembers(c, type)
LEMMA CollectionPathsType ==
    ASSUME ClientState, now \in Nat, HistoriesType, NEW c \in Clients, NEW type \in Types,
           CollectionPaths(c, type)
    PROVE  ClientState' /\ Others /\ HistoriesType'
<1> DEFINE Shared == \/ LoadState(c, type, "remove") \/ LoadState(c, type, "choose")
                     \/ EnsureTypeExpiringStep(c, type, "write") \/ DeleteMembersSteps(c)
                     \/ DeleteMetaStep(c, "replace") \/ EnqueueStep(c)
                     \/ AdjustCountSteps(c, type)
           Own == ChooseMembers(c) \/ StoreResult(c) \/ StoreReclaim(c)
<1>1. ASSUME NEW counted \in BOOLEAN,
             (WriteMember(c, counted) /\ cl[c].op \in Writers) \/ RemoveMember(c)
      PROVE  ClientState' /\ Others /\ HistoriesType'
  BY <1>1, MemberStepType
<1>2. ASSUME ChooseMembers(c) PROVE ClientState' /\ Others
  <2> USE LabelTypes DEF ClientState, Others, ClientStep, LocalStep, Return, Goto, bgVars
  <2>1. cl' \in [Clients -> Client]
    BY <1>2, IdleType, ClientUpdates DEF ChooseMembers
  <2> QED
    BY <1>2, <2>1 DEF ChooseMembers
<1>3. ASSUME StoreResult(c) \/ StoreReclaim(c) PROVE ClientState' /\ Others
  <2> USE LabelTypes DEF ClientState, Others, ClientStep, LocalStep, Return, Goto, bgVars
  <2>1. cl' \in [Clients -> Client]
    BY <1>3, IdleType, ClientUpdates DEF StoreResult, StoreReclaim
  <2> QED
    BY <1>3, <2>1 DEF StoreResult, StoreReclaim
<1>4. ASSUME Shared PROVE ClientState' /\ Others
  BY <1>4, SharedSteps, LabelTypes
<1>5. CASE (Own \/ Shared) /\ Untold
  BY <1>2, <1>3, <1>4, <1>5, UntoldType
<1> QED
  BY <1>1, <1>5 DEF CollectionPaths, AddMembers, StoreMembers, TakeMembers, PickMembers

\* SADD, SREM, SPOP and the STORE commands keep everything well typed.
LEMMA SetCommandType ==
    ASSUME ClientState, now \in Nat, HistoriesType, NEW c \in Clients, SetCommand(c)
    PROVE  ClientState' /\ Others /\ HistoriesType'
<1>1. CollectionPaths(c, TSet)
  BY DEF SetCommand, SAdd, SRem, SPop, SStore, CollectionPaths, Writers
<1> QED
  BY <1>1, CollectionPathsType, SetAssumption

\* HSET, HSETNX, HDEL and HINCRBY keep everything well typed.
LEMMA HashCommandType ==
    ASSUME ClientState, now \in Nat, HistoriesType, NEW c \in Clients, HashCommand(c)
    PROVE  ClientState' /\ Others /\ HistoriesType'
<1> DEFINE Shared == \/ EnsureTypeExpiringStep(c, THash, "read") \/ DeleteMembersSteps(c)
                     \/ AdjustCountSteps(c, THash)
<1>1. cl[c].args \subseteq SK
  BY ClientFields DEF ClientState, SK
<1>2. CASE CollectionPaths(c, THash)
  BY <1>2, CollectionPathsType, HashAssumption
<1>3. CASE Return(c) /\ LocalStep /\ Untold
  BY <1>3, UntoldType, IdleType, ClientUpdates
     DEF ClientState, Others, ClientStep, LocalStep, Return, bgVars
<1>4. CASE \E f \in cl[c].args : CompareAndSet(c, "cas", "read", f)
  BY <1>1, <1>4, CompareAndSetType, LabelTypes
<1>5. CASE (\E f \in cl[c].args : IncrRead(c, f)) /\ Untold
  BY <1>1, <1>5, IncrReadType, UntoldType
<1>6. CASE Shared /\ Untold
  BY <1>6, SharedSteps, UntoldType, LabelTypes, HashAssumption
<1> QED
  BY <1>2, <1>3, <1>4, <1>5, <1>6
     DEF HashCommand, HSet, HSetNX, HDel, HIncr, CollectionPaths, Writers

\* The reads of ZADD's flags and of ZINCRBY keep everything well typed.
LEMMA ZSetReadType ==
    ASSUME ClientState, NEW c \in Clients, WrongTypeOnly(c) \/ Look(c) \/ ZIncrRead(c)
    PROVE  ClientState' /\ Others
<1> USE LabelTypes DEF ClientState, Others, ClientStep, LocalStep, Return, Goto, bgVars
<1>1. cl[c].args \subseteq Members /\ cl[c].lst \subseteq SK /\ cl[c].n \in Int
  BY ClientFields
<1>2. ASSUME WrongTypeOnly(c) PROVE cl' \in [Clients -> Client]
  <2> DEFINE g == [cl EXCEPT ![c].pc = "look"]
  <2>1. g \in [Clients -> Client] /\ cl[c].args \in SUBSET SK
    BY <1>1, ClientUpdates DEF SK
  <2>2. [g EXCEPT ![c].lst = cl[c].args] \in [Clients -> Client]
    <3> HIDE DEF g
    <3> QED
      BY <2>1, ClientUpdates
  <2> QED
    BY <1>2, <2>2, IdleType, ClientUpdates DEF WrongTypeOnly
<1>3. ASSUME ZIncrRead(c) PROVE cl' \in [Clients -> Client]
  <2>1. PICK m \in cl[c].args :
          cl' = [cl EXCEPT ![c].pc = "write", ![c].n = IF item.data[m] = Gone THEN 1 ELSE 0]
    BY <1>3 DEF ZIncrRead
  <2> DEFINE g == [cl EXCEPT ![c].pc = "write"]
             n == IF item.data[m] = Gone THEN 1 ELSE 0
  <2>2. g \in [Clients -> Client] /\ n \in Int
    BY ClientUpdates
  <2>3. [g EXCEPT ![c].n = n] \in [Clients -> Client]
    <3> HIDE DEF g, n
    <3> QED
      BY <2>2, ClientUpdates
  <2> QED
    BY <2>1, <2>3
<1>4. ASSUME Look(c) PROVE cl' \in [Clients -> Client]
  <2>1. PICK m \in cl[c].lst :
          LET gone == item.data[m] = Gone
              gated == Gated(cl[c].op, ~gone)
              kept == IF gated THEN cl[c].args \ {m} ELSE cl[c].args
              rest == cl[c].lst \ {m}
          IN  \/ Return(c)
              \/ cl' = [cl EXCEPT ![c].args = kept, ![c].lst = rest,
                                  ![c].n = IF gated \/ ~gone THEN @ ELSE @ + 1,
                                  ![c].pc = IF rest = {} THEN "ensure" ELSE "look"]
    BY <1>4 DEF Look
  <2> DEFINE there == item.data[m] # Gone
             gated == Gated(cl[c].op, there)
             kept == IF gated THEN cl[c].args \ {m} ELSE cl[c].args
             rest == cl[c].lst \ {m}
             f == [cl EXCEPT ![c].args = kept]
             g == [f EXCEPT ![c].lst = rest]
             n == IF gated \/ there THEN g[c].n ELSE g[c].n + 1
             h == [g EXCEPT ![c].n = n]
             pc == IF rest = {} THEN "ensure" ELSE "look"
  <2>2. f \in [Clients -> Client] /\ rest \in SUBSET SK
    BY <1>1, ClientUpdates
  <2>3. g \in [Clients -> Client]
    <3> HIDE DEF f, rest
    <3> QED
      BY <2>2, ClientUpdates
  <2>4. n \in Int /\ pc \in SharedLabels
    <3> HIDE DEF g
    <3> QED
      BY <2>3, ClientFields
  <2>5. h \in [Clients -> Client]
    <3> HIDE DEF g, n
    <3> QED
      BY <2>3, <2>4, ClientUpdates
  <2>6. [h EXCEPT ![c].pc = pc] \in [Clients -> Client]
    <3> HIDE DEF h, pc
    <3> QED
      BY <2>4, <2>5, ClientUpdates
  <2>7. CASE Return(c)
    BY <2>7, IdleType, ClientUpdates
  <2>8. CASE cl' = [cl EXCEPT ![c].args = kept, ![c].lst = rest,
                              ![c].n = IF gated \/ there THEN @ ELSE @ + 1, ![c].pc = pc]
    <3>1. cl' = [h EXCEPT ![c].pc = pc]
      BY <2>8
    <3> QED
      BY <2>6, <3>1
  <2> QED
    BY <2>1, <2>7, <2>8
<1> QED
  BY <1>2, <1>3, <1>4 DEF WrongTypeOnly, Look, ZIncrRead

\* ZADD, ZINCRBY, ZREM, ZREMRANGE and the STORE commands keep everything well typed.
LEMMA ZSetCommandType ==
    ASSUME ClientState, now \in Nat, HistoriesType, NEW c \in Clients, ZSetCommand(c)
    PROVE  ClientState' /\ Others /\ HistoriesType'
<1> DEFINE Shared == \/ EnsureTypeExpiringStep(c, TZSet, "isnew") \/ DeleteMembersSteps(c)
                     \/ AdjustCountSteps(c, TZSet)
<1>1. CASE CollectionPaths(c, TZSet)
  BY <1>1, CollectionPathsType, ZSetAssumption
<1>2. CASE (WrongTypeOnly(c) \/ Look(c) \/ ZIncrRead(c)) /\ Untold
  BY <1>2, ZSetReadType, UntoldType
<1>3. CASE Shared /\ Untold
  BY <1>3, SharedSteps, UntoldType, LabelTypes, ZSetAssumption
<1>4. CASE WriteMember(c, FALSE) /\ cl[c].op \in Writers
  BY <1>4, MemberStepType
<1> QED
  BY <1>1, <1>2, <1>3, <1>4
     DEF ZSetCommand, ZAdd, ZAddFlag, ZIncr, ZRem, ZRemRange, ZStore, CollectionPaths, Writers,
         Flags, ZIncrOps

\* A value item holds a number, or is not there.
LEMMA ValueType ==
    ASSUME item \in ItemType
    PROVE  Value(item) \in Vals \cup {Gone}
  BY DEF ItemType, SK, Value

\* SetString and GetSetString, which write the value item.
LEMMA ValueStepType ==
    ASSUME ClientState, HistoriesType, NEW c \in Clients, NEW next \in SharedLabels,
           PutValue(c, next) \/ GetSetValue(c), cl[c].op \in Writers
    PROVE  ClientState' /\ Others /\ HistoriesType'
<1> USE LabelTypes DEF ClientState, Others, ClientStep, Return, Goto, bgVars
<1>1. cl[c].val \in Vals /\ cl[c].val \in Nat /\ ValueSK \in SK
  BY ClientFields, ItemsAssumption DEF SK
<1>2. Put(item, ValueSK, cl[c].val) \in ItemType
  BY <1>1, PrimitiveTypes
<1>3. ASSUME PutValue(c, next) PROVE cl' \in [Clients -> Client]
  BY <1>3, IdleType, ClientUpdates DEF PutValue
<1>4. ASSUME GetSetValue(c) PROVE cl' \in [Clients -> Client]
  BY <1>4, ValueType, ClientValues DEF GetSetValue, SharedLabels
<1>5. HistoriesType'
  BY <1>1 DEF PutValue, GetSetValue, HistoriesType
<1> QED
  BY <1>2, <1>3, <1>4, <1>5 DEF PutValue, GetSetValue

\* The String commands keep everything well typed.
LEMMA StringCommandType ==
    ASSUME ClientState, now \in Nat, HistoriesType, NEW c \in Clients, StringCommand(c)
    PROVE  ClientState' /\ Others /\ HistoriesType'
<1> DEFINE Shared == \/ DeleteMembersSteps(c) \/ DeleteMetaStep(c, "ensure") \/ EnqueueStep(c)
                     \/ EnsureTypeExpiringStep(c, TStr, "put")
                     \/ EnsureTypeExpiringStep(c, TStr, "getset")
                     \/ EnsureTypeExpiringStep(c, TStr, "read")
                     \/ EnsureTypeExpiringStep(c, TStr, "swap")
                     \/ SetExpireStep(c) \/ PersistStep(c)
           Claims == Claim(c, "list", "put") \/ Claim(c, "put", "idle")
           Reads == SetXX(c) \/ OverwriteAnyType(c) \/ IncrRead(c, ValueSK)
           AppendReads == cl[c].op = "append" /\ (AppendLoad(c) \/ AppendGet(c))
           Writes == \/ cl[c].op \in Writers /\ (\/ PutValue(c, "persist") \/ PutValue(c, "setexp")
                                                 \/ PutValue(c, "idle") \/ GetSetValue(c))
           Swaps == \/ CompareAndSet(c, "cas", "read", ValueSK)
                    \/ CompareAndSet(c, "swap", "load", ValueSK)
<1>0. ValueSK \in SK
  BY DEF SK
<1>1. CASE Writes
  BY <1>1, ValueStepType, LabelTypes
<1>7. CASE Swaps
  BY <1>0, <1>7, CompareAndSetType, LabelTypes
<1>2. ASSUME Shared PROVE ClientState' /\ Others
  BY <1>2, SharedSteps, LabelTypes, StringAssumption
<1>3. ASSUME NEW next \in SharedLabels, NEW ret \in SharedLabels, Claim(c, next, ret)
      PROVE  ClientState' /\ Others
  <2> USE LabelTypes DEF ClientState, Others, ClientStep, Return, Goto, bgVars
  <2>1. item' \in ItemType
    BY <1>3, StringAssumption, PrimitiveTypes DEF Claim
  <2>2. cl' \in [Clients -> Client]
    BY <1>3, IdleType, ClientUpdates DEF Claim
  <2> QED
    BY <1>3, <2>1, <2>2 DEF Claim
<1>4. ASSUME Reads PROVE ClientState' /\ Others
  <2> USE LabelTypes DEF ClientState, Others, ClientStep, LocalStep, Return, Goto, bgVars
  <2>1. ASSUME SetXX(c) \/ OverwriteAnyType(c) PROVE cl' \in [Clients -> Client]
    BY <2>1, IdleType, ClientUpdates DEF SetXX, OverwriteAnyType
  <2> QED
    BY <1>0, <1>4, <2>1, IncrReadType DEF SetXX, OverwriteAnyType
<1>5. ASSUME AppendReads PROVE ClientState' /\ Others
  <2> USE LabelTypes DEF ClientState, Others, ClientStep, LocalStep, Return, Goto, bgVars
  <2>1. cl[c].op \notin Writers
    BY <1>5 DEF Writers
  <2>2. ASSUME AppendLoad(c) PROVE cl' \in [Clients -> Client]
    <3> DEFINE v == IF Live(item, now) THEN 0 ELSE Gone
    <3>1. v \in Vals \cup {Gone} /\ Gone \in Vals \cup {Gone} /\ "get" \in Labels
      BY ItemsAssumption DEF Labels
    <3>2. [cl EXCEPT ![c] = [@ EXCEPT !.pc = "get", !.val = v]] \in [Clients -> Client]
      <4> HIDE DEF v
      <4> QED
        BY <2>1, <3>1, ClientValues
    <3> QED
      BY <2>2, <3>2, IdleType, ClientUpdates DEF AppendLoad
  <2>3. ASSUME AppendGet(c) PROVE cl' \in [Clients -> Client]
    <3> DEFINE v == (IF cl[c].val = Gone THEN 0 ELSE Base(Value(item))) + 1
    <3>1. ASSUME v \in Vals
          PROVE  [cl EXCEPT ![c] = [@ EXCEPT !.pc = "ensure", !.seen = Value(item), !.val = v]]
                   \in [Clients -> Client]
      <4>1. "ensure" \in Labels
        BY DEF Labels
      <4> HIDE DEF v
      <4> QED
        BY <2>1, <3>1, <4>1, ValueType, ClientValues
    <3> QED
      BY <2>3, <3>1, IdleType, ClientUpdates DEF AppendGet
  <2> QED
    BY <1>5, <2>2, <2>3 DEF AppendLoad, AppendGet
<1>6. CASE (Shared \/ Claims \/ Reads \/ AppendReads) /\ Untold
  BY <1>2, <1>3, <1>4, <1>5, <1>6, UntoldType, LabelTypes
<1> QED
  BY <1>1, <1>6, <1>7 DEF StringCommand, SetCmd, SetNXOpt, SetNX, GetSet, Incr, AppendCmd, Writers

-----------------------------------------------------------------------------
\* A command that arrives keeps everything well typed.
LEMMA StartType ==
    ASSUME CoreTypeOK, cl \in [Clients -> Client], NEW c \in Clients,
           \/ DelStart(c) \/ ExpireStart(c) \/ PersistStart(c)
           \/ SetCommandStart(c, Commands) \/ HashCommandStart(c, Commands)
           \/ ZSetCommandStart(c, Commands) \/ StringCommandStart(c, Commands)
    PROVE  CoreTypeOK' /\ cl' \in [Clients -> Client]
<1>1. now \in Nat /\ now + 1 \in Nat /\ 0 \in Nat
  BY DEF CoreTypeOK
<1>2. \A op \in {"del", "expire", "expirepast", "persist", "srem", "spop", "incr", "hdel", "hincr",
                  "zrem", "zremrange"} : op \in Issued \ Writers
  BY SMTT(20), ZenonT(30) DEF Ops, Writers, Issued
<1>3. \A op \in Writers : op \in Issued
  BY DEF Ops, Writers, Issued
<1>5. \A op \in {"set", "set nx", "setnx", "getset", "sadd", "sstore", "hset", "hsetnx", "zadd",
                  "zstore"} \cup Flags \cup ZIncrOps : op \in Writers
  BY DEF Writers, Flags, ZIncrOps
<1>4. PICK rec \in Client : Begin(c, rec)
  <2>1. CASE DelStart(c) \/ PersistStart(c)
    BY <1>2, <2>1, LabelTypes, BeginRecords DEF DelStart, PersistStart
  <2>2. CASE ExpireStart(c)
    <3>1. PICK exp \in now .. now + 1 :
            Begin(c, [Idle EXCEPT !.op = IF exp <= now THEN "expirepast" ELSE "expire",
                                  !.pc = "load", !.exp = exp])
      BY <2>2 DEF ExpireStart
    <3>2. exp \in Nat
      BY <1>1
    <3> DEFINE op == IF exp <= now THEN "expirepast" ELSE "expire"
    <3>3. op \in Issued \ Writers
      BY <1>2
    <3>4. [Idle EXCEPT !.op = op, !.pc = "load", !.exp = exp] \in Client
      <4> HIDE DEF op
      <4> QED
        BY <3>2, <3>3, LabelTypes, BeginRecords
    <3> QED
      BY <3>1, <3>4
  <2>3. CASE SetCommandStart(c, Commands)
    <3>1. CASE SAddStart(c) \/ SStoreStart(c)
      BY <1>3, <1>5, <3>1, LabelTypes, BeginRecords, ItemsAssumption DEF SAddStart, SStoreStart, InSet
    <3>2. CASE SRemStart(c) \/ SPopStart(c)
      BY <1>2, <3>2, LabelTypes, BeginRecords DEF SRemStart, SPopStart
    <3> QED
      BY <2>3, <3>1, <3>2 DEF SetCommandStart
  <2>8. CASE HashCommandStart(c, Commands)
    <3>1. CASE HSetStart(c)
      BY <1>3, <1>5, <3>1, LabelTypes, BeginRecords DEF HSetStart
    <3>2. CASE HSetNXStart(c)
      <4>1. \A f \in Members : {f} \in SUBSET Members
        OBVIOUS
      <4> QED
        BY <1>3, <1>5, <3>2, <4>1, LabelTypes, BeginRecords DEF HSetNXStart
    <3>3. CASE HDelStart(c)
      BY <1>2, <3>3, LabelTypes, BeginRecords DEF HDelStart
    <3>4. CASE HIncrStart(c)
      <4>1. \A f \in Members : {f} \in SUBSET Members
        OBVIOUS
      <4> QED
        BY <1>2, <3>4, <4>1, LabelTypes, BeginRecords DEF HIncrStart
    <3> QED
      BY <2>8, <3>1, <3>2, <3>3, <3>4 DEF HashCommandStart
  <2>9. CASE ZSetCommandStart(c, Commands)
    <3>1. CASE ZAddStart(c) \/ ZStoreStart(c)
      BY <1>3, <1>5, <3>1, LabelTypes, BeginRecords, ItemsAssumption DEF ZAddStart, ZStoreStart, Scored
    <3>2. ASSUME NEW op \in Flags, ZAddFlagStart(c, op) PROVE \E rec \in Client : Begin(c, rec)
      BY <1>3, <1>5, <3>2, LabelTypes, BeginRecords, ItemsAssumption DEF ZAddFlagStart, Scored
    <3>3. ASSUME NEW op \in ZIncrOps, ZIncrStart(c, op) PROVE \E rec \in Client : Begin(c, rec)
      <4>1. PICK m \in Members :
              Begin(c, [Idle EXCEPT !.op = op, !.pc = IF op = "zincr" THEN "ensure" ELSE "load",
                                    !.args = {m}, !.val = 0])
        BY <3>3 DEF ZIncrStart, Scored
      <4> DEFINE pc == IF op = "zincr" THEN "ensure" ELSE "load"
      <4>2. pc \in SharedLabels /\ {m} \in SUBSET Members /\ 0 \in Vals /\ op \in Issued
        BY <1>3, <1>5, LabelTypes, ItemsAssumption
      <4>3. [Idle EXCEPT !.op = op, !.pc = pc, !.args = {m}, !.val = 0] \in Client
        <5> HIDE DEF pc
        <5> QED
          BY <4>2, BeginRecords
      <4> QED
        BY <4>1, <4>3
    <3>4. CASE ZRemStart(c) \/ ZRemRangeStart(c)
      BY <1>2, <3>4, LabelTypes, BeginRecords DEF ZRemStart, ZRemRangeStart
    <3> QED
      BY <2>9, <3>1, <3>2, <3>3, <3>4 DEF ZSetCommandStart
  <2>4. CASE SetStart(c)
    <3>1. PICK xx \in BOOLEAN, v \in Vals, exp \in {0, now + 1} :
            Begin(c, [Idle EXCEPT !.op = "set", !.pc = IF xx THEN "xx" ELSE "overwrite",
                                  !.val = v, !.exp = exp])
      BY <2>4 DEF SetStart
    <3> DEFINE pc == IF xx THEN "xx" ELSE "overwrite"
    <3>2. pc \in SharedLabels /\ exp \in Nat
      BY <1>1, LabelTypes
    <3>3. [Idle EXCEPT !.op = "set", !.pc = pc, !.val = v, !.exp = exp] \in Client
      <4> HIDE DEF pc
      <4> QED
        BY <1>3, <1>5, <3>2, BeginRecords
    <3> QED
      BY <3>1, <3>3
  <2>5. CASE SetNXOptStart(c) \/ SetNXStart(c) \/ GetSetStart(c)
    BY <1>1, <1>3, <1>5, <2>5, LabelTypes, BeginRecords DEF SetNXOptStart, SetNXStart, GetSetStart
  <2>6. CASE IncrStart(c)
    BY <1>2, <2>6, LabelTypes, BeginRecords DEF IncrStart
  <2>7. CASE "append" \in Commands /\ AppendStart(c)
    <3>1. "append" \in Issued \ Writers
      BY <2>7 DEF Ops, Writers, Issued
    <3> QED
      BY <2>7, <3>1, LabelTypes, BeginRecords DEF AppendStart
  <2> QED
    BY <2>1, <2>2, <2>3, <2>4, <2>5, <2>6, <2>7, <2>8, <2>9 DEF StringCommandStart
<1> QED
  BY <1>4, BeginType

\* The deleter, the sweeper and the clock keep everything well typed.
LEMMA WorkType ==
    ASSUME CoreTypeOK, cl \in [Clients -> Client], Background
    PROVE  CoreTypeOK' /\ cl' \in [Clients -> Client]
<1> USE ConstantsAssumption DEF CoreTypeOK, bgVars
<1>1. CASE WorkerSteps
  <2>1. CASE Dequeue
    BY <2>1 DEF Dequeue, WorkerStep
  <2>2. CASE WorkerIsLive
    BY <2>2 DEF WorkerIsLive, WorkerStep
  <2>3. CASE WorkerList
    BY <2>3, PrimitiveTypes DEF WorkerList, WorkerStep
  <2>4. CASE WorkerReclaim
    BY <2>4, PrimitiveTypes DEF WorkerReclaim, WorkerStep, AtRest
  <2> QED
    BY <1>1, <2>1, <2>2, <2>3, <2>4 DEF WorkerSteps
<1>2. CASE SweepSteps
  BY <1>2, PrimitiveTypes DEF SweepSteps, SweepScan, SweepReclaim, AtRest
<1>3. CASE Tick
  BY <1>3 DEF Tick
<1> QED
  BY <1>1, <1>2, <1>3 DEF Background

\* Failures, crashes and native TTL keep everything well typed.
LEMMA MishapType ==
    ASSUME CoreTypeOK, cl \in [Clients -> Client], Faults
    PROVE  CoreTypeOK' /\ cl' \in [Clients -> Client]
<1> USE ConstantsAssumption DEF CoreTypeOK, bgVars
<1>1. CASE WorkerIsLiveError \/ WorkerFail
  BY <1>1 DEF WorkerIsLiveError, WorkerFail, WorkerStep, AtRest
<1>2. CASE NativeTTL
  BY <1>2, PrimitiveTypes DEF NativeTTL
<1>3. CASE Crash
  <2>1. cl' \in [Clients -> Client]
    BY <1>3, IdleType DEF Crash
  <2>2. cl' \in [Clients -> ClientType]
    BY <2>1 DEF Client
  <2> QED
    BY <1>3, <2>1, <2>2 DEF Crash, AtRest
<1>4. ASSUME NEW c \in Clients, CommandFails(c) \/ InlineFails(c)
      PROVE  CoreTypeOK' /\ cl' \in [Clients -> Client]
  <2>1. cl' \in [Clients -> Client]
    <3>1. CASE CommandFails(c)
      BY <3>1, IdleType, ClientUpdates DEF CommandFails, Return
    <3>2. CASE InlineFails(c)
      BY <3>2, IdleType, LabelTypes, ClientFields, ClientUpdates DEF InlineFails, Return, Goto
    <3> QED
      BY <1>4, <3>1, <3>2
  <2>2. cl' \in [Clients -> ClientType]
    BY <2>1 DEF Client
  <2> QED
    BY <1>4, <2>1, <2>2 DEF CommandFails, InlineFails
<1> QED
  BY <1>1, <1>2, <1>3, <1>4 DEF Faults

\* What a command's step leaves alone stays well typed.
LEMMA CommandStepType ==
    ASSUME CoreTypeOK, ClientState', Others
    PROVE  CoreTypeOK' /\ (cl \in [Clients -> Client])'
  BY DEF CoreTypeOK, ClientState, Others, Client

\* Every step keeps the type invariant.
LEMMA TypeStep ==
    ASSUME TypeInv, [Next]_vars
    PROVE  TypeInv'
<1>1. /\ CoreTypeOK /\ ClientState /\ now \in Nat
      /\ HistoriesType
  BY DEF TypeInv, TypeOK, CoreTypeOK, ClientState, HistoriesType
<1> USE DEF TypeInv, TypeOK, HistoriesType
<1>2. ASSUME NEW c \in Clients, Start(c)
      PROVE  TypeInv'
  BY <1>1, <1>2, StartType DEF Start, KeyStart
<1>3. ASSUME NEW c \in Clients, Continue(c)
      PROVE  TypeInv'
  <2>1. CASE KeyCommand(c) /\ Untold
    BY <1>1, <2>1, KeyCommandType, UntoldType, CommandStepType
  <2>2. CASE SetCommand(c) \/ HashCommand(c) \/ ZSetCommand(c)
    BY <1>1, <2>2, SetCommandType, HashCommandType, ZSetCommandType, CommandStepType
  <2>3. CASE StringCommand(c)
    BY <1>1, <2>3, StringCommandType, CommandStepType
  <2> QED
    BY <1>3, <2>1, <2>2, <2>3 DEF Continue
<1>4. CASE Work
  BY <1>1, <1>4, WorkType, UntoldType DEF Work
<1>5. CASE Mishap
  BY <1>1, <1>5, MishapType, UntoldType DEF Mishap
<1>6. CASE UNCHANGED vars
  BY <1>1, <1>6 DEF vars, coreVars, CoreTypeOK
<1> QED
  BY <1>2, <1>3, <1>4, <1>5, <1>6 DEF Next

\* The empty table is well typed.
LEMMA TypeInit == Init => TypeInv
<1> SUFFICES ASSUME Init PROVE TypeInv
  OBVIOUS
<1>1. item \in ItemType
  BY DEF Init, CoreInit, Absent, ItemType
<1>2. cl \in [Clients -> Client] /\ cl \in [Clients -> ClientType]
  BY IdleType DEF Init, CoreInit, Client
<1> QED
  BY <1>1, <1>2, ConstantsAssumption
     DEF Init, CoreInit, TypeInv, TypeOK, CoreTypeOK, AtRest

\* Every reachable state of the key, its connections, the deleter, the sweeper and
\* the histories is well typed, whatever commands run and whatever fails; among
\* the rest, the deleter's queue never holds more than QueueCapacity keys.
THEOREM TypeCorrect == Spec => []TypeOK
<1>1. Init => TypeInv
  BY TypeInit
<1>2. TypeInv /\ [Next]_vars => TypeInv'
  BY TypeStep
<1>3. TypeInv => TypeOK
  BY DEF TypeInv
<1> QED
  BY <1>1, <1>2, <1>3, PTL DEF Spec

-----------------------------------------------------------------------------
(***************************************************************************)
(* What a step does to the data items.  Only a member write, a member      *)
(* removal and a value write change them otherwise than by reclaiming.     *)
(***************************************************************************)
DataKept == \A sk \in SK : item'.data[sk] = item.data[sk] \/ item'.data[sk] = Gone

\* And what it does to the type: that of a live key stays, or the meta item goes.
TypeKept == Live(item, now) /\ HasMeta(item') => item'.t = item.t

Kept == DataKept /\ TypeKept

\* Claiming, typing, counting and expiring a key do not touch its data items;
\* reclaiming only removes some.
LEMMA PrimitiveData ==
    ASSUME NEW k \in ItemType
    PROVE  /\ \A type, time : /\ EnsureTypeExpiring(k, type, time).data = k.data
                              /\ CreateTypeIfAbsent(k, type, time).data = k.data
           /\ \A type, delta : EnsureType(k, type, delta).data = k.data
           /\ \A exp : SetExpire(k, exp).data = k.data
           /\ Persist(k).data = k.data
           /\ DeleteMeta(k).data = k.data
           /\ DeleteMetaIfEmpty(k).data = k.data
           /\ \A listed : \A sk \in SK :
                Remove(k, listed).data[sk] = k.data[sk] \/ Remove(k, listed).data[sk] = Gone
<1>1. \A exp : SetExpire(k, exp).data = k.data
  BY DEF SetExpire, ItemType
<1>2. \A listed : \A sk \in SK :
        Remove(k, listed).data[sk] = k.data[sk] \/ Remove(k, listed).data[sk] = Gone
  BY DEF Remove, ItemType
<1>3. \A type : Claimed(k, type).data = k.data
  BY DEF Claimed
<1>4. \A type, delta : EnsureType(k, type, delta).data = k.data
  BY DEF EnsureType
<1> QED
  BY <1>1, <1>2, <1>3, <1>4
     DEF EnsureTypeExpiring, CreateTypeIfAbsent, Persist, DeleteMeta, DeleteMetaIfEmpty, NoMeta

\* A primitive that writes the meta item of a live key was allowed by its type.
LEMMA PrimitiveType ==
    ASSUME NEW k \in ItemType
    PROVE  /\ \A type, time : Live(k, time) /\ ExpiringAllows(k, type, time)
                                => EnsureTypeExpiring(k, type, time).t = k.t
           /\ \A type, time : Live(k, time) => CreateTypeIfAbsent(k, type, time).t = k.t
           /\ \A type, delta : HasMeta(k) /\ TypeAllows(k, type) => EnsureType(k, type, delta).t = k.t
           /\ \A exp : SetExpire(k, exp).t = k.t
           /\ Persist(k).t = k.t
           /\ ~HasMeta(DeleteMeta(k))
           /\ HasMeta(DeleteMetaIfEmpty(k)) => DeleteMetaIfEmpty(k).t = k.t
           /\ \A listed : Remove(k, listed).t = k.t
           /\ \A sk, v : Put(k, sk, v).t = k.t
<1>1. /\ \A exp : SetExpire(k, exp).t = k.t
      /\ \A listed : Remove(k, listed).t = k.t
      /\ \A sk, v : Put(k, sk, v).t = k.t
  BY DEF SetExpire, Remove, Put, ItemType
<1>2. \A type, delta : HasMeta(k) /\ TypeAllows(k, type) => EnsureType(k, type, delta).t = k.t
  BY DEF HasMeta, TypeAllows, EnsureType
<1>3. \A type, time : Live(k, time) /\ ExpiringAllows(k, type, time)
                        => EnsureTypeExpiring(k, type, time).t = k.t
  BY <1>2 DEF Live, ExpiringAllows, TakesOver, EnsureTypeExpiring
<1>4. \A type, time : Live(k, time) => CreateTypeIfAbsent(k, type, time).t = k.t
  BY DEF CreateTypeIfAbsent
<1>5. Persist(k).t = k.t
  BY <1>1 DEF Persist
<1>6. /\ ~HasMeta(DeleteMeta(k))
      /\ HasMeta(DeleteMetaIfEmpty(k)) => DeleteMetaIfEmpty(k).t = k.t
  BY DEF HasMeta, DeleteMeta, DeleteMetaIfEmpty, NoMeta, Claimed
<1> QED
  BY <1>1, <1>2, <1>3, <1>4, <1>5, <1>6

\* The shared steps write no data item: they leave each one, or remove it.
LEMMA SharedData ==
    ASSUME item \in ItemType, NEW c \in Clients, NEW type, NEW next,
           \/ LoadState(c, type, next) \/ EnsureTypeExpiringStep(c, type, next)
           \/ DeleteMembersSteps(c) \/ DeleteMetaStep(c, next) \/ EnqueueStep(c)
           \/ AdjustCountSteps(c, type) \/ SetExpireStep(c) \/ PersistStep(c)
    PROVE  Kept
<1> USE PrimitiveData, PrimitiveType DEF Kept, DataKept, TypeKept, LocalStep
<1>1. CASE LoadState(c, type, next) \/ EnqueueStep(c)
  BY <1>1 DEF LoadState, EnqueueStep
<1>2. CASE EnsureTypeExpiringStep(c, type, next)
  BY <1>2 DEF EnsureTypeExpiringStep
<1>3. CASE DeleteMembersSteps(c)
  BY <1>3 DEF DeleteMembersSteps, ListStep, ReclaimStep
<1>4. CASE DeleteMetaStep(c, next)
  BY <1>4 DEF DeleteMetaStep
<1>5. CASE AdjustCountSteps(c, type)
  BY <1>5 DEF AdjustCountSteps, AdjustStep, DropIfEmptyStep, Live
<1>6. CASE SetExpireStep(c) \/ PersistStep(c)
  BY <1>6 DEF SetExpireStep, PersistStep
<1> QED
  BY <1>1, <1>2, <1>3, <1>4, <1>5, <1>6

\* Nor do the steps a command has for itself.
LEMMA OwnStepData ==
    ASSUME item \in ItemType, NEW c \in Clients, NEW next, NEW ret, NEW sk,
           \/ DelLoad(c) \/ ExpireLoad(c) \/ PersistLoad(c)
           \/ ChooseMembers(c) \/ StoreResult(c) \/ StoreReclaim(c)
           \/ WrongTypeOnly(c) \/ Look(c) \/ ZIncrRead(c) \/ IncrRead(c, sk) \/ LocalStep
           \/ SetXX(c) \/ OverwriteAnyType(c) \/ AppendLoad(c) \/ AppendGet(c)
           \/ Claim(c, next, ret)
    PROVE  Kept
<1>1. CASE Claim(c, next, ret)
  BY <1>1, PrimitiveData, PrimitiveType DEF Claim, Kept, DataKept, TypeKept
<1>2. CASE ~Claim(c, next, ret)
  BY <1>2 DEF DelLoad, ExpireLoad, PersistLoad, ChooseMembers, StoreResult, StoreReclaim, SetXX,
              WrongTypeOnly, Look, ZIncrRead, OverwriteAnyType, IncrRead, AppendLoad, AppendGet,
              LocalStep, Kept, DataKept, TypeKept
<1> QED
  BY <1>1, <1>2

\* Nor do the deleter, the sweeper, the clock and the faults.
LEMMA BackgroundData ==
    ASSUME item \in ItemType, Background \/ Faults
    PROVE  Kept
<1> USE PrimitiveData, PrimitiveType DEF Kept, DataKept, TypeKept
<1>1. CASE Background
  BY <1>1
     DEF Background, WorkerSteps, Dequeue, WorkerIsLive, WorkerList, WorkerReclaim, SweepSteps,
         SweepScan, SweepReclaim, Tick
<1>2. CASE Faults
  BY <1>2 DEF Faults, WorkerIsLiveError, WorkerFail, NativeTTL, Crash, CommandFails,
                               InlineFails
<1> QED
  BY <1>1, <1>2

\* A value write: what is written, and what the histories make of it.
ValueWrite(c, sk) ==
    /\ item' = Put(item, sk, cl[c].val)
    /\ \/ /\ sk = ValueSK /\ cl[c].op \in Writers
          /\ landed' = [landed EXCEPT ![sk] = cl[c].val]
          /\ UNCHANGED ledger
       \/ /\ item.data[sk] = cl[c].seen /\ (cl[c].pc = "cas" \/ cl[c].op = "append")
          /\ landed' = [landed EXCEPT ![sk] = @ + 1]
          /\ ledger' = IF sk \in Members /\ item.data[sk] = Gone
                         THEN [ledger EXCEPT ![sk] = @ + 1] ELSE ledger
MemberWrite(c) ==
    \/ \E counted \in BOOLEAN : WriteMember(c, counted) /\ cl[c].op \in Writers
    \/ RemoveMember(c)

\* The paths the collections share write nothing but members.
LEMMA CollectionPathsData ==
    ASSUME item \in ItemType, NEW c \in Clients, NEW type, CollectionPaths(c, type)
    PROVE  MemberWrite(c) \/ (Kept /\ Untold)
<1>1. ASSUME NEW counted \in BOOLEAN, AddMembers(c, type, counted), cl[c].op \in Writers
      PROVE  MemberWrite(c) \/ (Kept /\ Untold)
  BY <1>1, SharedData DEF AddMembers, MemberWrite
<1>2. ASSUME StoreMembers(c, type), cl[c].op \in Writers
      PROVE  MemberWrite(c) \/ (Kept /\ Untold)
  BY <1>1, <1>2, SharedData, OwnStepData DEF StoreMembers
<1>3. ASSUME TakeMembers(c, type) \/ PickMembers(c, type)
      PROVE  MemberWrite(c) \/ (Kept /\ Untold)
  BY <1>3, SharedData, OwnStepData DEF TakeMembers, PickMembers, MemberWrite
<1> QED
  BY <1>1, <1>2, <1>3 DEF CollectionPaths

\* A compare-and-set either writes its value or changes nothing but the client.
LEMMA CompareAndSetData ==
    ASSUME NEW c \in Clients, NEW label, NEW reread, NEW sk, CompareAndSet(c, label, reread, sk),
           label = "cas" \/ cl[c].op = "append"
    PROVE  ValueWrite(c, sk) \/ UNCHANGED <<item, ledger, landed>>
<1>1. CASE item.data[sk] = cl[c].seen
  <2>1. cl[c].pc = "cas" \/ cl[c].op = "append"
    BY DEF CompareAndSet, At
  <2> QED
    BY <1>1, <2>1 DEF CompareAndSet, ValueWrite
<1>2. CASE item.data[sk] # cl[c].seen
  BY <1>2 DEF CompareAndSet
<1> QED
  BY <1>1, <1>2

\* What any step of the system does to the data items and the histories.
LEMMA StepData ==
    ASSUME TypeInv, Next
    PROVE  \/ Kept /\ Untold
           \/ \E c \in Clients : MemberWrite(c)
           \/ \E c \in Clients, sk \in SK : ValueWrite(c, sk)
           \/ UNCHANGED <<item, ledger, landed>>
<1> DEFINE Goal(c) == \/ Kept /\ Untold
                      \/ MemberWrite(c)
                      \/ \E sk \in SK : ValueWrite(c, sk)
                      \/ UNCHANGED <<item, ledger, landed>>
<1>1. item \in ItemType /\ cl \in [Clients -> Client] /\ ValueSK \in SK
  BY DEF TypeInv, TypeOK, CoreTypeOK, SK
<1>2. ASSUME NEW c \in Clients, Start(c)
      PROVE  UNCHANGED <<item, ledger, landed>>
  BY <1>2 DEF Start, KeyStart, DelStart, ExpireStart, PersistStart, SetCommandStart, SAddStart,
              SRemStart, SPopStart, SStoreStart, HashCommandStart, HSetStart, HSetNXStart, HDelStart,
              HIncrStart, ZSetCommandStart, ZAddStart, ZAddFlagStart, ZIncrStart, ZRemStart,
              ZRemRangeStart, ZStoreStart, StringCommandStart, SetStart, SetNXOptStart,
              SetNXStart, GetSetStart, IncrStart, AppendStart, Begin
<1>3. ASSUME NEW c \in Clients, KeyCommand(c)
      PROVE  Kept
  BY <1>1, <1>3, SharedData, OwnStepData DEF KeyCommand, Del, Expire, PersistCmd
<1>4. ASSUME NEW c \in Clients, SetCommand(c)
      PROVE  Goal(c)
  <2>1. CollectionPaths(c, TSet)
    BY <1>4 DEF SetCommand, SAdd, SRem, SPop, SStore, CollectionPaths, Writers
  <2> QED
    BY <1>1, <2>1, CollectionPathsData
<1>5. ASSUME NEW c \in Clients, HashCommand(c)
      PROVE  Goal(c)
  <2>1. cl[c].args \subseteq SK
    BY <1>1, ClientFields DEF SK
  <2>2. CASE CollectionPaths(c, THash)
    BY <1>1, <2>2, CollectionPathsData
  <2>3. CASE HIncr(c)
    <3>1. CASE \E f \in cl[c].args : CompareAndSet(c, "cas", "read", f)
      BY <2>1, <3>1, CompareAndSetData
    <3>2. CASE \/ EnsureTypeExpiringStep(c, THash, "read") /\ Untold
               \/ DeleteMembersSteps(c) /\ Untold
               \/ (\E f \in cl[c].args : IncrRead(c, f)) /\ Untold
               \/ AdjustCountSteps(c, THash) /\ Untold
      BY <1>1, <3>2, SharedData, OwnStepData
    <3> QED
      BY <2>3, <3>1, <3>2 DEF HIncr
  <2>4. CASE LocalStep /\ Untold
    BY <1>1, <2>4, OwnStepData
  <2> QED
    BY <1>5, <2>2, <2>3, <2>4 DEF HashCommand, HSet, HSetNX, HDel, CollectionPaths, Writers
<1>6. ASSUME NEW c \in Clients, ZSetCommand(c)
      PROVE  Goal(c)
  <2>1. CASE CollectionPaths(c, TZSet)
    BY <1>1, <2>1, CollectionPathsData
  <2>2. CASE (WrongTypeOnly(c) \/ Look(c) \/ ZIncrRead(c)) /\ Untold
    BY <1>1, <2>2, OwnStepData
  <2>3. CASE \/ EnsureTypeExpiringStep(c, TZSet, "isnew") /\ Untold
             \/ DeleteMembersSteps(c) /\ Untold
             \/ AdjustCountSteps(c, TZSet) /\ Untold
    BY <1>1, <2>3, SharedData
  <2>4. CASE WriteMember(c, FALSE) /\ cl[c].op \in Writers
    BY <2>4 DEF MemberWrite
  <2> QED
    BY <1>6, <2>1, <2>2, <2>3, <2>4
       DEF ZSetCommand, ZAdd, ZAddFlag, ZIncr, ZRem, ZRemRange, ZStore, CollectionPaths, Writers,
           Flags, ZIncrOps
<1>7. ASSUME NEW c \in Clients, StringCommand(c)
      PROVE  Goal(c)
  <2>1. CASE CompareAndSet(c, "cas", "read", ValueSK)
    BY <1>1, <2>1, CompareAndSetData
  <2>2. CASE CompareAndSet(c, "swap", "load", ValueSK) /\ cl[c].op = "append"
    BY <1>1, <2>2, CompareAndSetData
  <2>3. CASE \/ cl[c].op \in Writers /\ (\/ PutValue(c, "persist") \/ PutValue(c, "setexp")
                                         \/ PutValue(c, "idle") \/ GetSetValue(c))
    BY <1>1, <2>3 DEF PutValue, GetSetValue, ValueWrite
  <2>4. CASE \/ (DeleteMembersSteps(c) \/ DeleteMetaStep(c, "ensure") \/ EnqueueStep(c)) /\ Untold
             \/ EnsureTypeExpiringStep(c, TStr, "put") /\ Untold
             \/ EnsureTypeExpiringStep(c, TStr, "getset") /\ Untold
             \/ EnsureTypeExpiringStep(c, TStr, "read") /\ Untold
             \/ EnsureTypeExpiringStep(c, TStr, "swap") /\ Untold
             \/ (SetExpireStep(c) \/ PersistStep(c)) /\ Untold
    BY <1>1, <2>4, SharedData
  <2>5. CASE \/ (SetXX(c) \/ OverwriteAnyType(c) \/ IncrRead(c, ValueSK)) /\ Untold
             \/ (AppendLoad(c) \/ AppendGet(c)) /\ Untold
             \/ (Claim(c, "list", "put") \/ Claim(c, "put", "idle")) /\ Untold
    BY <1>1, <2>5, OwnStepData
  <2> QED
    BY <1>7, <2>1, <2>2, <2>3, <2>4, <2>5
       DEF StringCommand, SetCmd, SetNXOpt, SetNX, GetSet, Incr, AppendCmd, Writers
<1>8. CASE Work \/ Mishap
  BY <1>1, <1>8, BackgroundData DEF Work, Mishap
<1> QED
  BY <1>2, <1>3, <1>4, <1>5, <1>6, <1>7, <1>8 DEF Next, Continue

-----------------------------------------------------------------------------
(***************************************************************************)
(* Nothing is handed out twice.  The ledger alone is not inductive: that a *)
(* removal may be credited rests on the item being there, and on every     *)
(* item that is there having been credited when it was written.            *)
(***************************************************************************)
LedgerInv == \A m \in Members : ledger[m] >= IF item.data[m] = Gone THEN 0 ELSE 1

\* No step breaks the ledger: a member is reported removed only by the delete that
\* found it.
LEMMA LedgerStep ==
    ASSUME TypeInv, LedgerInv, [Next]_vars
    PROVE  LedgerInv'
<1>1. item \in ItemType /\ ledger \in [Members -> Int] /\ cl \in [Clients -> Client]
  BY DEF TypeInv, TypeOK, CoreTypeOK
<1>2. Members \subseteq SK /\ ValueSK \notin Members
  BY ConstantsAssumption DEF SK
<1>3. CASE DataKept /\ UNCHANGED ledger
  <2>1. \A m \in Members : item'.data[m] = item.data[m] \/ item'.data[m] = Gone
    BY <1>2, <1>3 DEF DataKept
  <2> QED
    BY <1>1, <1>3, <2>1 DEF LedgerInv
<1>4. ASSUME NEW c \in Clients, NEW counted, WriteMember(c, counted), cl[c].op \in Writers
      PROVE  LedgerInv'
  <2>1. PICK m \in cl[c].args :
          /\ item' = Put(item, m, cl[c].val)
          /\ ledger' = IF item.data[m] = Gone THEN [ledger EXCEPT ![m] = @ + 1] ELSE ledger
    BY <1>4 DEF WriteMember
  <2>2. m \in Members /\ cl[c].val # Gone
    BY <1>1, <1>4, <2>1, ClientFields, ConstantsAssumption
  <2>3. \A x \in Members : item'.data[x] = IF x = m THEN cl[c].val ELSE item.data[x]
    BY <1>1, <1>2, <2>1, <2>2 DEF Put, ItemType
  <2>4. \A x \in Members :
          ledger'[x] = IF x = m /\ item.data[m] = Gone THEN ledger[x] + 1 ELSE ledger[x]
    BY <1>1, <2>1, <2>2
  <2> QED
    BY <1>1, <2>2, <2>3, <2>4 DEF LedgerInv
<1>5. ASSUME NEW c \in Clients, RemoveMember(c)
      PROVE  LedgerInv'
  <2>1. PICK m \in cl[c].args :
          /\ item' = Remove(item, {m})
          /\ ledger' = IF item.data[m] # Gone THEN [ledger EXCEPT ![m] = @ - 1] ELSE ledger
    BY <1>5 DEF RemoveMember
  <2>2. m \in Members
    BY <1>1, <2>1, ClientFields
  <2>3. \A x \in Members : item'.data[x] = IF x = m THEN Gone ELSE item.data[x]
    BY <1>1, <1>2, <2>1 DEF Remove, ItemType
  <2>4. \A x \in Members :
          ledger'[x] = IF x = m /\ item.data[m] # Gone THEN ledger[x] - 1 ELSE ledger[x]
    BY <1>1, <2>1, <2>2
  <2> QED
    BY <1>1, <2>2, <2>3, <2>4 DEF LedgerInv
<1>6. ASSUME NEW c \in Clients, NEW sk \in SK, ValueWrite(c, sk)
      PROVE  LedgerInv'
  <2>1. CASE sk = ValueSK /\ UNCHANGED ledger
    <3>1. \A x \in Members : item'.data[x] = item.data[x]
      BY <1>1, <1>2, <1>6, <2>1 DEF ValueWrite, Put, ItemType
    <3> QED
      BY <2>1, <3>1 DEF LedgerInv
  <2>2. CASE ledger' = IF sk \in Members /\ item.data[sk] = Gone
                         THEN [ledger EXCEPT ![sk] = @ + 1] ELSE ledger
    <3>1. \A x \in Members : x # sk => item'.data[x] = item.data[x]
      BY <1>1, <1>2, <1>6 DEF ValueWrite, Put, ItemType
    <3>2. \A x \in Members :
            ledger'[x] = IF x = sk /\ item.data[sk] = Gone THEN ledger[x] + 1 ELSE ledger[x]
      BY <1>1, <2>2
    <3> QED
      BY <1>1, <3>1, <3>2 DEF LedgerInv
  <2> QED
    BY <1>6, <2>1, <2>2 DEF ValueWrite
<1>7. CASE UNCHANGED <<item, ledger>>
  BY <1>7 DEF LedgerInv
<1>8. CASE UNCHANGED vars
  BY <1>7, <1>8 DEF vars, coreVars
<1>9. CASE Next
  BY <1>3, <1>4, <1>5, <1>6, <1>7, <1>9, StepData DEF MemberWrite, Untold, Kept
<1> QED
  BY <1>8, <1>9

\* Two SPOPs, or an SPOP and an SREM, never both report the removal of one member
\* that was added once, however their calls interleave, whatever the deleter, the
\* sweeper and the other commands do, and whatever fails.
THEOREM HandedOutOnce == Spec => []PoppedAtMostOnce
<1>1. Init => TypeInv /\ LedgerInv
  <2>1. Init => LedgerInv
    BY DEF Init, CoreInit, Absent, LedgerInv, SK
  <2> QED
    BY <2>1, TypeInit
<1>2. TypeInv /\ LedgerInv /\ [Next]_vars => (TypeInv /\ LedgerInv)'
  BY TypeStep, LedgerStep
<1>3. TypeInv /\ LedgerInv => PoppedAtMostOnce
  BY DEF TypeInv, TypeOK, LedgerInv, PoppedAtMostOnce
<1> QED
  BY <1>1, <1>2, <1>3, PTL DEF Spec

-----------------------------------------------------------------------------
(***************************************************************************)
(* No increment is lost.                                                   *)
(***************************************************************************)
\* Without APPEND no step loses an increment.
LEMMA NoLostUpdateStep ==
    ASSUME "append" \notin Commands, TypeInv, NoLostUpdate, [Next]_vars
    PROVE  NoLostUpdate'
<1>1. /\ item \in ItemType /\ landed \in [SK -> Nat] /\ cl \in [Clients -> Client]
      /\ ValueSK \in SK /\ Members \subseteq SK
  BY DEF TypeInv, TypeOK, CoreTypeOK, SK
<1>2. CASE DataKept /\ KeepLanded
  BY <1>1, <1>2 DEF DataKept, KeepLanded, NoLostUpdate, Base
<1>3. ASSUME NEW c \in Clients, NEW counted, WriteMember(c, counted), cl[c].op \in Writers
      PROVE  NoLostUpdate'
  <2>1. PICK m \in cl[c].args :
          item' = Put(item, m, cl[c].val) /\ landed' = [landed EXCEPT ![m] = cl[c].val]
    BY <1>3 DEF WriteMember
  <2>2. m \in SK /\ cl[c].val # Gone
    BY <1>1, <1>3, <2>1, ClientFields, ConstantsAssumption
  <2>3. \A x \in SK : /\ item'.data[x] = IF x = m THEN cl[c].val ELSE item.data[x]
                      /\ landed'[x] = IF x = m THEN cl[c].val ELSE landed[x]
    BY <1>1, <2>1, <2>2 DEF Put, ItemType
  <2> QED
    BY <2>2, <2>3 DEF NoLostUpdate, Base
<1>4. ASSUME NEW c \in Clients, RemoveMember(c)
      PROVE  NoLostUpdate'
  <2>1. PICK m \in cl[c].args : item' = Remove(item, {m}) /\ KeepLanded
    BY <1>4 DEF RemoveMember
  <2>2. DataKept
    BY <1>1, <2>1, PrimitiveData DEF DataKept
  <2> QED
    BY <1>2, <2>1, <2>2
<1>8. ASSUME NEW c \in Clients, NEW sk \in SK, ValueWrite(c, sk)
      PROVE  NoLostUpdate'
  <2>1. \A x \in SK : item'.data[x] = IF x = sk THEN cl[c].val ELSE item.data[x]
    BY <1>1, <1>8 DEF ValueWrite, Put, ItemType
  <2>2. ClientInv(cl[c]) /\ cl[c].op # "append"
    BY <1>1 DEF Client, ClientInv
  <2>3. CASE cl[c].op \in Writers /\ landed' = [landed EXCEPT ![sk] = cl[c].val]
    <3>1. cl[c].val # Gone
      BY <2>2, <2>3, ConstantsAssumption DEF ClientInv
    <3>2. \A x \in SK : landed'[x] = IF x = sk THEN cl[c].val ELSE landed[x]
      BY <1>1, <2>3
    <3> QED
      BY <2>1, <3>1, <3>2 DEF NoLostUpdate, Base
  <2>4. CASE /\ item.data[sk] = cl[c].seen /\ cl[c].pc = "cas"
             /\ landed' = [landed EXCEPT ![sk] = @ + 1]
    <3>1. cl[c].val = landed[sk] + 1
      BY <2>2, <2>4 DEF ClientInv, NoLostUpdate
    <3>2. cl[c].val # Gone
      BY <2>2, <2>4, ConstantsAssumption DEF ClientInv
    <3>3. \A x \in SK : landed'[x] = IF x = sk THEN landed[x] + 1 ELSE landed[x]
      BY <1>1, <2>4
    <3> QED
      BY <2>1, <3>1, <3>2, <3>3 DEF NoLostUpdate, Base
  <2> QED
    BY <1>8, <2>2, <2>3, <2>4 DEF ValueWrite
<1>5. CASE UNCHANGED <<item, landed>>
  BY <1>5 DEF NoLostUpdate
<1>6. CASE UNCHANGED vars
  BY <1>5, <1>6 DEF vars, coreVars
<1>7. CASE Next
  BY <1>2, <1>3, <1>4, <1>5, <1>7, <1>8, StepData DEF MemberWrite, Untold, Kept
<1> QED
  BY <1>6, <1>7

\* INCR's compare-and-set loop: with any mix of INCR, SET, SETNX, GETSET and the
\* other commands but APPEND and SETRANGE, the value is the one last written plus
\* every increment acknowledged since.
THEOREM IncrementsLand ==
    ASSUME "append" \notin Commands
    PROVE  Spec => []NoLostUpdate
<1>1. Init => TypeInv /\ NoLostUpdate
  <2>1. Init => NoLostUpdate
    BY DEF Init, CoreInit, Absent, NoLostUpdate, Base, SK
  <2> QED
    BY <2>1, TypeInit
<1>2. TypeInv /\ NoLostUpdate /\ [Next]_vars => (TypeInv /\ NoLostUpdate)'
  BY TypeStep, NoLostUpdateStep
<1> QED
  BY <1>1, <1>2, PTL DEF Spec

-----------------------------------------------------------------------------
(***************************************************************************)
(* A key does not change its type while it lives.                          *)
(***************************************************************************)
LEMMA TypeKeptStep ==
    ASSUME TypeInv, [Next]_vars
    PROVE  TypeKept
<1>1. item \in ItemType
  BY DEF TypeInv, TypeOK, CoreTypeOK
<1>2. ASSUME NEW c \in Clients, MemberWrite(c)
      PROVE  TypeKept
  <2>1. CASE \E counted \in BOOLEAN : WriteMember(c, counted)
    <3>1. PICK m \in cl[c].args : item' = Put(item, m, cl[c].val)
      BY <2>1 DEF WriteMember
    <3> QED
      BY <1>1, <3>1, PrimitiveType DEF TypeKept
  <2>2. CASE RemoveMember(c)
    <3>1. PICK m \in cl[c].args : item' = Remove(item, {m})
      BY <2>2 DEF RemoveMember
    <3> QED
      BY <1>1, <3>1, PrimitiveType DEF TypeKept
  <2> QED
    BY <1>2, <2>1, <2>2 DEF MemberWrite
<1>3. ASSUME NEW c \in Clients, NEW sk \in SK, ValueWrite(c, sk)
      PROVE  TypeKept
  BY <1>1, <1>3, PrimitiveType DEF ValueWrite, TypeKept
<1>4. CASE UNCHANGED item
  BY <1>4 DEF TypeKept
<1>5. CASE UNCHANGED vars
  BY <1>4, <1>5 DEF vars, coreVars
<1>6. CASE Next
  BY <1>2, <1>3, <1>4, <1>6, StepData DEF Kept
<1> QED
  BY <1>5, <1>6

\* WRONGTYPE: a claim, a takeover and a count update are conditional on the type or on
\* the expiry, so no command, however late its write comes after its check, and no fault
\* turns a live key of one type into a key of another.
THEOREM TypeIsStable == Spec => LiveTypeIsStable
<1>1. Init => TypeInv
  BY TypeInit
<1>2. TypeInv /\ [Next]_vars => TypeInv'
  BY TypeStep
<1>3. TypeInv /\ [Next]_vars => [Live(item, now) /\ HasMeta(item') => item'.t = item.t]_vars
  BY TypeKeptStep DEF TypeKept
<1> QED
  BY <1>1, <1>2, <1>3, PTL DEF Spec, LiveTypeIsStable
=============================================================================
