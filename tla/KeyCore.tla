------------------------------ MODULE KeyCore -------------------------------
(***************************************************************************)
(* One key of the table and everything that works on it: the connections   *)
(* running commands, the lazy deleter, the orphan sweeper, DynamoDB's own  *)
(* TTL and the clock.                                                      *)
(*                                                                         *)
(* A command is a sequence of store calls.  A connection runs its commands *)
(* one after another; the calls of different connections interleave, so    *)
(* each call is a step.  A client record holds the command's local         *)
(* variables: what it has read and will use after the next call.  The      *)
(* command families (SetCommands, HashCommands, ...) give the order of the *)
(* steps; the steps several of them share are here, named after the helper *)
(* they model.                                                             *)
(***************************************************************************)
EXTENDS Redimo

CONSTANTS Clients,      \* connections
          Members,      \* the sort keys of collection items
          ValueSK,      \* the sort key of a string's value item
          Vals,         \* values of data items
          Types,        \* key types
          MaxTime,      \* bound: the clock stops here
          MaxOps,       \* bound: commands started, over all connections
          MaxFaults,    \* bound: store calls that fail, crashes, TTL removals
          QueueCap,     \* DeleterConfig.QueueCapacity
          Synchronous,  \* DeleterConfig.Synchronous: the embedded client
          Sweeping      \* a Sweeper runs: the server has one, the embedded client none

ASSUME ConstantsAssumption ==
    /\ NoType \notin Types
    /\ Gone \notin Vals
    /\ ValueSK \notin Members
    /\ MaxTime \in Nat /\ MaxOps \in Nat /\ MaxFaults \in Nat /\ QueueCap \in Nat \ {0}
    /\ Synchronous \in BOOLEAN /\ Sweeping \in BOOLEAN

ASSUME ClientsAssumption == IsFiniteSet(Clients)

SK == Members \cup {ValueSK}

VARIABLES item,     \* the key: [t, exp, cnt, data]
          now,      \* epoch seconds
          cl,       \* local state of each connection
          queued,   \* entries for this key in the deleter's queue
          worker,   \* the deleter's goroutine
          sweep,    \* the sweeper's goroutine
          ops,      \* commands started so far
          faults    \* faults so far

coreVars == <<item, now, cl, queued, worker, sweep, ops, faults>>
bgVars == <<queued, worker, sweep>>

Absent == [t |-> NoType, exp |-> 0, cnt |-> 0, data |-> [sk \in SK |-> Gone]]

(***************************************************************************)
(* A client record: op and pc say where the command is, ret where it goes  *)
(* after a reclaim; args are the members still to be handled, n the net    *)
(* number of members added, tries the lost compare-and-sets, lst the sort  *)
(* keys a Query listed, exp the absolute expiry the command computed, val  *)
(* the value it will write, seen the item it read.                         *)
(***************************************************************************)
Idle == [op |-> "none", pc |-> "idle", ret |-> "idle", args |-> {}, n |-> 0,
         tries |-> 0, lst |-> {}, exp |-> 0, val |-> Gone, seen |-> Gone]

AtRest == [pc |-> "idle", lst |-> {}]

CoreInit ==
    /\ item = Absent
    /\ now = 1
    /\ cl = [c \in Clients |-> Idle]
    /\ queued = 0
    /\ worker = AtRest
    /\ sweep = AtRest
    /\ ops = 0
    /\ faults = 0

At(c, label) == cl[c].pc = label
Goto(c, label) == cl' = [cl EXCEPT ![c].pc = label]
Return(c) == cl' = [cl EXCEPT ![c] = Idle]

\* A command arrives on an idle connection.  rec is its first local state.
Begin(c, rec) ==
    /\ At(c, "idle")
    /\ ops < MaxOps
    /\ ops' = ops + 1
    /\ cl' = [cl EXCEPT ![c] = rec]
    /\ UNCHANGED <<item, now, bgVars, faults>>

ClientStep == UNCHANGED <<now, bgVars, ops, faults>>
LocalStep == ClientStep /\ UNCHANGED item

-----------------------------------------------------------------------------
(***************************************************************************)
(* Steps shared by the command families.                                   *)
(***************************************************************************)

\* loadMetaState: an absent or expired key, or one of another type, ends the
\* command; a live key of the type goes on.
LoadState(c, type, next) ==
    /\ At(c, "load")
    /\ IF Live(item, now) /\ item.t = type THEN Goto(c, next) ELSE Return(c)
    /\ LocalStep

\* A takeover that leaves the expired key's members where they are.
EnsureTypeExpiringStep_NoReclaim(c, type, next) ==
    /\ At(c, "ensure")
    /\ IF ~ExpiringAllows(item, type, now)
         THEN Return(c) /\ UNCHANGED item
         ELSE item' = EnsureTypeExpiring(item, type, now) /\ Goto(c, next)
    /\ ClientStep

\* ensureTypeExpiring: a live key of another type ends the command with
\* WRONGTYPE; taking over an expired key must first reclaim its members.
EnsureTypeExpiringStep(c, type, next) ==
    /\ At(c, "ensure")
    /\ IF ~ExpiringAllows(item, type, now)
         THEN Return(c) /\ UNCHANGED item
         ELSE /\ item' = EnsureTypeExpiring(item, type, now)
              /\ IF TakesOver(item, now)
                   THEN cl' = [cl EXCEPT ![c].pc = "list", ![c].ret = next]
                   ELSE Goto(c, next)
    /\ ClientStep

\* Store.DeleteMembers on the command path: the Query, then the deletes.
ListStep(c) ==
    /\ At(c, "list")
    /\ cl' = [cl EXCEPT ![c].pc = "reclaim", ![c].lst = Present(item)]
    /\ LocalStep

ReclaimStep(c) ==
    /\ At(c, "reclaim")
    /\ item' = Remove(item, cl[c].lst)
    /\ IF cl[c].ret = "idle"
         THEN Return(c)
         ELSE cl' = [cl EXCEPT ![c].pc = cl[c].ret, ![c].ret = "idle", ![c].lst = {}]
    /\ ClientStep

DeleteMembersSteps(c) == ListStep(c) \/ ReclaimStep(c)

\* MetaStore.DeleteMeta: remove the meta item, and enqueue the key only if
\* there was one.
DeleteMetaStep(c, next) ==
    /\ At(c, "delmeta")
    /\ item' = DeleteMeta(item)
    /\ IF HasMeta(item)
         THEN cl' = [cl EXCEPT ![c].pc = "enqueue", ![c].ret = next]
         ELSE IF next = "idle" THEN Return(c) ELSE Goto(c, next)
    /\ ClientStep

\* A queue without its capacity.
EnqueueStep_Unbounded(c) ==
    /\ At(c, "enqueue")
    /\ queued' = queued + 1
    /\ IF cl[c].ret = "idle"
         THEN Return(c)
         ELSE cl' = [cl EXCEPT ![c].pc = cl[c].ret, ![c].ret = "idle"]
    /\ UNCHANGED <<item, now, worker, sweep, ops, faults>>

\* Deleter.Enqueue.  Asynchronous: into the bounded queue, or dropped when it
\* is full.  Synchronous: process runs inline, so the recreate guard first.
EnqueueStep(c) ==
    /\ At(c, "enqueue")
    /\ IF Synchronous
         THEN /\ IF HasMeta(item)
                   THEN IF cl[c].ret = "idle"
                          THEN Return(c)
                          ELSE cl' = [cl EXCEPT ![c].pc = cl[c].ret, ![c].ret = "idle"]
                   ELSE Goto(c, "list")
              /\ UNCHANGED queued
         ELSE /\ queued' = IF queued < QueueCap THEN queued + 1 ELSE queued
              /\ IF cl[c].ret = "idle"
                   THEN Return(c)
                   ELSE cl' = [cl EXCEPT ![c].pc = cl[c].ret, ![c].ret = "idle"]
    /\ UNCHANGED <<item, now, worker, sweep, ops, faults>>

\* adjustCount: a zero delta does nothing; a removal that brings the count to
\* zero or below goes on to DeleteMetaIfEmpty.
AdjustStep(c, type) ==
    /\ At(c, "adjust")
    /\ LET delta == cl[c].n
           after == EnsureType(item, type, delta)
       IN  IF delta = 0 \/ ~TypeAllows(item, type)
             THEN Return(c) /\ UNCHANGED item
             ELSE /\ item' = after
                  /\ IF delta < 0 /\ after.cnt <= 0 THEN Goto(c, "drop") ELSE Return(c)
    /\ ClientStep

\* The load-then-delete that DeleteMetaIfEmpty replaced.
DropIfEmptyStep_Unconditional(c) ==
    /\ At(c, "drop")
    /\ item' = DeleteMeta(item)
    /\ Return(c)
    /\ ClientStep

DropIfEmptyStep(c) ==
    /\ At(c, "drop")
    /\ item' = DeleteMetaIfEmpty(item)
    /\ Return(c)
    /\ ClientStep

AdjustCountSteps(c, type) == AdjustStep(c, type) \/ DropIfEmptyStep(c)

-----------------------------------------------------------------------------
(***************************************************************************)
(* Commands of every type: DEL, the EXPIRE family, PERSIST.                *)
(***************************************************************************)

\* handleDel, one key: the liveness only decides the reply, the meta item is
\* removed either way.
DelStart(c) == Begin(c, [Idle EXCEPT !.op = "del", !.pc = "load"])
DelLoad(c) == At(c, "load") /\ Goto(c, "delmeta") /\ LocalStep
Del(c) ==
    /\ cl[c].op = "del"
    /\ DelLoad(c) \/ DeleteMetaStep(c, "idle") \/ EnqueueStep(c) \/ DeleteMembersSteps(c)

\* applyExpire: now is read before keyLive, so the expiry is computed from the
\* clock at the start of the command.  A time that is not in the future deletes.
ExpireStart(c) ==
    \E exp \in now .. now + 1 :
        Begin(c, [Idle EXCEPT !.op = IF exp <= now THEN "expirepast" ELSE "expire",
                              !.pc = "load", !.exp = exp])
ExpireLoad(c) ==
    /\ At(c, "load")
    /\ IF ~Live(item, now)
         THEN Return(c)
         ELSE Goto(c, IF cl[c].op = "expirepast" THEN "delmeta" ELSE "setexp")
    /\ LocalStep
SetExpireStep(c) ==
    /\ At(c, "setexp")
    /\ item' = SetExpire(item, cl[c].exp)
    /\ Return(c)
    /\ ClientStep
Expire(c) ==
    /\ cl[c].op \in {"expire", "expirepast"}
    /\ \/ ExpireLoad(c) \/ SetExpireStep(c)
       \/ DeleteMetaStep(c, "idle") \/ EnqueueStep(c) \/ DeleteMembersSteps(c)

\* handlePersist.
PersistStart(c) == Begin(c, [Idle EXCEPT !.op = "persist", !.pc = "load"])
PersistLoad(c) ==
    /\ At(c, "load")
    /\ IF Live(item, now) /\ item.exp # 0 THEN Goto(c, "persist") ELSE Return(c)
    /\ LocalStep
PersistStep(c) ==
    /\ At(c, "persist")
    /\ item' = Persist(item)
    /\ Return(c)
    /\ ClientStep
PersistCmd(c) == cl[c].op = "persist" /\ (PersistLoad(c) \/ PersistStep(c))

KeyCommand(c) == Del(c) \/ Expire(c) \/ PersistCmd(c)

-----------------------------------------------------------------------------
(***************************************************************************)
(* The lazy deleter's goroutine (Deleter.process) and the sweeper.         *)
(***************************************************************************)
WorkerStep == UNCHANGED <<now, cl, sweep, ops>>

Dequeue ==
    /\ worker.pc = "idle" /\ queued > 0
    /\ queued' = queued - 1
    /\ worker' = [worker EXCEPT !.pc = "islive"]
    /\ WorkerStep /\ UNCHANGED <<item, faults>>

\* The recreate guard: skip a key whose meta item is there again.
WorkerIsLive ==
    /\ worker.pc = "islive"
    /\ worker' = [worker EXCEPT !.pc = IF HasMeta(item) THEN "idle" ELSE "list"]
    /\ WorkerStep /\ UNCHANGED <<item, queued, faults>>

\* The guard's own read failed: reclaim anyway.
WorkerIsLiveError ==
    /\ worker.pc = "islive" /\ faults < MaxFaults
    /\ faults' = faults + 1
    /\ worker' = [worker EXCEPT !.pc = "list"]
    /\ WorkerStep /\ UNCHANGED <<item, queued>>

WorkerList ==
    /\ worker.pc = "list"
    /\ worker' = [pc |-> "reclaim", lst |-> Present(item)]
    /\ WorkerStep /\ UNCHANGED <<item, queued, faults>>

WorkerReclaim ==
    /\ worker.pc = "reclaim"
    /\ item' = Remove(item, worker.lst)
    /\ worker' = AtRest
    /\ WorkerStep /\ UNCHANGED <<queued, faults>>

\* DeleteMembers failed: counted, not queued again.
WorkerFail ==
    /\ worker.pc \in {"list", "reclaim"} /\ faults < MaxFaults
    /\ faults' = faults + 1
    /\ worker' = AtRest
    /\ WorkerStep /\ UNCHANGED <<item, queued>>

WorkerSteps == \/ Dequeue \/ WorkerIsLive \/ WorkerList \/ WorkerReclaim

\* SweepOrphans (external): a scan that finds data items without a meta item,
\* then their deletion.
SweepScan ==
    /\ Sweeping /\ sweep.pc = "idle"
    /\ ~HasMeta(item) /\ Present(item) # {}
    /\ sweep' = [pc |-> "reclaim", lst |-> Present(item)]
    /\ UNCHANGED <<item, now, cl, queued, worker, ops, faults>>

\* A sweeper that ends after its first pass.
SweepReclaim_Once ==
    /\ sweep.pc = "reclaim"
    /\ item' = Remove(item, sweep.lst)
    /\ sweep' = [pc |-> "stopped", lst |-> {}]
    /\ UNCHANGED <<now, cl, queued, worker, ops, faults>>

SweepReclaim ==
    /\ sweep.pc = "reclaim"
    /\ item' = Remove(item, sweep.lst)
    /\ sweep' = AtRest
    /\ UNCHANGED <<now, cl, queued, worker, ops, faults>>

SweepSteps == SweepScan \/ SweepReclaim

-----------------------------------------------------------------------------
(***************************************************************************)
(* Time, and what may go wrong.                                            *)
(***************************************************************************)
Tick ==
    /\ now < MaxTime
    /\ now' = now + 1
    /\ UNCHANGED <<item, cl, bgVars, ops, faults>>

\* DynamoDB removes the expired meta item, and only that.
NativeTTL ==
    /\ HasMeta(item) /\ IsExpired(item, now) /\ faults < MaxFaults
    /\ item' = DeleteMeta(item)
    /\ faults' = faults + 1
    /\ UNCHANGED <<now, cl, bgVars, ops>>

\* Deleter.process run inline by a command of the embedded client: the reclaim
\* goes back to the handler's next call, not to the one after its own reclaim.
Inline(c) ==
    Synchronous /\ cl[c].pc \in {"enqueue", "list", "reclaim"} /\ cl[c].ret \in {"idle", "ensure", "replace"}

\* A store call fails (a throttle that outlives the SDK's retries, a time-out):
\* the handler replies an error and returns at once.  Since a call may also
\* fail after it was applied, this may happen between any two calls.
CommandFails(c) ==
    /\ ~At(c, "idle") /\ ~Inline(c) /\ faults < MaxFaults
    /\ faults' = faults + 1
    /\ Return(c)
    /\ UNCHANGED <<item, now, bgVars, ops>>

\* The same inside the inline process: a guard that cannot read reclaims anyway; a
\* reclaim that fails is counted, and the command goes on as if it had not.
InlineFails(c) ==
    /\ Inline(c) /\ faults < MaxFaults
    /\ faults' = faults + 1
    /\ IF At(c, "enqueue")
         THEN Goto(c, "list")
         ELSE IF cl[c].ret = "idle"
                THEN Return(c)
                ELSE cl' = [cl EXCEPT ![c].pc = cl[c].ret, ![c].ret = "idle", ![c].lst = {}]
    /\ UNCHANGED <<item, now, bgVars, ops>>

\* The process stops: commands in flight and the in-memory queue are lost.
Crash ==
    /\ faults < MaxFaults
    /\ faults' = faults + 1
    /\ cl' = [c \in Clients |-> Idle]
    /\ queued' = 0 /\ worker' = AtRest /\ sweep' = AtRest
    /\ UNCHANGED <<item, now, ops>>

Background == WorkerSteps \/ SweepSteps \/ Tick
Faults == \/ WorkerIsLiveError \/ WorkerFail \/ NativeTTL \/ Crash
          \/ \E c \in Clients : CommandFails(c) \/ InlineFails(c)

-----------------------------------------------------------------------------
Labels == {"idle", "load", "ensure", "list", "reclaim", "delmeta", "enqueue",
           "adjust", "drop", "setexp", "persist", "write", "remove", "choose",
           "replace", "result", "xx", "claim", "overwrite", "put", "getset",
           "read", "get", "cas", "swap", "look", "isnew"}

Ops == {"none", "del", "expire", "expirepast", "persist", "sadd", "srem", "spop",
        "sstore", "set", "set nx", "setnx", "getset", "incr", "append", "hset", "hsetnx",
        "hdel", "hincr", "zadd", "zadd nx", "zadd xx", "zadd ch", "zincr", "zincr nx",
        "zincr xx", "zrem", "zremrange", "zstore"}

ClientType == [op : Ops, pc : Labels, ret : Labels, args : SUBSET Members, n : Int,
               tries : Nat, lst : SUBSET SK, exp : Nat, val : Vals \cup {Gone},
               seen : Vals \cup {Gone}]

ItemType == [t : Types \cup {NoType}, exp : Nat, cnt : Int,
             data : [SK -> Vals \cup {Gone}]]

CoreTypeOK ==
    /\ item \in ItemType
    /\ now \in Nat
    /\ cl \in [Clients -> ClientType]
    /\ queued \in 0 .. QueueCap
    /\ worker \in [pc : {"idle", "islive", "list", "reclaim"}, lst : SUBSET SK]
    /\ sweep \in [pc : {"idle", "reclaim"}, lst : SUBSET SK]
    /\ ops \in 0 .. MaxOps
    /\ faults \in 0 .. MaxFaults
=============================================================================
