# redimos in TLA+

redimos answers the Redis 3.2 protocol from one DynamoDB table. A Redis key is a
partition: one *meta item* (type, expiry, count) and the key's *data items* (set members,
hash fields, list elements, the value of a string). A command is a sequence of DynamoDB
calls, each atomic, none of them locked against another connection's; so what is hard
about this program is what the calls of several connections, of the background workers,
of a failure and of a crash do to each other. That is what this project models. Beside it
stand the algorithms that run in process: index arithmetic, sorted-set queries, bit
strings, geohash cells, patterns, expiry times.

## 1. The system

| part | code | state | operations |
|---|---|---|---|
| meta items | `internal/meta/meta.go`, `internal/storage/store*.go` | `t`, `exp`, `cnt` of each key | EnsureType, EnsureTypeExpiring, CreateTypeIfAbsent, SetExpire, Persist, DeleteMeta, DeleteMetaIfEmpty |
| lazy deleter | `internal/meta/deleter.go` | bounded in-memory queue, one goroutine; none when synchronous | Enqueue, process (recreate guard, DeleteMembers), Start, Stop, drain |
| orphan sweeper | `internal/meta/sweeper.go` | one goroutine, a ticker | sweep (table scan, delete data items without a meta item) |
| command handlers | `internal/command/*.go` | locals of one command | one handler per command: strings, keys, sets, hashes, sorted sets, lists, bits, HyperLogLog, GEO |
| dispatch | `internal/command/router.go`, `observe.go`, `timeout.go`, `table.go` | none | observe, breaker, deadline, router |
| circuit breaker | `internal/storage/breaker.go`, `internal/command/breaker.go` | three atomics | Record, Open, the gate in front of the handlers |
| SCAN cursors | `internal/scan/registry.go`, `internal/command/scan.go` | LRU map from cursor to DynamoDB page key | Save, LoadOwned, SCAN and MATCH |
| server shell | `internal/server/server.go` | closing flag, count of dispatches in flight | onAccept, onCommand, Drain |
| embedded client | `client.go`, `closer.go`, `bufconn.go`, `internal/server/inproc.go` | in-memory connections: two buffers each | NewClient, Dial, Read, Write, deadlines, ServeConn, Close |
| assembly | `cmd/redimos/*.go` | health probe, order of start and stop | run, shutdown |
| redimo, redcon, go-redis | libraries, not in the repository | the table; the connections | one conditional write per call; one command at a time per connection |

Interaction: redcon hands one command at a time per connection to `onCommand`; the
dispatch chain (observe, breaker, deadline, router) calls the handler; the handler calls
the Store and the MetaStore; `MetaStore.DeleteMeta` enqueues the key with the deleter;
the deleter and the sweeper delete data items on their own goroutines. Connections share
nothing but the table, the deleter's queue, the breaker and the cursor registry.

What is hard to get right here, by component, and what makes it correct:

- **Keys.** A handler reads the meta item, and acts on what it read several calls later;
  a collection's members and its count are different items; an expired key stays in the
  table until someone takes it over. Correct means: no member is handed out twice, no
  member is hidden by a removed meta item, an acknowledged increment is not lost, a live
  key keeps its type, a new key shows nothing of the old one, and one connection on its
  own sees Redis.
- **Lists and several keys.** LSET, LTRIM, LREM and LINSERT read all and replace all;
  RPOPLPUSH, SMOVE, MSETNX and the STORE commands touch two keys, one after the other.
  Correct means: an element is in one place, whatever overlaps and whatever fails; nothing
  is hidden once all is quiet; and without overlap the whole table is Redis'.
- **Reclaim.** The deleter's queue is bounded and in memory. Correct means that whatever
  is dropped, failed or lost in a crash is reclaimed in the end, and that a key created
  again is spared.
- **Breaker.** Three atomics without a lock, and two workers that do not pass the gate.
  Correct means that a storm opens it, that less than a storm does not, and that it
  closes when the storm is over.
- **Shutdown.** Commands in flight, a queue, a rate gate and three goroutines to stop.
  Correct means that a reclaim that was owed is done when the process exits, and that it
  does exit.
- **Embedded client.** Two byte pipes per connection, deadlines, a closer that races with
  dials. Correct means that no reply is lost, no reader sleeps for ever, and that a Close
  leaves nothing open.
- **Cursors.** A bounded LRU map with a lifetime, gone after a restart, between a client
  that repeats calls and a table that changes. Correct means SCAN's contract.
- **Algorithms.** Ranges, ranks, scores, weights, bit fields, registers, cells, patterns,
  expiry: the edges of integers and of intervals.

`PROJECT.json` lists each of these with its line under `hazards`, with the properties that
would catch it, or the reason why none does yet.

## 2. The modules

| module | models | extends |
|---|---|---|
| `Redimo` | the conditional writes of the redimo fork, as operators on one key | |
| `KeyCore` | one key, its connections, the steps handlers share, DEL, EXPIRE, PERSIST, deleter, sweeper, TTL, crash | `Redimo` |
| `Items` | the calls on members and fields that sets, hashes and sorted sets share | `KeyCore` |
| `SetCommands`, `HashCommands`, `ZSetCommands` | the set, hash and sorted-set commands that write | `Items` |
| `StringCommands` | SET with options, SETEX, SETNX, GETSET, INCR, APPEND | `Items` |
| `Key` | the composition of the families, its fairness and its properties | the four families |
| `RedisKey` | what Redis promises of one key: every command is one step | |
| `KeyRefinesRedis` | a serial proxy with the refinement mapping to `RedisKey` | `Key` |
| `KeyProofs` | theorems about `Key`: types, ledger, increments, the type of a live key | `Key`, `TLAPS` |
| `CountProofs` | theorems about `Key`: the count of a collection | `KeyProofs` |
| `RedisProofs` | theorem: a single connection implements `RedisKey` | `KeyRefinesRedis`, `KeyProofs` |
| `TableCore` | several keys; a command is a sequence of store calls, one action per kind of call | `Redimo`, `Ranges` |
| `TableCommands` | the list handlers and the handlers on several keys, as sequences of calls | `TableCore` |
| `RedisTable` | what Redis promises of a table: every command is one step | |
| `Table` | the two settings, the tables they start from, the properties, the refinement to `RedisTable` | `TableCommands` |
| `TableProofs` | theorems about `Table` where commands overlap: types, where an element is | `Table`, `TLAPS` |
| `Breaker`, `BreakerProofs` | the circuit breaker and its gate; theorems | |
| `Shutdown` | server, deleter, sweeper, probe and main from serving to exit | |
| `InProc` | the embedded client's connections, goroutines and closer | |
| `Lifecycle` | a process that is either of the two, from start to exit | `Shutdown`, `InProc` |
| `LifecycleProofs` | theorems about `Shutdown`, about `InProc` and about the composition | `Lifecycle`, `TLAPS` |
| `Cursors`, `CursorsProofs` | the cursor registry and clients that scan; theorems | |
| `Ranges` | index ranges of lists, sorted sets and strings | |
| `Sorted` | ranks, score and lex intervals, ZUNIONSTORE and ZINTERSTORE, GEORADIUS' selection | `Ranges` |
| `Bits` | SETBIT, BITCOUNT, BITPOS, BITOP, BITFIELD, HyperLogLog registers | `Ranges` |
| `Cells` | geohash: coordinates to cells and back | |
| `Glob` | MATCH patterns | |
| `Limits` | expiry times in 64 bits, SETRANGE and the size limits | `Ranges` |
| `Calls` | a call, and what those that only compute with integers promise | `Limits` |
| `LimitsProofs` | theorems about `Limits` and `Ranges` | `Calls`, `TLAPS` |
| `Pure` | one call of any of these algorithms per step, and what it must compute | `Sorted`, `Bits`, `Cells`, `Glob`, `Calls` |
| `MCKey`, `MCTable` | the symmetries TLC uses | `Key`, `Table` |

### Redimo, KeyCore, the families, Key

*State.* `item` is the key as the table holds it: `t`, `exp`, `cnt` of the meta item
(`t = NoType` when there is none) and `data`, from sort keys to values. Members, fields
and a string's value share `data`, as they share a partition. `cl[c]` is the local state
of connection `c`'s handler: `op`, `pc`, and the variables it holds across calls (what a
Query listed, what it read, the members still to write, the expiry it computed). `queued`
counts the key's entries in `Deleter.queue`; `worker` and `sweep` are the two goroutines.
`ledger` (how often a member was reported added minus removed) and `landed` (the
acknowledged increments of a value since it was last written) are histories.

*Actions.* A handler becomes one start action and one action per store call; its early
returns are the `Return(c)` of those steps. A helper that several handlers use
(`loadMetaState`, `ensureTypeExpiring`, `adjustCount`, `DeleteMeta` with its enqueue,
`DeleteMembers` as Query and deletes) is one operator in `KeyCore`; the member writes,
conditional deletes and compare-and-sets are one each in `Items`; and a family names the
order: `SAdd` is `ensure`, `list` and `reclaim` after a takeover, one `write` per member,
`adjust`. A command that fails between two calls is `CommandFails`; since a call can also
fail after it took effect, that covers the error branches, and since members are written
and deleted one per step, it covers a batch that fails half way. `Synchronous` chooses the
embedded client, where `process` runs inline in the command and a failed reclaim is
swallowed (`InlineFails`).

*Abstraction.* One key: the commands modelled here act on one key, and keys share only the
deleter's queue, which other keys can only fill; `queued` reaches its bound with this one.
Values are numbers: INCR, APPEND, HINCRBY and ZINCRBY all make a value one larger. HSET
with a value is SADD with a value (`hset` and `hdel` make the calls of SADD and SREM). The
redimo primitives are external: `Redimo` states them from their contract in
`internal/storage/store.go` and from what the handlers do with the result.

### RedisKey, KeyRefinesRedis

`RedisKey` has one step per command, and an expired or empty key is not there.
`KeyRefinesRedis` lets one connection's commands run without another's; `shown` is the key
as it was when the connection was last idle, with an expired one as absent, and `last` the
command it answered and the net number of members. `ImplementsRedis` is `RedisKey`'s
specification with `key <- shown`. What it assumes belongs to this module alone: the clock
moves between commands only, and `SerialAssumption`. There is one connection. The deleter
is the synchronous one, which the embedded client has (with the asynchronous one two calls
of a single connection can already race, see "Known disagreements"). SETNX and the flags of ZADD and ZINCRBY are left
out, since they have another effect than in Redis on a key that has expired (section 5 has
both). `MaxTries > 1`, as `MaxRMWRetries` is (50): APPEND on an expired string loses its
first compare-and-set to the reclaim of its own takeover.

### TableCore, TableCommands, Table, RedisTable

Here a command is data: `Handler(cmd)` of `TableCommands` gives the sequence of its store
calls, as the handler makes them when nothing ends it early, and each action of
`TableCore` executes the first that is left. A call may end the command (nothing to do,
WRONGTYPE), or put more calls in front of what is left: a takeover is followed by the
reclaim of what the expired key left, a removal of the last element by
`DeleteMetaIfEmpty`, `DeleteMeta` by the guard and the reclaim of the inline deleter. The
clock stands at 1, so an expiry of 1 has passed and one of 2 has not; `Init` starts from
keys that are absent, live or expired, and of every type. An element that a command writes is a new number, so
`MovedOnce` can follow each one.

An element that is pushed, set or inserted may be over the size limit (`big`). `Guarded`
ends such a command where `guard.CheckWrite` stands: after the first call of a push,
after the two reads of LSET and LINSERT. LPUSH and RPUSH have claimed the key by then,
which is wrong on a key that is not live (`LeavesEmpty`, section 5). The serial setting
leaves those requests out, so that the refinement says what the other commands do;
overlapping connections make them. The guard is left out where it stands before the
first write, as in every other handler: a command it refuses changes nothing. Key names
are of a length the guard lets pass.

`Table` has two settings. In the *serial* one, commands of all kinds follow one another
and `shown`, the visible table whenever all connections are idle, is a `RedisTable`. In
the other, two connections overlap call by call and a call may fail. What overlaps is
restricted to the commands that write or delete single elements, and MSETNX: LSET, LTRIM,
LREM, LINSERT and the STORE commands replace everything, and are not atomic by the code's
own comments (see "Known disagreements"). `kinds`, a history, collects the types of
the commands that overlap: `NothingHidden` is promised where they are of one type.

### Breaker

Every atomic operation of `Record` is a step: `failures.Add`, `failures.Store(0)`,
`openUntil.Store`. `left` is `openUntil - now` in ticks. A client passes the gate
(`Admit`), a worker does not (`StartWork`). `streak` is a history.

### Shutdown, InProc, Lifecycle

`Shutdown`: `job` follows each reclaim a DEL owes from birth to its end. `OnCommand` is
`Server.onCommand`, whose check of `closing` and `inflight.Add` are one step because both
are under the lock `Drain` takes; `Enqueue` and `Done` are the rest of a command. The
deleter's goroutine is `SelectJob`, `SelectQuit`, `GateTick`, `GateQuit`, `Process` and
`DrainQueue`; a `select` with two ready cases takes either. `Signal`, `DrainTimeout`,
`DrainDone` and the three `Stop` actions are `run` in assembly.go. After `exit` nothing
moves: the other goroutines end with the process.

`InProc`: `up` and `down` are the two `pipeBuffer`s of a connection, with the sleeping
reader of the condition variable as `waiting`; `Broadcast` clears it, and the reader looks
again (`ReadLoop`). `DialPair` and `DialTrack` are the Dialer, which creates the
connection before it registers it with the closer. `Read` captures the deadline and arms a
timer, `TimerFires` only wakes the reader. `Accept`, `HandlerRead`, `HandlerWrite` and
`HandlerEnds` are redcon's goroutines over the one-shot listener; `CloserStarts` and
`CloserSevers` are `inProcessCloser.Close`, one connection per step. There is one moment
in time, `clock = 1`, at which deadlines pass.

`Lifecycle` chooses the deployment in `Init`; a process is one of the two.

### Cursors

`present` are the slots that hold a live element, in the order DynamoDB pages them;
`FetchPage` returns any non-empty stretch of slots after the token. `registry` is the LRU
list (front first), with the age of each entry; `Save`, `Touch`, `Forget` and `Fresh` are
its operations. `got` and `always` record what an iteration returned and what was there
throughout, `newer` which cursors were used after which. A random 64-bit cursor is taken
never to hit one that a client still holds or is about to be sent, which is what `Fresh`
says. The cursors are finitely many and no fewer than the capacity
(`CursorsAssumption`): there are 2^64 - 1 numbers, and the capacity is an `int`.

### Ranges, Sorted, Bits, Cells, Glob, Limits, Pure

Each algorithm is an operator that follows the code's order of clamps and early exits, and
`Pure` compares it with a definition of what it promises that does not share its form: a
range with the set of positions it should select, BITFIELD with what GETBIT shows and with
the value modulo its width, a pattern with the ways to cut a string into pieces its parts
stand for, a geohash with the cell it was computed from. The widths are constants (a byte has `ByteBits` bits, a
register `HllBits`, a geohash `Levels` interleaved steps), so that a small instance meets
the byte boundaries, the saturations and the wraps of the real one. `Limits` has `MaxInt` for
math.MaxInt64 and lets its sums wrap (`Wrap`) as int64 does.

## 3. The runs

Passing runs (distinct states):

| run | states | shows |
|---|---|---|
| `members` | 192 000 | three connections, two fields, four of HSET, HSETNX, HDEL, HINCRBY: `NoStrandedMember`, `CountCoversMembers` |
| `life` | 1 407 000 | all types of key that `Key` has, DEL, EXPIRE and the clock, against everything that replaces or removes a value or a member; the inline deleter, one fault: `LiveTypeIsStable`, `NoLostUpdate`, `PoppedAtMostOnce` |
| `orphans` | 69 000 | sets, sorted sets, APPEND, DEL and EXPIRE; the asynchronous deleter with a queue of one, two faults, the sweeper: `TypeOK`, `OrphansReclaimed` (liveness) |
| `redis` | 755 000 | four of 21 commands on one connection: `ImplementsRedis` (refinement) |
| `table` | 1 499 000 | two keys, two connections, two commands, oversized elements, one fault: `TypeOK`, `MovedOnce`, `NothingHidden`, `ImplementsRedisTable` (refinement, serial setting) |
| `breaker` | 2 300 | two connections and a worker, threshold 2: `TypeOK`, `StormIsNoticed`, `TripIsEarned`, `ClosesForGood` (liveness) |
| `shutdown` | 108 000 | `Lifecycle`. The server: two connections, two reclaims, a queue of one, with and without the rate gate: `NoReclaimLost`, `QuietAfterDrain`, `ShutdownEnds` (liveness). The embedded client: two connections, one of them used for two requests: `RepliesReadBeforeEOF`, `Severed`, and the liveness `PipelineIsServed`, `DeadlineEndsRead`, `HandlersEnd`. Both: `LifecycleTypeOK` |
| `cursors` | 2 492 000 | one client, three slots, a registry of two, three faults: `TypeOK`, `CompleteIteration`, `CursorOutlivesUse` |
| `pure` | 393 000 | every bounded input of the algorithms, one per step: twelve comparisons |

Runs that end in a violation, each of a sentence the repository states (`findings` quotes
it):

| run | property | what the code does |
|---|---|---|
| `append` | `NoLostUpdate` | APPEND reads meta and value with two calls; its compare-and-set looks at the value alone, so one append can replace another |
| `stranded` | `NoStrandedMember` | on one connection: ZADD XX on an expired key finds the leftovers, takes the key over, and writes members it does not count; ZREM of one then hides the other |
| `leak` | `ServeConnReturns` | the goroutine of `ServeConn` stays parked in the second `Accept` after its connection has ended |

*Bounds.* `MaxOps` bounds the commands started, `MaxTime` the clock, `MaxFaults` failures,
crashes and TTL removals, `MaxTries` the compare-and-set retries, `Dispatches` and `Jobs`
the commands during a shutdown, `Dials`, `Talkers` and `MaxRequests` what go-redis does.
Two connections give every pairwise race; the counting properties get a third, since an
overstated count takes two concurrent removals next to an addition. Four operations are a
creation, two that race on it and one that is hurt. In `table` two operations suffice:
`Init` already offers absent, live and expired keys with several elements, so no command
is spent on building them. A queue of one is full with the second DEL. A registry of two
is the least on which LRU and creation order differ, and one client that repeats its calls
fills it as another client would; three slots let an iteration have a first, a middle and
a last page. A threshold of two is the least at which a success can come between two
throttles. A second embedded connection is there to be dialed while the closer runs; it
carries no bytes, because connections share the closer and nothing else. In `pure` a byte
has 4 bits and a register 3, so that fields and registers straddle bytes in every
alignment; a BITFIELD field may be wider than a byte; a geohash has 3 steps in words of 4
bits, whose cell number at the eastern edge is one bit too long for a 7-bit float;
`MaxInt` is 4500, four whole seconds and a half. Connections and members (keys, in
`table`) are interchangeable in what the runs with `SYMMETRY` check, all of them safety
properties.

*Deadlock.* The `Key` and `Table` runs say `CHECK_DEADLOCK FALSE`: when `MaxOps` commands
are done and the clock has stopped, the bounded instance stops. `breaker`, `shutdown`,
`cursors`, `pure` and `leak` check deadlock.

*Fairness.* `Key`: a command that was started is carried through, because a handler is a
straight line of calls with a deadline; the deleter's and the sweeper's goroutines run. No
client has to send a command and no fault has to happen. `Breaker`: time passes and a
caller inside `Record` gets to its end, which is two atomic stores away; no store call has
to answer. `Shutdown`: goroutines run, a pass of a worker ends (its DynamoDB calls end
with the SDK's retries), and a `select` in which `quit` is ready again and again takes it
in the end, since Go chooses among the ready cases at random: that is the strong fairness
on `SelectQuit` and `TickerQuit`. No dispatch is assumed to return: `ShutdownEnds` holds
because `Drain` has a time-out. A pass of the sweeper, which nothing cancels
(sweeper.go:134), is assumed to return. `InProc`: a dial that created its pair goes on, a reader
that is awake looks, a timer fires, redcon's goroutines and the closer's loop go on, time
passes; nobody has to dial, send, start a Read or close.

## 4. The proofs

Every theorem is about the specification a run checks, for every value of its constants
that the named `ASSUME`s allow; the runs evaluate those. A proof has an inductive
invariant that TLC checked on the run's instance first; where the property itself is
inductive enough, nothing is added.

**One key** (`KeyProofs`, `CountProofs`): any connections, members, values, commands and
bounds, with crashes, failing calls and TTL removals unless said otherwise.

- `TypeCorrect`: `Spec => []TypeOK`. `TypeOK` is not inductive. A command that
  will write a string must already hold a value, and a compare-and-set must hold one more
  than it read; `TypeInv` adds that to the type of a client record. The proof shows once
  that the storage primitives return key records (`PrimitiveTypes`) and that the shared
  steps keep client records (`SharedSteps`), then goes through the families.
- `HandedOutOnce`: `Spec => []PoppedAtMostOnce`. The inductive invariant is
  `TypeInv /\ LedgerInv`: the ledger of a member is at least one
  while its item is there. It needs that no step but a member write creates a member item
  (`StepData`): a conditional delete that confirms a removal takes the ledger down only
  where the item was.
- `IncrementsLand`: `NoLostUpdate` when `"append"` is not among `Commands`; INCR,
  HINCRBY and ZINCRBY are. The hypothesis is needed: `append` is the counterexample. The
  value at a compare-and-set is one more than the value that was read, and the condition
  compares the value that is there.
- `TypeIsStable`: `LiveTypeIsStable`, an action property. `StepData` says of every step
  also what it does to the type (`TypeKept`); it rests on what the primitives do to a live
  key they are allowed on (`PrimitiveType`).
- `CountCovers` and `MembersNotStranded`: `CountCoversMembers` and `NoStrandedMember`
  under `Counted(type)`: the commands are those of one type whose count is what the store's
  answers say, SADD, SREM and SPOP, or HSET, HSETNX, HDEL and HINCRBY, or ZADD,
  ZREM and ZREMRANGE, and no call fails; connections, members and commands are any number,
  and the sweeper may run. These hypotheses are needed. `stranded` is the counterexample
  with ZADD XX; section 5 has those with DEL, SET and the flags of ZADD; and a failure
  between a write and its count update leaves a member uncounted. The inductive invariant
  `CountInv` adds to `CountCoversMembers` that a command has counted nothing before its
  writes and deletes begin, that an HSETNX writes once, that the key has no expiry and no
  reclaim is asked for, and that a key without a meta item has no positive count. `Owed`
  is a sum over the connections, written as two cardinalities (`Tally`), so that the lemmas
  of `FiniteSetTheorems` apply: `OwedChange` says that a step of one connection changes
  the sum by the change of its share. The proof then weighs, step by step, what
  happens to the count, to the share of the connection and to the members (`Balance`).

**Refinement** (`RedisProofs`): `SingleConnectionIsRedis`, `SerialSpec => ImplementsRedis`,
under `SerialAssumption` (section 2), for any finite set of members, any values, clock and
number of commands. A handler makes several store calls. The step with which it ends
is the one step of `RedisKey`; those before it are stutters; and the key it leaves is the
one `RedisKey` computes, with its count and its expiry and with no data item besides. The inductive
invariant `RefInv` (`SerialInvariant`) is what that takes at each call. Between commands,
`Whole`: the table holds what is shown, or a key that has expired, and that is `Shapely`: a
collection whose count is its number of members, which is not zero, or a string with its
value, or nothing. That an expired key is left shapely too is needed, since EXPIRE, a
takeover and a STORE start from it. Inside a command, one `Phase` per family and in it one
operator per call says what the table holds relative to what was shown when the command
arrived: `AddPhase` that the members written so far have the value, that the others are as
they were shown, and how many were new; `TakePhase` the same of deletes, with the count not
yet lowered; `DropPhase` and the reclaims, that what is left is listed; `AppPhase`, that a
lost first attempt starts again from a meta item alone. The proof has three layers.
`KeyCommands`, `CollectionCommands` and `Refusals` say which abstract command a result is. `Goes`, `Ends` and
`EndsUnchanged` say what a call has to establish, and one lemma per call (`...Step`,
`...Steps`) establishes it for all the commands that make it. The lemmas per family
(`KeyCommandGood` and the like) put the calls together.

**Several keys** (`TableProofs`): any keys, connections, commands and failing calls, in the
setting where commands overlap; there no key expires, so no call reclaims.
`OverlapTypeCorrect`: `Spec => [](~serial => TypeOK)`, and `ElementsMoveOnce`:
`Spec => [](~serial => MovedOnce)`. What is inductive is `OverlapInv`. `Orderly` says of
the calls a command has left that it pops once at most, pushes once at most and after
that, and pushes what it popped or its own argument, never both; so each command carries at
most one element (`Carried`), be it in its hand or still in its argument. `Ledger` says that an element is at one place of
one list, or carried by one command, or handed out, and that an element still to come is
none of these. The proof reads the calls of every handler once (`HandlerCalls`) and shows what
each call leaves (`LeftCalls`); the calls on meta items and on sets leave the ledger as it
is (`QuietStep`), a push and a pop move one element in it (`LedgerPush`, `LedgerPop`), and
a failure drops what the command carried.

`NothingStaysHidden`: `Spec => [](~serial => NothingHidden)`. The property speaks of the
idle table; the invariant, `HideInv`, says on top of `OverlapInv` what holds in between,
while all commands are of one type. `Shape`, of the calls a command has left: each is a call
on items of that type, on a key that is claimed already or that the command claims first, and
each change of the data items is followed at once by its count; a refused push claims the key
and changes nothing else. (The exception is RPOPLPUSH
on one key, whose push puts back what its pop took.) So a connection owes at most one key
at a time, at most one item, and what all of them owe a key (`Owing`) is a difference of
two cardinalities. `Covered`: a key has data items of the type alone, and its count plus
what is owed to it is at least their number. A call of a connection changes both by as
much (`CoverList`, `CoverSet`, `HideChange`); `DeleteMetaIfEmpty` removes a meta item only
where the count is empty, and what is owed is then still to come. That all commands
are of one type is needed: section 5 has the LPUSH, RPOP and MSETNX that hide an element,
which takes three commands, so two types would satisfy a run with two.

**Circuit breaker** (`BreakerProofs`): any callers, threshold and cool-down.
`TypeCorrect`, `StormNoticed` and `TripEarned`: the inductive invariant adds
`CountIsEarned`, that either a full threshold of throttles has come in a row or no more
are counted than have come; the resets of racing callers only lower the count.

**Server** (`LifecycleProofs`): any connections, reclaims, dispatches and queue capacity,
with and without the rate gate. `TypeCorrect`, `ReclaimsKept` (`NoReclaimLost`) and
`QuietWhenStopped` (`QuietAfterDrain`). `NoReclaimLost` speaks of the exit alone; the
invariant follows each reclaim to it. `OwedInv`, `QueuedInv` and `TakenInv` say where an
owed reclaim is: with a command about to enqueue it, in the queue, in the worker's hand.
`OrderInv` is the order of the shutdown: the deleter is told to quit last, drains only
when told, and the process exits after it. `QuietAfterDrain` keeps commands from
enqueueing behind the drained deleter, so `DrainedInv` leaves the queue empty.

**Embedded client** (`LifecycleProofs`): any connections, of which any may talk, and any
number of requests. `EmbeddedTypeCorrect`, `RepliesKept` (`RepliesReadBeforeEOF`) and
`CloseSevers` (`Severed`). The reply bytes need `EOFIsFinal`: EOF is seen only on a closed
direction that is empty, and nothing is written to a closed direction. `Severed` needs
`TrackedOrCut`: a dialed connection is in the closer's set or closed already, and
`ClosedTracksNone`, which holds because a dial that finds the closer closed severs its own
connection. `SleepersRead` (only a reader in its loop sleeps on a pipe) is part of the type.

**Composition** (`LifecycleProofs`): `LifecycleTypeCorrect`, `ServerStopsCleanly` and
`EmbeddedStopsCleanly` carry the two over to `LifecycleSpec`: the invariant is the
conjunction of theirs, and a step of one deployment leaves the other's variables alone.

**Cursors** (`CursorsProofs`): any clients, slots, cursors, capacity, lifetime and faults.
`TypeCorrect`, `IterationsComplete` (`CompleteIteration`) and `CursorsOutliveUse`
(`CursorOutlivesUse`). Completeness at the end of an iteration needs what holds in its
middle (`CoverOf`): the client has every element that was there throughout up to the slot
its cursor stands for in the registry, up to the token it has loaded, and up to the end of
the page it is being sent. That a drawn cursor is nobody's (`Fresh`) keeps an entry from
standing for another iteration's slot. `OrderInv` ties the list to its meaning: what
stands before an entry was used after it; so an entry at the back of a full registry has
as many later ones as the capacity. The lemmas about the list (`RemovedRow`, `TouchedRow`,
`SavedRow`) are stated once, for the operations of `SequencesExt`.

**Integers** (`LimitsProofs`): every clock, every int64 argument, every length, pair of
bounds and string.

- `SecondsNeverWrap` and `MillisNeverWrap`: the guards of `secExpiryEpoch`
  and `msExpiryEpoch` are exactly those under which the sums stay in int64; where they let
  a number through, the stored second is the one asked for, and a future deadline is never
  cut to the past. The proofs first bound each sum, then drop `Wrap`.
- `RankRange` and `ByteRange`: the clamps select the set of positions
  between the bounds as counted, and the count that the reply cap compares is its size.
- `SetRange`: the int64 sum of offset and length may wrap, and the check
  refuses all the same; what passes the check is written where GETRANGE reads it.

`RangesAlwaysMean` and `LimitsAlwaysKept` put them together: `RangesMean` and `LimitsKept`,
which `pure` checks on small inputs, hold of a call with any inputs a request can have. The
two properties are in `Calls`, because `Pure` reaches the bit operators and the recursions
of `Bits`, `Cells` and `Glob`, of which the prover cannot speak.

*Assumptions on the constants.* Beside the naturals and the distinct values: connections
are finitely many (`ClientsAssumption` of `KeyCore` and of `TableCore`; a process has so
many file descriptors), cursors are (section 2), the types of `Table` differ from one
another (`TypesAssumption`; they are distinct strings in a meta item, meta.go:33-36), `0` is among the values and `MaxTries` is positive (`ItemsAssumption`),
and the elements of lists and sets are numbers (`ElementsAssumption`), as section 2 says.

*Only model-checked.* The liveness properties (`OrphansReclaimed`, `ClosesForGood`,
`ShutdownEnds`, `PipelineIsServed`, `DeadlineEndsRead`, `HandlersEnd`): fairness is out
of the prover's reach. What the recursions and folds of `Sorted`, `Bits`, `Cells` and
`Glob` compute for every input, which takes induction over data: the other comparisons of
`pure`. The refinement `ImplementsRedisTable`, and what
`Table`'s invariants say of the serial setting: its LREM and its reclaims filter lists by
folds and recursions.

## 5. Known disagreements

Three have runs (section 3). The following showed up in the models too, or while reading
the code for them, and have no run of their own. The runs above leave them out by the
commands they choose, which is said with each property.

*Races on the meta item.* After SREM emptied a set, and before its DeleteMetaIfEmpty
(datacmd.go:213), another connection's SET claims the key with count 0; the conditional
delete removes the string's meta item. Between HDEL's last delete and its
DeleteMetaIfEmpty, in the same way, another type's claim can fail with WRONGTYPE or its
members go uncounted. The recreate guard and the reclaim are two calls
(deleter.go:295-312), so a DEL's reclaim can delete what a command wrote in between, also
the next command of the same connection when the deleter is asynchronous
(doc/redis-3.2-compatibility.md:155 speaks of the guard). A takeover's reclaim that
races a push deletes the pushed element. Between an LPUSH's write and its count, an RPOP
can empty the count and drop the meta item, and an MSETNX or SMOVE claim the key; the
count is then refused with WRONGTYPE, and the pushed element is hidden in a key of another
type (lists.go; three commands, one more than `table` allows). A count update that arrives after DEL and a new
SADD can empty the count of the new set. DEL's guard can see a racing LPUSH and leave the
old elements to it.

*Counts.* SADD racing SREM or DEL can leave `cnt`, which SCARD answers, above the
cardinality, and LPUSH racing LPOP above the length. ZINCRBY (store_zsets.go:86-119) and
ZADD with XX or CH racing ZREM can leave it below. ZADD NX on an expired sorted set looks
at its leftovers. LTRIM moves the count by the length it read minus a count it loaded
before that (lists2.go:187).

*Strings.* PFADD, SETBIT, BITFIELD and SETRANGE share APPEND's lost update
(`rmwString`). SETNX over an expired set leaves its members in the new key's partition
(strings.go:229). A plain SET writes its value on a key that SET NX has claimed; the
reclaim of the latter deletes it (strings.go:154-157).

*Replacing.* An element that is pushed between the read and the replace of LSET, LTRIM,
LREM or LINSERT is lost (lists2.go:129 and the like), and a failure between the delete
and the RPush loses the list. SMOVE adds the member to the destination whether or not
its SREM removed it, and a failure between the two loses the member, as sets.go:843-847
concedes. Two MSETNX that find their keys absent leave a mixture of their values, as
strings.go:483-484 concedes; a failure half way leaves half of an MSET. No property is
about these: `MovedOnce` follows list elements, and `NothingHidden` asks that every data
item be reachable. A *STORE that fails after it deleted its destination leaves it
deleted or partly filled (sets.go:805-837).

*The size guard.* LPUSH and RPUSH run `guard.CheckWrite` after `ensureTypeExpiring`
(lists.go:122-129, 142-149), so that WRONGTYPE wins over the size error; "enforcement
happens before any backend write", guard/size.go:13 says. On one connection and with no
call failing, a push of an oversized element creates the meta item of an absent key, or
takes an expired one over and reclaims it, is then refused, and leaves a live list with no
elements: EXISTS and TYPE find it, LPUSHX pushes to it. Without `~LeavesEmpty(cmd)` in
`Start`, TLC finds `ImplementsRedisTable` violated by exactly this. No other handler has
this order.

*Smaller ones.* A pending Read of a `bufConn` keeps the deadline it began with
(bufconn.go:127-131), though bufconn.go:173 speaks of pending calls. At longitude 180 the
geohash has 54 bits and its float64 score loses the last (as in Redis); `CellsAgree` says
what becomes of it. Another connection's DEL reaches the branch that keys.go:309 calls
unreachable, which replies what it should. After its cool-down the breaker lets every
command through, not the one probe of breaker.go:13-15.

## 6. Not modelled

Floating point (GEO distances, HyperLogLog's estimate, INCRBYFLOAT); parsing and
formatting (RESP, numbers); metrics, slow log, INFO; the connection commands and the stubs;
the classification of throttling errors; table creation, flags and wiring. None of it has
state that the modelled parts depend on, or its content is wording.

Reads that overlap a write (GET, TTL, SMEMBERS, MGET, LRANGE and the like) change nothing;
what they reply in the middle of another command is not stated. GEOADD and the STORE forms
of GEO make the calls of ZADD and ZUNIONSTORE on the meta item and the members, and are
not commands of their own here. The reply of a command is modelled where a property is
about it: removals, increments, pops, ranges.

## 7. Plan

1. Proofs: that the serial setting of `Table` implements `RedisTable`. It needs the folds and
   recursions of `TableCore` (LREM, the reclaims) rewritten as functions first, and lemmas
   about what they return.
2. `Reads`: GET, TTL, EXISTS, SMEMBERS, LRANGE that overlap a write; what an expired or half
   written key may show.
3. Overlapping LSET, LTRIM, LREM and LINSERT with what their comments concede: an element
   that was acknowledged is lost to a rewrite that read before it, and to nothing else.
