# Verification of x-cache-manager

x-cache-manager keeps the disk cache of Nginx within a size limit. Nginx logs
every hit and every stored file; the manager receives the log lines, keeps an
entry per file in a database, decides which entries to evict, and has the files
of evicted entries deleted. The repository holds the parts of that program and
a test driver for each, but no `main` that connects them yet.

## 1. The system's parts

| part | code (under `src/`) | state it keeps | operations |
|---|---|---|---|
| LRU manager | `algo/algo_lru_sqlite.*`, `db_adapter/db_sqlite_lru.h`, `sqlite/sql_statement.h:1-76` | table `cacheLRU` and row `metaLRU` on disk; `meta_lru` (cache_size, max_size, sequence) in memory | init, put, renew, update, resize, query, display, backup, destructor |
| LFUDA manager | `algo/algo_lfuda_sqlite.*`, `db_adapter/db_sqlite_lfuda.h`, `sqlite/sql_statement.h:79-163` | table `cacheLFUDA`, row `metaLFUDA`; `meta_lfuda` with the global aging factor | the same |
| In-memory LRU, LFUDA | `algo/algo_lru.*`, `algo/algo_lfuda.*` | a list or set with an index | put, renew, update, resize, backup |
| LRU over Redis | `algo/algo_lru_redis.*`, `db_adapter/db_redis_lru.h` | (placeholder: a copy of the SQLite manager, and an adapter whose insert returns before its HSET) | |
| SQLite access | `sqlite/sqlite_base.*` | the connection | open, execute, query_* |
| Redis client | `redis/redis_base.*`, `redis/redis_adapter.h` | hiredis context, `connected` | connect, reconnect, command with retries, reset |
| Redis subscriber | `redis/redis_subscriber.*` | async context, event loop thread, status | connect, subscribe, uninit, callbacks |
| Log receiver | `io/receiver.*` | local (Unix) datagram socket, io thread, `is_running` | init, receive_start, receive_stop, io_run, handlers |
| Deletion threads | `io/async_deleter.*` | asio io_context, worker threads, task and thread counters | run, submit, stop, force_stop |
| Purger | `utils/purger.*` | worker threads, task queue, stop signal | add, worker, stop |
| Logger | `utils/logger.*` | list of sinks, level flags | setup, set_level, put, submit |
| Line parser | `utils/parser.*` | none | parse |
| Configuration | `utils/config_parser.*`, `utils/config_checker.h` | none | parse and validate |

**How they interact.** Within a process the managers are called from one
thread, as their drivers do. They call the database one autocommitted statement
at a time (no transaction spans two statements) and hand the entries they evict
to `remove_callback` in one batch per call. The deletion side (Purger,
AsyncDeleter) is multi-threaded and calls back on failure. The Redis subscriber
and the receiver run an event loop in a thread of their own and share their
object with the thread that starts and stops them.

**Which behaviours are hard.** A crash between two statements, with totals that
live in memory and rows that live on disk; a statement that fails in the middle
of the eviction loop; an entry evicted to make room for itself; workers that
wait, are notified and stop; an owner that waits for threads while it holds the
lock they need.

**What makes each part correct.**

- Managers: the running total is the sum of the sizes in the table; the cache
  fits the limit between calls; the victim is the least recently (or least
  valuable) entry; every evicted entry's file is handed over for deletion; lost
  counters are noticed at start; every call ends.
- Purger, AsyncDeleter: an accepted task ends exactly once, as done, as failed
  (with its callback) or dropped by a stop; no wakeup is lost; `stop` returns.
- Receiver: the chain of receives never breaks while it runs; until the first
  stop every datagram is delivered once, unchanged and in order.
- Redis client: an answer belongs to the command it is returned for, a command
  is sent a bounded number of times, an exception means that the network failed
  during that call, or that an earlier error left a context no call repairs;
  what was serialized is read back, and numbers sort as their strings do.
- Subscriber: `uninit` returns when nobody is left in `connect`, frees nothing the
  event loop still uses; `connect` reports a failed connection always, and never
  blames one that came up for the failure of another.
- Logger: once levels are set, the early test lets through exactly what some
  sink wants; a batch is written together.
- Start of a program: a manager works only on a database that is complete.

## 2. Plan

The SQLite managers come first: they decide what is deleted, and their state
survives crashes. Then the two thread pools, where orders of steps matter most,
then the parts that talk to the outside.

| # | module | of | status |
|---|---|---|---|
| 1 | `DiskUsage` | the sum a running total stands for | written; lemmas in `DiskUsageProofs` |
| 2 | `RecencyCache` | abstract LRU cache | written; `LruSqlite` refines it |
| 3 | `LruSqlite` | LRU manager over SQLite | written; `LruProofs` |
| 4 | `LruStartup` | the database before the manager: file, tables, index and meta row in separate statements, joined with `LruSqlite` | written; `LruProofs` |
| 5 | `LfudaSqlite` | LFUDA manager over SQLite | written; `LfudaProofs` |
| 6 | `Purger` | purge queue | written; `PurgerProofs` |
| 7 | `AsyncDeleter` | deletion threads | written; `IoProofs` |
| 8 | `LruMemory`, `LfudaMemory` | in-memory managers | written; `MemoryProofs` |
| 9 | `Receiver` | log receiver | written; `IoProofs` |
| 10 | `RedisClient` | RedisBase and the adapter's second attempt | written; `RedisProofs` |
| 11 | `Serializer` | `serialize` and `deserialize` of the adapter | written; `RedisProofs` |
| 12 | `SubManager` | Redis subscriber | written; `RedisProofs` |
| 13 | `Logger` | levels set against concurrent messages, batches | written; `LoggerProofs` |
| 14 | manager with deleter | `LruSqlite`'s `remove_callback` submitting to `AsyncDeleter`; no program of the repository connects the two yet | open |

Every safety and action property of the passing runs is a theorem; the liveness
properties are model-checked (section 7). What is left of the plan is line 14.

## 3. The modules and the code

Every module names its code in its header, every property the lines it is
about; `PROJECT.json` maps each definition to its lines.

**`LruSqlite`, `LfudaSqlite`.** `rows`, `size` and `sequence` (or `stat`) are the
columns of the table that matter; download time and hash are never read by a
decision and are left out. `disk` is the meta row, `meta` its copy in memory.
One action is one autocommitted statement with the assignments that follow it in
the code, because that is what a crash can separate: `put()` of a new key is
`PutAbsent`, some `EvictOldest`, `EvictDone`, `Insert`. `op` carries the
arguments of the call and the flag `remove_cache` returns. `removed` is the
vector given to `remove_callback`; `files` is what the callbacks have not
ordered deleted. `DeleteFails`, `InsertFails`, `UpdateFails` are an `SQLiteError`
from one statement: each leaves exactly the memory the code has changed by then
(`update_size` changes the total before its UPDATE). `Crash` forgets memory and
keeps the database. A call rejected before its first statement is a stuttering
step. `DestroyUninitialised` is the destructor of an object whose `init()` was
not called or threw: it saves what `meta_lru` holds, zeros included; it counts
as a fault. LFUDA's time of access is a small set of values: order is all that
is used of it.

**`LruStartup`** extends `LruSqlite` with the program around the manager:
`open()` creates the file if it is not there, the constructor of `SQLiteLRU`
makes or checks the tables and the index, and `main()` inserts the meta row when
`is_new`. Each is one autocommitted statement, any of them can fail or be the
last before a crash, and `is_new` tells only whether the file was there. The
manager's steps are possible once the program is `"ready"`.

**`LruMemory`, `LfudaMemory`.** One call, one action: nothing fails and one
thread calls. Using an iterator of an erased entry, or `end()`, sets `undefined`,
after which nothing is claimed and nothing happens. In `LfudaMemory` the order
among equal entries is left open, so it covers any order of keys. `MCMemory`
checks the two side by side: a behaviour belongs to one of them.

**`Purger`.** A worker's critical section is one action, except where it decides
to wait: `Lock`, `Decide`, `Block` are apart, as a wake-up between the last two
is lost. `waiting` holds the blocked workers; `WakeOne` is `notify_one`.
Outcomes of a request are nondeterministic. `fate` follows each accepted task.

**`AsyncDeleter`.** The owner's calls are taken apart at each lock, wait and
join; a handler at `remove_all`, the counter, the lock-and-notify, its return.
asio is modelled by outstanding work, its stopped flag, and the rule that
stopped threads finish the handler they are in.

**`Receiver`.** `pending` receives, `ready` handlers with their result, one
shared `buffer`. `cancel()` aborts the pending ones only, so that after a stop a
handler that was queued before still runs and receives again
(`receiver.cpp:82`): `DeliveredIntact` and `LinesArrive` speak of the time up to
the first stop, `ChainAlive` of all of it. "Unchanged" is about what was
received: a datagram longer than the buffer of 4096 bytes (`receiver.h:19`) is cut
short by the receive itself, before the code sees it.

**`RedisClient`.** The nested loops of `command`, `reconnect`, `connect` and the
adapter's second attempt, over a context that is usable or holds the kind of its
error. Any `max_retries` from 0 is covered (`max_tries` is one more). A negative
one is not: `connect()` would go on with a null context, and `command()` run off
its end without a value. `wire` holds answers sent by the server and not read: a reconnection
drops them, a timeout does not.

**`Serializer`.** Values as strings of digits: `Digits` and `Number` are the
shifts and masks, `Flipped` the exclusive-or with the top bit; the loops over
bytes and fields are recursive functions, one step of the code each. The width
of the fields and the base are constants (`Base` 256, `Short` 4, `Long` 8 in the
program). `MCRedisAdapter` checks it together with `RedisClient`: the other half
of the same file.

**`SubManager`.** One thread connects and runs the event loop (`lpc`), the owner
initialises, subscribes and uninitialises (`opc`). A stretch of code under
`connect_lock` is one action; the callbacks, which take no lock, are actions of
their own and interleave with the owner. `redis_ctx` is `"freed"` when the
library has freed the context and the object still points at it. What is taken
as given of hiredis and libevent is in the header: `redisAsyncDisconnect` on an
idle connection frees the context and calls `disconnect_cb` in the thread of its
caller, and the loop notices that its last event is gone. Two things disturb
the wait of `uninit()`, which has no predicate: a spurious wake-up, and a thread
that calls `connect()` again before the woken owner has the lock; the owner then
frees the `RedisSub` under the new loop. The comment of `connect()`
(`redis_subscriber.h:105`) asks the user to wait for its exit after
`disconnect()`, so the properties claim nothing after such a disturbance.
`fate` and `earlier` are history that no guard reads: what was heard of the latest
connection, and what the callbacks last reported of those before it.

**`Logger`.** `set_level` is taken apart at each load and store of an atomic,
`put_*` at the lock and at each sink, `MultiLog` is a list a thread keeps and
submits under the exclusive lock. `setup()` is called only while nothing else is
in a call, as it assigns the pointers the others read; a setup that has only
stderr leaves both levels at OFF. `set_stderr(true)` without a stderr logger
leads to a null pointer at the next message for it, where the model ends
(`missing`).

**Proof modules** extend the modules they are about: `LruProofs` (`LruSqlite` and
`LruStartup`), `LfudaProofs`, `MemoryProofs` (`LruMemory`, `LfudaMemory`),
`PurgerProofs`, `IoProofs` (`AsyncDeleter` and `Receiver`, the two that run an
asio context), `RedisProofs` (`RedisClient`, `SubManager` and `Serializer`),
`LoggerProofs`, and
`DiskUsageProofs` with the lemmas on sums. Where one proof module extends two
components, the names they would share are told apart: `SubInit` and `SubSpec`
are those of the subscriber, `ReceiverInit` and `ReceiverSpec` those of the
receiver.

## 4. The runs

| run | shows | bounds, and why they are enough |
|---|---|---|
| `lru` | through crashes and failed statements: the table's order is the order of use, no two rows share a number, lost counters are noticed at start, a batch of evicted entries is lost only by a fault, the table is a `RecencyCache`; without faults: total exact, cache within its limit, no db error | 3 keys: one call can evict two others and its own; limits 2 and 3 with sizes 1 and 2 make shrinking and growing evict; counter up to 4: every key inserted and one used again, across restarts; 2 faults: a failed statement followed by a crash |
| `lru_startup` | a manager works only on a complete database, an uninterrupted history is never refused, a start cut short is never made good, and every call ends, also with a wrong total | 2 keys, counter up to 3, 1 fault: a start cut short, or a total parted from its table; no symmetry |
| `lfuda` | the aging factor is a floor under every entry; no batch is lost without a fault; without faults the books are exact, and a use raises the value of an entry | 3 keys, counts up to 2, aging up to 3: values overtake each other; 1 fault |
| `memory` | order of use, exact totals, aging floor, over backup and init | 3 keys, sizes 1, 2 and 4, the last above both limits; 5 uses |
| `purger` | tasks are neither lost nor doubled, no lost wake-up, quiet after stop, stop returns, accepted tasks end | 2 workers and 2 callers compete for 3 tasks and a queue of 2, so a retry can find the queue full; 2 tries; a spurious wake-up |
| `deleter` | stop() drains, the pool is clean for a restart, force_stop() returns, the wait in stop() ends | 3 threads (two jobs in flight while a third leaves), 3 files, a restart, a forced stop |
| `receiver` | the chain of receives lives; up to the first stop datagrams arrive unchanged, once and in order | 3 datagrams, 2 starts, 2 stops, a failed receive: two chains can overlap |
| `redis_client` | bounded loops and executions, no stale answer, exceptions only in trouble or on a stuck context, and how one gets stuck; records are read back, nothing else is read, numbers keep their order | 1 to 3 tries, the last as in the repository's test, 3 calls, 8 failures: both attempts can be used up within one call, and a call can start on what another left broken; 1 protocol error; bytes of one bit, numbers of 2 and 3 bytes, records of up to two fields: every value of each type |
| `sub_manager` | nothing freed is used before a connection was lost, connect() throws exactly when its connection failed, or when nothing was heard of it and the last thing heard of an earlier one was a failure; nobody is left in connect() when uninit() returns, and it does | 2 lives of the object, 4 connections: one is lost, one blamed for it, one comes up, one is disconnected; 1 spurious wake-up |
| `logger` | the early test agrees with the levels, a MultiLog stays together | 2 writers and 2 setters, 2 calls that set, one of them out of range; batches of 2 that pass or miss a level |
| `deleter_stop`, `lru_memory_put` | two places where the code does not do what a test or a comment of it says | the smallest program that shows it |

Deadlock is checked in `lru`, `lru_startup`, `lfuda`, `purger`, `receiver` and
`redis_client`. It is not in the deleter's runs, as `stop()` can really deadlock,
nor in `memory`, `lru_memory_put`, `sub_manager` and `logger`, whose behaviours
end in undefined ones or when the calls are used up. Symmetry of keys or threads
is used only in runs without liveness properties.

**What the violated properties show.**

- `StopReturns` (`deleter_stop`): `stop()` joins the pool with `cv_lock` held
  (`async_deleter.cpp:52-57`). A thread that has counted off the last job, before
  it takes `cv_lock` to notify (72-73), then waits for the owner, and the owner
  for it. The program is the one of `test/deleter_test.cpp`.
- `UsesLarger` (`lru_memory_put`): `put()` of a larger duplicate may evict the
  entry it is about to enlarge, and goes on with its iterator
  (`algo_lru.cpp:54`, `121-126`). `algo_lfuda.cpp:107` does the same.

**Seen in the models, without a run of their own.**

- A second `run()` of the deleter before the new threads have counted themselves
  destroys joinable threads (`AsyncDeleter!Run`, opc "terminated"); an object
  that never ran has no work guard to reset; after `force_stop()` a `stop()`
  waits for jobs that no thread will do.
- `update()` of the in-memory LRU tests its iterator the wrong way round
  (`algo_lru.cpp:89`, `LruMemory!Update`).
- After a protocol error the Redis client never reconnects. With
  `max_retries = 0`, which the constructor accepts, any error of a command has
  that effect: the only try throws (`redis_base.h:82`) before the line that would
  reconnect (88), `connected` stays true, and so the adapter does not reset
  either. Every later call throws on a healthy network until the program calls
  `reset()`. `RecoversByItself` says that nothing else gets a context stuck.
- A command can be reported as failed although the server executed it.
- `connect()` of the subscriber does not reset `status`
  (`redis_subscriber.cpp:174-188`). After a connection that failed, the next one
  is reported as failed too if nothing is heard of it: if it could not be attached
  to the loop, or `uninit()` disconnected it while it was being made
  (`BlamedForEarlier`). One that could not be attached returns normally otherwise.
- An `SQLiteError` of a deletion in the middle of the eviction loop loses the
  batch collected so far (`algo_lru_sqlite.cpp:148`): `BatchIsDelivered` catches
  the exceptions the loop itself throws, and excuses this one as a fault.
- The worker of the purger that lowers the counter last still has to release the
  mutex (`purger.cpp:60-63`); only the 5 ms that `stop()` sleeps (line 133) keep
  the owner from destroying it first. `QuietAfterStop` excludes work on the
  queue, not that release.
- After an `init()` that was never called the SQLite managers' destructor
  overwrites the saved counters with zeros; no later start accepts them, as a
  `max_size` of zero makes `init()` throw (`algo_lru_sqlite.cpp:19`).
- A start that is cut short leaves a database no later program accepts
  (`CutShortForGood`).
- Two overlapping calls of `set_level` can leave flags of an outdated maximum
  (`FlagsFollowLevels` excludes them).
- A queued handler of the receiver runs after `receive_stop()` has returned, and
  starts the next receive (`receiver.cpp:82`).
- After a lost connection `subscribe()` and `uninit()` of the subscriber use the
  context that the library has freed (`SafeUntilLost` claims the time before).

## 5. Fairness

- `LruSqlite`, `LfudaSqlite`: WF of `Continue`. A call in progress is code that
  runs in the calling thread; nothing obliges the program to make a call, or a
  fault to happen.
- `LruStartup`: WF of `Works` and of `Boots`: the same for a call of the manager,
  and for a program that has begun to open its database.
- `Purger`: WF of each worker, and of a caller inside a call. A request ends at
  the latest by curl's timeout; the scheduler is fair to runnable threads. The
  mutex is free infinitely often in the situations the properties ask about, and
  WF is enough.
- `AsyncDeleter`: WF of each thread and of a call in progress, SF of `Notify`.
  Spurious wake-ups are unbounded there, so the owner may take and release the
  mutex for ever; a thread that asks for it again and again gets it, as a fair
  scheduler grants.
- `Receiver`: WF of the io thread, of the socket (a receive for which a datagram
  is there completes) and of the destructor's steps.
- `SubManager`: WF of `LoopRuns`, the thread in `connect()` with its event loop,
  and of `OwnerWakes`, an owner whose wait was ended. Neither the server nor the
  user has to do anything.
- `RedisClient`, `Logger` and the in-memory managers state no liveness: their
  loops are bounded, which is safety.

## 6. What is proved

Every theorem holds for all values of the constants that the named assumption of
its module allows (sizes and limits are positive, no value of absence is a key
or a thread, bounds are natural numbers, threads and files are finite sets, a
worker of the purger is no caller of `stop()`, the Redis client tries at least
once), so for any number of keys, threads, messages, faults or calls.

**`LruProofs`**, about `LruSqlite`:

| theorem | says |
|---|---|
| `TypeCorrect` | types, and no total ever below zero: no `size_t` wraps |
| `OrderIsKept` | `SequenceOrder`: rows never share a number, the counter is the newest row's |
| `ImplementsRecencyCache` | the table is a `RecencyCache` |
| `CacheFits` | `Fits`: without faults the total is the sum of the table and the idle cache is within its limit |
| `PutIsSafe` | without faults `put()` never evicts the cached key it is called for |
| `NoCallThrows` | `NoDbError` |

The argument goes in three layers, each inductive relative to those before.
`TypeInv` adds to `TypeOK` what the call in progress may rely on (`CallOK`): an
insertion's key is absent and an update's present unless flagged as evicted.
Without it the last statement of a call could act on the wrong row.
`SequenceOrder` is inductive with `TypeInv`: a restart re-establishes it because
`init()` accepts only counters that equal the newest row's number, eviction
removes the smallest number, and insertion and renewal take one above all
(`NextNumber`). The refinement follows: a step that gives a row the next number
is `Add` or `Touch`, a deletion of the oldest is `Evict`, all else stutters.
`BooksInv` speaks of runs without faults: the total (in memory, or on disk while
the process is down) is `Usage`, the room a call made is still there when it
commits (`Room`), and a call that grows an entry after renewing it never reaches
that entry, as everything else, together smaller than the limit, goes first.
`IInv` is the conjunction. `Usage` is defined as the cardinality of a set of
blocks, so that adding and removing an entry are facts about disjoint finite
sets (`DiskUsageProofs`) and no induction on the table is needed.

Through crashes and failed statements:

| theorem | says |
|---|---|
| `CounterLossIsNoticed` | `LossIsNoticed`: a start is accepted only if nothing was inserted or renewed since the last backup |
| `NoBatchIsLost` | `BatchIsDelivered`: a row that leaves takes its file along, or a fault is what lost it |
| `FilesFollowTable` | every row has its file; without faults every file has its row or is about to be handed over |
| `TotalIsKept` | a step moves the total as much as the table, also after a fault has parted them |

`RecoveryInv` says that every row numbered since the last backup is ahead of the
counter on disk; `init()` compares that counter with the newest row, so one such
row is enough to be noticed. It needs to know what the memory of a manager that
is not initialised holds, as its destructor may write that. `DeliveryInv` says
that rows, batch and the pending insertion are disjoint and all have files, and
that a batch exists only within `remove_cache`.

About `LruStartup`, the program that opens a database and then runs that manager:

| theorem | says |
|---|---|
| `OnlyCompleteIsServed` | `ServesOnlyComplete` |
| `NeverCompleted` | `CutShortForGood` |
| `UninterruptedStarts` | `StartsUnlessFault`: without faults no start is refused, by the index or by `init()` |
| `StartedManagerKeepsBooks` | `SequenceOrder`, `Fits` and `NoDbError` hold of the joined system too |
| `StartedImplementsRecencyCache` | so does the refinement of `RecencyCache` |

`StartInv` says that the meta row is made last, that without it there are no
limits to read, which `init()` refuses, and which statement of a start has run
by when. For the other three `WholeInv` joins it with `IInv`: the statements of
a start are no steps of the manager, and have to leave its invariant alone. It
adds that there are no rows before there is a meta row (`Limited`), that a
database nobody cut short is absent or complete whenever no program is in the
middle of opening it (`Uncut`), and that a meta row nothing has disturbed is one
`init()` accepts (`Saved`): the destructor writes the counters that `init()` will
compare with the table, and between the two nothing writes.

**`LfudaProofs`**

| theorem | says |
|---|---|
| `TypeCorrect` | types, and no total ever below zero |
| `FactorIsFloor` | `AgingIsFloor`, whatever crashes have set the factor back |
| `UseIsWorth` | `UseRaisesValue` |
| `NoBatchIsLost` | `BatchIsDelivered` |
| `CacheFits` | `Fits` |

`AgingInv`: the saved factor is at most the one in memory, which a victim's value
never lowers (`WorstIsLeast`: the first component of the order decides), and
both are at most every entry's value. `UsesInv`: without faults an entry's value
is at most its count above the factor in force, so the next use exceeds it; a
crash is what makes that false, as the factor is then an older one. `BooksInv` is
that of the LRU manager without the last clause: here making room for a `put()`
can evict the very entry, and what saves the update is the flag, carried in
`CallOK`.

**`MemoryProofs`**

| theorem | says |
|---|---|
| `ListIsLeastRecentLast` | `ListIsRecency` |
| `FactorIsFloor` | `AgingIsFloor` of the LFUDA manager |
| `ManagersCountExactly` | `TotalsAreExact`, of both |

`ListInv` adds to the order of the list that of a saved one, and that while
there is one nothing is used, so that it is still in order when `init()` takes
it. `SetInv` carries the floor over a backup the same way. The heart of both is
what `remove_cache` leaves: of the list a beginning that fits
(`KeptFits`), of the set entries no victim is worth more than (`CheapLeave`), where
the last victim's value is the greatest of all victims' (`MaxIsGreatest`, by
well-founded induction on the subsets of a finite set, as the library has it).
`EitherSteps` takes the two component invariants to the joined specification.

**`PurgerProofs`**: `TasksAreKept` (`TaskConserved`), `StopIsQuiet`
(`QuietAfterStop`) and `WakeUpsArrive` (`NoLostWakeUp`). `TasksInv` says that the
queue and the workers' hands hold exactly the accepted tasks, each once, and
that what is queued has tries left; `StopInv` that `running_worker` is the number
of workers that have not left. `LockInv` is what makes a wait safe: a worker
between its look at the queue and its wait holds the lock, so the queue is
still empty when it begins to wait, and whoever fills it must notify after.

**`IoProofs`**

| theorem | says |
|---|---|
| `StopDrainsThePool` | `StopDrains` |
| `PoolStaysClean` | `PoolIsClean` |
| `SleeperIsNotified` | an owner asleep in `stop()` when no job is left has a thread on its way to notify it |
| `ChainStaysAlive` | `ChainAlive` of the receiver |
| `LinesComeIntact` | `DeliveredIntact` of the receiver |

`DeleterInv` has three layers. `Placed`: a file submitted is in the context, in
the hands of one thread, or finished. `Counts`: `working_jobs` is the number of
files not yet counted off, of which one may be a file that `submit()` has counted
and not posted, and `running_threads` that of the threads inside `io.run()`.
`OwnerInv`: what the owner has seen under the lock stays true while it holds it.
`SleeperIsNotified` is the other side of the deadlock that `deleter_stop` shows: a
thread notifies only when its `fetch_sub` returned two or less, and that is
enough for the wait itself.

`OneChain` of `ReceiverInv` is why one buffer is enough: until the first stop the
receives pending, the handlers queued and the one being executed are one
together, none before the first start, so nothing is received between a
completion and the call of its handler. After a stop a second chain may exist
(section 4), and only `ChainAlive` is claimed.

**`RedisProofs`**, about `RedisClient`: `AnswersAreTheirOwn` (`AnswersMatch`) and
`SecondAttemptRecovers` (`RecoversByItself`). A context without an error has no
answer on its way other than that of the present command (`Socket`): a late
answer stays in a socket that is given up before it is used again. Each try
sends once and the second attempt begins with a new socket (`Budget`). While the
network holds and the context is not stuck, the first attempt fails only on a
context that an earlier call left broken, and leaves `connected` false
(`HonestFlag`), so that the second attempt makes a new socket and succeeds
(`CalmCall`). `StuckSteps` is the other half: a context gets stuck by a garbled
answer, or by a failure when there is a single try, and no step within a call
gets it out.

About `SubManager`: `SubTypeCorrect` (`TypeOK`), `DanglesOnlyWhenLost`
(`SafeUntilLost`), `ConnectReports` (`FailureIsReported`) and `UninitIsLast`
(`UninitAfterConnect`). As long as the wait of `uninit()` is undisturbed,
`running` says whether a thread is in `connect()`, an owner asleep has one to
wait for and an owner that was woken has none (`ThreadsAgree`), a context is
left dangling by a lost connection alone, and `status` is -1 if and only if the
callbacks last reported a failure (`FailureKnown`): on entry to `connect()` that is
the outcome of an earlier connection.

About `Serializer`, for every even base and any widths:

| theorem | says |
|---|---|
| `RecordReadBack` | `deserialize` of the string of a record gives the record, for any number of fields |
| `RecordMadeBack` | a string that `deserialize` accepts is the one `serialize` makes of the values it returned |
| `StringsInOrder` | strings of records of numbers are ordered as the records, for any number of fields |
| `RecordsAreInverted`, `NumbersKeepOrder` | `DeserializeInverts` and `OrderPreserved`, of the program the run checks |

These are inductions over data. Lemmas that take a predicate as a parameter are
of no use to the provers, but one that takes a set is: `Induction` says that a
set of numbers that has 0 and with each number the next has them all, and
follows from the library's well-founded `<` on the natural numbers. `Recursion`
takes a step function and shows that a function defined step by step exists;
without that nothing at all is known of a recursive definition. From there on
the argument is arithmetic. The quotients of a number by the powers of the base
(`Leading`) are what the loops of the code have gone through after each digit:
that gives `NumberOfDigits` and `DigitsOfNumber`, and with the first quotient in
which two numbers differ, `DigitsInOrder`. `NumberAsDigits` shows that flipping
the top bit only adds half the range, so that it keeps the order and is undone by
the cast. `ValueReadBack` and `ValueMadeBack` are one field with anything before
and behind it; the theorems put fields one after the other, the converse of the
order from `Lexicographic`: of two different strings of one length exactly one is
before the other. `ConversionInv` carries all this to the program: a string that
goes with a record is the record's.

**`LoggerProofs`**: `EarlyTestAgrees` (`FlagsFollowLevels`): a call of `set_level`
that runs alone has, at each step, the maximum and the flags right as far as it
has got. `BatchesAreWhole` (`BatchStaysTogether`): who gives messages holds the
lock, a shared holder gives one, and the messages of an exclusive holder are the
last in every sink that has some.

## 7. Only model-checked

- All liveness properties (`CallsEnd`, `StopReturns`, `TasksEnd`,
  `ForceStopReturns`, `WaitEnds`, `LinesArrive`, `UninitReturns`), which are outside
  the prover's reach.
- What the two violated properties show, which needs no proof.

## 8. Not modelled

- The conversion of values to and from SQLite types.
- LRU over Redis. `algo_lru_redis.cpp` is the text of `algo_lru_sqlite.cpp` and
  calls no Redis; in `db_redis_lru.h` the constructor asks for an `int` reply,
  for which `reply_proc` has no branch, so it throws; `insert_lru` returns after
  its EXISTS and `update_lru` is empty.
- The line parser: a function of one line without state. A line without `{` makes
  `substr` throw `out_of_range`, and the branch for a number beyond 64 bits
  cannot be reached (`parser.cpp:29-32`).
- Configuration: read once and validated, no state afterwards. The comment at
  `config_checker.h:41` allows an absolute or relative path, the expression
  below it only an absolute one.
- The file-system monitor: an interface without an implementation.
- `redis_sub_demo.cpp`: a demonstration without callers.
- In `AsyncDeleter` the result of `remove_all`; in `Purger` the request itself; in
  `RedisClient` the conversion of replies; in `SubManager` the same, which keeps
  nothing in the object (`command_callback`), what hiredis does when
  two threads are inside it at once, and a second thread that connects; in
  `Logger` formatting, flushing, and types other than the console or both. What
  the user's callbacks do is left out: they are assumed to return and to call
  nothing back.
- A second thread calling `stop()` of the purger or the deleter.
