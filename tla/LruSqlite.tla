----------------------------- MODULE LruSqlite -----------------------------
(***************************************************************************)
(* The LRU manager over SQLite: class LRU of algo_lru_sqlite.cpp with the  *)
(* table cacheLRU and the row metaLRU of SQLiteLRU (db_sqlite_lru.h).      *)
(*                                                                         *)
(* The table is changed one autocommitted statement at a time and survives *)
(* a crash; the totals `meta_lru' live in memory and reach the disk only   *)
(* in backup().  One action is one statement with the assignments to       *)
(* memory that follow it, so a crash or a failed statement can fall        *)
(* between any two statements of an operation.                             *)
(*                                                                         *)
(* A call that the code rejects before its first statement (empty key,     *)
(* size zero or above max_size, unknown key) changes nothing and is a      *)
(* stuttering step.                                                        *)
(***************************************************************************)
EXTENDS DiskUsage

CONSTANTS Keys,         \* keys Nginx may cache
          NoKey,        \* the empty string: "no entry" in a query's result
          Sizes,        \* file sizes
          Limits,       \* values given to max_size
          MaxSequence,  \* bound on the sequence counter
          MaxFaults     \* bound on crashes and failed statements

ASSUME LruAssumption == /\ NoKey \notin Keys
                        /\ Sizes \subseteq Nat \ {0}
                        /\ Limits \subseteq Nat \ {0}
                        /\ MaxSequence \in Nat
                        /\ MaxFaults \in Nat

VARIABLES
  rows,      \* cacheLRU: the keys that have a row ...
  size,      \* ... the size of each (0 without a row) ...
  sequence,  \* ... and its place in the LRU order (0 without a row)
  disk,      \* metaLRU, the row written by backup()
  meta,      \* meta_lru, the copy in memory
  pc,        \* "down", "new" (constructed), "idle", "evict" or "commit"
  op,        \* the call in progress: its arguments and remove_cache's flag
  removed,   \* remove_cache's batch, not yet given to remove_callback
  files,     \* files of accepted calls that no callback has ordered deleted
  unsaved,   \* keys inserted or renewed since the last backup()
  faults     \* crashes, failed statements and unclean destructions so far

table == <<rows, size, sequence>>
vars == <<rows, size, sequence, disk, meta, pc, op, removed, files, unsaved, faults>>

Meta == [cache_size : Nat, max_size : Nat, sequence : Nat]
ZeroMeta == [cache_size |-> 0, max_size |-> 0, sequence |-> 0]

Op == [kind : {"none", "insert", "put_update", "update", "trim"},
       key : Keys \union {NoKey}, size : Nat, required : Nat, evicted : BOOLEAN]
Call(kind, k, s, required) ==
  [kind |-> kind, key |-> k, size |-> s, required |-> required, evicted |-> FALSE]
NoOp == Call("none", NoKey, 0, 0)

\* The database was just created (SQLiteLRU::is_new) and given its meta row.
Init ==
  /\ rows = {} /\ size = [k \in Keys |-> 0] /\ sequence = [k \in Keys |-> 0]
  /\ \E max \in Limits :
       disk = [cache_size |-> 0, max_size |-> max, sequence |-> 0]
  /\ meta = ZeroMeta /\ pc = "down" /\ op = NoOp /\ removed = {}
  /\ files = {} /\ unsaved = {} /\ faults = 0

-----------------------------------------------------------------------------
\* Mutant: ORDER BY sequence DESC.
OldestDescending(k) == k \in rows /\ \A j \in rows : sequence[j] <= sequence[k]

Oldest(k) == k \in rows /\ \A j \in rows : sequence[k] <= sequence[j]
Newest(k) == k \in rows /\ \A j \in rows : sequence[j] <= sequence[k]
Over == meta.cache_size + op.required > meta.max_size
Running == pc \in {"idle", "evict", "commit"}

Begin(call) == pc' = "evict" /\ op' = call
Return == pc' = "idle" /\ op' = NoOp /\ removed' = {}
RemoveCallback(batch) == files' = files \ batch

\* The process is gone: what it had in memory is lost, the database is not.
Stop == /\ pc' = "down" /\ meta' = ZeroMeta /\ op' = NoOp /\ removed' = {}
        /\ UNCHANGED <<rows, size, sequence, files>>

-----------------------------------------------------------------------------
(* Life of the object.                                                     *)

Construct == /\ pc = "down" /\ pc' = "new"
             /\ UNCHANGED <<rows, size, sequence, disk, meta, op, removed, files, unsaved, faults>>

\* Mutant: the newest entry may be ahead of the saved counter.
AcceptsAhead(m) ==
  /\ m.max_size # 0
  /\ IF rows = {} THEN m.cache_size = 0
     ELSE \E k \in rows : Newest(k) /\ sequence[k] >= m.sequence /\ size[k] <= m.cache_size

\* Mutant: a limit of zero is accepted.
AcceptsUnlimited(m) ==
  IF rows = {} THEN m.cache_size = 0
  ELSE \E k \in rows : Newest(k) /\ sequence[k] = m.sequence /\ size[k] <= m.cache_size

\* The four checks of init() on the row of metaLRU and the newest entry.
Accepts(m) ==
  /\ m.max_size # 0
  /\ IF rows = {} THEN m.cache_size = 0
     ELSE \E k \in rows : Newest(k) /\ sequence[k] = m.sequence /\ size[k] <= m.cache_size

InitAccept ==
  /\ pc = "new" /\ Accepts(disk)
  /\ meta' = disk
  /\ IF disk.cache_size > disk.max_size
       THEN Begin(Call("trim", NoKey, 0, 0))
       ELSE pc' = "idle" /\ op' = op
  /\ UNCHANGED <<rows, size, sequence, disk, removed, files, unsaved, faults>>

\* init() throws; it has already overwritten meta_lru.
InitRefuse == /\ pc = "new" /\ ~Accepts(disk) /\ meta # disk
              /\ meta' = disk
              /\ UNCHANGED <<rows, size, sequence, disk, pc, op, removed, files, unsaved, faults>>

\* The destructor saves whatever meta_lru holds, also when init() threw
\* before reading it: then it overwrites the row with zeros.
DestroyUninitialised ==
  /\ pc = "new" /\ disk' = meta
  /\ faults' = (IF meta = disk THEN faults ELSE faults + 1) /\ faults' <= MaxFaults
  /\ Stop /\ UNCHANGED unsaved

\* backup(), also the only change display() makes.
Backup == /\ pc = "idle" /\ disk' = meta /\ unsaved' = {}
          /\ UNCHANGED <<rows, size, sequence, meta, pc, op, removed, files, faults>>

Close == /\ pc = "idle" /\ disk' = meta /\ unsaved' = {}
         /\ Stop /\ UNCHANGED faults

-----------------------------------------------------------------------------
(* Calls.                                                                  *)

ValidSize(s) == s # 0 /\ s <= meta.max_size

\* Mutant: the counter is not advanced with the row.
RenewedInPlace(k) == /\ sequence' = [sequence EXCEPT ![k] = meta.sequence + 1]
                     /\ unsaved' = unsaved \union {k}
                     /\ UNCHANGED <<rows, size, disk, meta, removed, faults>>

\* UPDATE cacheLRU SET sequence = meta.sequence + 1, then sequence++.
Renewed(k) == /\ sequence' = [sequence EXCEPT ![k] = meta.sequence + 1]
              /\ meta' = [meta EXCEPT !.sequence = @ + 1]
              /\ unsaved' = unsaved \union {k}
              /\ UNCHANGED <<rows, size, disk, removed, faults>>

PutAbsent(k, s) ==
  /\ pc = "idle" /\ k \notin rows /\ ValidSize(s) /\ meta.sequence < MaxSequence
  /\ Begin(Call("insert", k, s, s))
  /\ files' = files \union {k}
  /\ UNCHANGED <<rows, size, sequence, disk, meta, removed, unsaved, faults>>

\* A key that is already cached is renewed, and keeps the larger size.
PutPresent(k, s) ==
  /\ pc = "idle" /\ k \in rows /\ ValidSize(s) /\ meta.sequence < MaxSequence
  /\ Renewed(k)
  /\ IF s > size[k] THEN Begin(Call("put_update", k, s, s - size[k]))
                    ELSE UNCHANGED <<pc, op>>
  /\ UNCHANGED files

Renew(k) == /\ pc = "idle" /\ k \in rows /\ meta.sequence < MaxSequence
            /\ Renewed(k) /\ UNCHANGED <<pc, op, files>>

\* update(): growing makes room first, shrinking does not.
Update(k, s) ==
  /\ pc = "idle" /\ k \in rows /\ ValidSize(s) /\ s # size[k]
  /\ IF s > size[k] THEN Begin(Call("update", k, s, s - size[k]))
                    ELSE pc' = "commit" /\ op' = Call("update", k, s, 0)
  /\ UNCHANGED <<rows, size, sequence, disk, meta, removed, files, unsaved, faults>>

Resize(max) == /\ pc = "idle" /\ meta' = [meta EXCEPT !.max_size = max]
               /\ Begin(Call("trim", NoKey, 0, 0))
               /\ UNCHANGED <<rows, size, sequence, disk, removed, files, unsaved, faults>>

-----------------------------------------------------------------------------
(* remove_cache: delete the oldest rows until `required' more bytes fit.   *)

Delete(k) == /\ rows' = rows \ {k}
             /\ size' = [size EXCEPT ![k] = 0]
             /\ sequence' = [sequence EXCEPT ![k] = 0]

\* Mutant: the entry is not taken off the total.
EvictUncounted(k) ==
  /\ pc = "evict" /\ Over /\ Oldest(k) /\ meta.cache_size >= size[k]
  /\ Delete(k) /\ removed' = removed \union {k}
  /\ op' = IF k = op.key THEN [op EXCEPT !.evicted = TRUE] ELSE op
  /\ UNCHANGED <<disk, meta, pc, files, unsaved, faults>>

\* Mutant: the total is not compared with the entry's size first.
EvictUnchecked(k) ==
  /\ pc = "evict" /\ Over /\ Oldest(k)
  /\ Delete(k)
  /\ meta' = [meta EXCEPT !.cache_size = @ - size[k]]
  /\ removed' = removed \union {k}
  /\ op' = IF k = op.key THEN [op EXCEPT !.evicted = TRUE] ELSE op
  /\ UNCHANGED <<disk, pc, files, unsaved, faults>>

EvictOldest(k) ==
  /\ pc = "evict" /\ Over /\ Oldest(k)
  /\ meta.cache_size >= size[k]
  /\ Delete(k)
  /\ meta' = [meta EXCEPT !.cache_size = @ - size[k]]
  /\ removed' = removed \union {k}
  /\ op' = IF k = op.key THEN [op EXCEPT !.evicted = TRUE] ELSE op
  /\ UNCHANGED <<disk, pc, files, unsaved, faults>>

\* Mutant: the batch is handed over before the entry is appended to it.
EvictUnderflowEarly(k) ==
  /\ pc = "evict" /\ Over /\ Oldest(k) /\ meta.cache_size < size[k]
  /\ Delete(k) /\ RemoveCallback(removed) /\ Return
  /\ UNCHANGED <<disk, meta, unsaved, faults>>

\* The total is smaller than the entry just deleted: throw.
EvictUnderflow(k) ==
  /\ pc = "evict" /\ Over /\ Oldest(k)
  /\ meta.cache_size < size[k]
  /\ Delete(k) /\ RemoveCallback(removed \union {k}) /\ Return
  /\ UNCHANGED <<disk, meta, unsaved, faults>>

\* Mutant: an empty result is treated as an entry of size zero.
EvictEmptyAgain == pc = "evict" /\ Over /\ rows = {} /\ UNCHANGED vars

\* Nothing is left to delete and the total still says there is: throw.
EvictEmpty == /\ pc = "evict" /\ Over /\ rows = {}
              /\ RemoveCallback(removed) /\ Return
              /\ UNCHANGED <<rows, size, sequence, disk, meta, unsaved, faults>>

\* Mutant: update_size does not look at the flag.
EvictDoneUnmarked ==
  /\ pc = "evict" /\ ~Over
  /\ RemoveCallback(removed)
  /\ IF op.kind = "trim" THEN Return
                         ELSE pc' = "commit" /\ removed' = {} /\ UNCHANGED op
  /\ UNCHANGED <<rows, size, sequence, disk, meta, unsaved, faults>>

\* Room enough: hand over the batch and go on, unless there is nothing to do
\* or update_size's own entry was in the batch.
EvictDone ==
  /\ pc = "evict" /\ ~Over
  /\ RemoveCallback(removed)
  /\ IF op.kind = "trim" \/ op.evicted
       THEN Return
       ELSE pc' = "commit" /\ removed' = {} /\ UNCHANGED op
  /\ UNCHANGED <<rows, size, sequence, disk, meta, unsaved, faults>>

-----------------------------------------------------------------------------
(* The last statement of put() and of update_size().                       *)

Insert ==
  /\ pc = "commit" /\ op.kind = "insert"
  /\ rows' = rows \union {op.key}
  /\ size' = [size EXCEPT ![op.key] = op.size]
  /\ sequence' = [sequence EXCEPT ![op.key] = meta.sequence + 1]
  /\ meta' = [meta EXCEPT !.sequence = @ + 1, !.cache_size = @ + op.size]
  /\ unsaved' = unsaved \union {op.key}
  /\ Return /\ UNCHANGED <<disk, files, faults>>

\* meta_lru.cache_size as update_size computes it, before its statement.
Resized == [meta EXCEPT !.cache_size = @ - size[op.key] + op.size]

UpdateContent ==
  /\ pc = "commit" /\ op.kind # "insert" /\ meta.cache_size >= size[op.key]
  /\ meta' = Resized
  /\ size' = [size EXCEPT ![op.key] = op.size]
  /\ Return /\ UNCHANGED <<rows, sequence, disk, files, unsaved, faults>>

UpdateUnderflow ==
  /\ pc = "commit" /\ op.kind # "insert" /\ meta.cache_size < size[op.key]
  /\ Return /\ UNCHANGED <<rows, size, sequence, disk, meta, files, unsaved, faults>>

-----------------------------------------------------------------------------
(* Faults.                                                                 *)

Fault == faults < MaxFaults /\ faults' = faults + 1

\* A statement fails and SQLiteError leaves the call.  A failed DELETE loses
\* the batch collected so far; a failed UPDATE of the size comes after
\* meta_lru was changed.  (A failed statement of any other call, or of an
\* operation that has none before, changes nothing.)
DeleteFails == /\ pc = "evict" /\ Over /\ Fault /\ Return
               /\ UNCHANGED <<rows, size, sequence, disk, meta, files, unsaved>>

InsertFails == /\ pc = "commit" /\ op.kind = "insert" /\ Fault /\ Return
               /\ UNCHANGED <<rows, size, sequence, disk, meta, files, unsaved>>

UpdateFails == /\ pc = "commit" /\ op.kind # "insert" /\ Fault
               /\ meta.cache_size >= size[op.key] /\ meta' = Resized
               /\ Return
               /\ UNCHANGED <<rows, size, sequence, disk, files, unsaved>>

Crash == pc # "down" /\ Fault /\ Stop /\ UNCHANGED <<disk, unsaved>>

-----------------------------------------------------------------------------
Lifecycle == Construct \/ InitAccept \/ InitRefuse \/ DestroyUninitialised \/ Backup \/ Close

CallStep == \/ \E k \in Keys, s \in Sizes : PutAbsent(k, s) \/ PutPresent(k, s) \/ Update(k, s)
            \/ \E k \in Keys : Renew(k)
            \/ \E max \in Limits : Resize(max)

Continue == \/ \E k \in Keys : EvictOldest(k) \/ EvictUnderflow(k)
            \/ EvictEmpty \/ EvictDone \/ Insert \/ UpdateContent \/ UpdateUnderflow

FaultStep == DeleteFails \/ InsertFails \/ UpdateFails \/ Crash

Next == Lifecycle \/ CallStep \/ Continue \/ FaultStep

\* A call, once begun, runs to its end in the thread that made it.
Spec == Init /\ [][Next]_vars /\ WF_vars(Continue)

-----------------------------------------------------------------------------
(* Properties.                                                             *)

\* Every variable holds a value of its type; totals stay natural numbers,
\* that is, no subtraction on a size_t of the code ever wraps around
\* (algo_lru_sqlite.cpp:155 and 180).
TypeOK ==
  /\ rows \subseteq Keys /\ size \in [Keys -> Nat] /\ sequence \in [Keys -> Nat]
  /\ disk \in Meta /\ meta \in Meta
  /\ pc \in {"down", "new", "idle", "evict", "commit"} /\ op \in Op
  /\ removed \subseteq Keys /\ files \subseteq Keys /\ unsaved \subseteq Keys
  /\ faults \in Nat

\* While the manager runs, the counter in memory is the sequence of the
\* newest row and no two rows share one, whatever crashes and failures came
\* before: so sequence + 1 is free, the UNIQUE constraint is never violated
\* and the order of the table is the order of use ("We must increase
\* meta.sequence every time!", algo_lru_sqlite.cpp:118).
SequenceOrder ==
  /\ \A j, k \in rows : sequence[j] = sequence[k] => j = k
  /\ Running /\ rows # {} => \E k \in rows : Newest(k) /\ sequence[k] = meta.sequence

\* A restart is accepted only if no insertion or renewal since the last
\* backup() is still in the table: a crash that lost the counters after such
\* a call is always noticed by init() (algo_lru_sqlite.cpp:23-34).
LossIsNoticed == [][InitAccept => unsaved \intersect rows = {}]_vars

\* How far the running total is from the bytes in the table.
Drift == meta.cache_size - Usage(rows, size)

\* The total follows the table: no step of a running manager except a failed
\* statement, or an entry larger than the whole total, moves one without the
\* other (algo_lru_sqlite.cpp:66-67, 155-157, 180-187).
TotalFollowsTable ==
  [][Running /\ Running' /\ faults' = faults /\ (\A k \in rows : Oldest(k) => meta.cache_size >= size[k])
       => Drift' = Drift]_vars

\* Without faults the total is exact, and between calls the cache fits: its
\* bytes never exceed max_size (algo_lru_sqlite.cpp:143-169).
Fits == faults = 0 /\ Running => /\ Drift = 0
                                 /\ pc = "idle" => meta.cache_size <= meta.max_size

\* Without faults no call can end in one of the "db error" exceptions: the
\* eviction loop never runs dry or below zero, and the row a statement needs
\* is there, or absent, as it needs it (algo_lru_sqlite.cpp:62-64, 150-161,
\* 182-189).
NoDbError ==
  faults = 0 =>
    /\ pc = "evict" /\ Over => /\ rows # {}
                               /\ \A k \in rows : Oldest(k) => size[k] <= meta.cache_size
    /\ pc = "commit" => IF op.kind = "insert"
                         THEN op.key \notin rows
                         ELSE op.key \in rows /\ size[op.key] <= meta.cache_size

\* put() of a cached key never evicts that key to make room for its own
\* larger size: it was renewed first (algo_lru_sqlite.cpp:75-82).
PutKeepsItsKey == faults = 0 /\ op.kind = "put_update" => op.key \in rows /\ ~op.evicted

\* Files Nginx keeps that no row, batch or pending insertion answers for.
Pending == IF op.kind = "insert" THEN {op.key} ELSE {}
Orphans == files \ (rows \union removed \union Pending)

\* Every row has its file, and without faults every file has its row or is
\* on its way out (algo_lru_sqlite.cpp:157, 167).
FilesMatch == /\ rows \union removed \subseteq files
              /\ faults = 0 => Orphans = {}

\* Also after faults, a row that leaves the table takes its file with it:
\* only a crash or a failed statement loses a batch, and otherwise only the
\* file of a put() that ends in an exception stays behind
\* (algo_lru_sqlite.cpp:151, 159-160, 167).
BatchIsDelivered == [][faults' = faults => Orphans' \subseteq Orphans \union Pending]_vars

\* Seen through its table the manager is an LRU cache: through crashes,
\* restarts and failed statements the only key that leaves is the one used
\* longest ago (algo_lru_sqlite.cpp:61, 105, 148).
Older == {p \in rows \X rows : sequence[p[1]] < sequence[p[2]]}
Recency == INSTANCE RecencyCache WITH cached <- rows, older <- Older
IsRecencyCache == Recency!Spec

\* Every call ends, by returning or throwing, unless the process dies: the
\* eviction loop terminates even when the total is wrong
\* (algo_lru_sqlite.cpp:147-165).
CallsEnd == pc \in {"evict", "commit"} ~> pc \in {"idle", "down"}
=============================================================================
