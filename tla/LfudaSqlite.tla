---------------------------- MODULE LfudaSqlite ----------------------------
(***************************************************************************)
(* The LFUDA manager over SQLite: class LFUDA of algo_lfuda_sqlite.cpp     *)
(* with the table cacheLFUDA and the row metaLFUDA (db_sqlite_lfuda.h).    *)
(*                                                                         *)
(* An entry's value `eff' is its use count plus the aging factor at its    *)
(* last use; the entry of least value is evicted and its value becomes the *)
(* aging factor, so that entries that were popular long ago give way.      *)
(* Statements, calls and faults are laid out as in LruSqlite: one action   *)
(* is one autocommitted statement and the assignments that follow it.      *)
(***************************************************************************)
EXTENDS DiskUsage

CONSTANTS Keys, NoKey,
          Sizes,      \* file sizes
          Limits,     \* values given to max_size
          Times,      \* access times found in the log
          MaxFreq,    \* bound on the use count of an entry
          MaxAging,   \* bound on the aging factor at which entries enter
          MaxFaults   \* bound on crashes and failed statements

ASSUME LfudaAssumption == /\ NoKey \notin Keys
                          /\ Sizes \subseteq Nat \ {0} /\ Limits \subseteq Nat \ {0}
                          /\ Times \subseteq Nat
                          /\ MaxFreq \in Nat /\ MaxAging \in Nat /\ MaxFaults \in Nat

VARIABLES
  rows,       \* cacheLFUDA: the keys that have a row,
  size,       \* its size (0 without a row),
  stat,       \* and its [timestamp, freq, eff] (zeros without a row)
  disk,       \* metaLFUDA, the row written by backup()
  meta,       \* meta_lfuda, the copy in memory
  pc,         \* "down", "new" (constructed), "idle", "evict" or "commit"
  op,         \* the call in progress
  removed,    \* remove_cache's batch, not yet given to remove_callback
  files,      \* files of accepted calls that no callback has ordered deleted
  faults

vars == <<rows, size, stat, disk, meta, pc, op, removed, files, faults>>

Meta == [cache_size : Nat, max_size : Nat, global_aging : Nat]
ZeroMeta == [cache_size |-> 0, max_size |-> 0, global_aging |-> 0]

Stat == [timestamp : Nat, freq : Nat, eff : Nat]
ZeroStat == [timestamp |-> 0, freq |-> 0, eff |-> 0]

Op == [kind : {"none", "insert", "update", "trim"}, key : Keys \union {NoKey},
       size : Nat, time : Nat, required : Nat, evicted : BOOLEAN]
Call(kind, k, s, t, required) ==
  [kind |-> kind, key |-> k, size |-> s, time |-> t, required |-> required, evicted |-> FALSE]
NoOp == Call("none", NoKey, 0, 0, 0)

Init ==
  /\ rows = {} /\ size = [k \in Keys |-> 0] /\ stat = [k \in Keys |-> ZeroStat]
  /\ \E max \in Limits :
       disk = [cache_size |-> 0, max_size |-> max, global_aging |-> 0]
  /\ meta = ZeroMeta /\ pc = "down" /\ op = NoOp /\ removed = {} /\ files = {} /\ faults = 0

-----------------------------------------------------------------------------
\* ORDER BY eff ASC, freq ASC, timestamp ASC, size ASC: the rows that may
\* come first.  Between rows equal in all four SQLite's choice is open.
Rank(k) == <<stat[k].eff, stat[k].freq, stat[k].timestamp, size[k]>>
Precedes(a, b) == \E i \in DOMAIN a : a[i] < b[i] /\ \A h \in 1 .. (i - 1) : a[h] = b[h]

Worst(k) == k \in rows /\ \A j \in rows : ~Precedes(Rank(j), Rank(k))

Over == meta.cache_size + op.required > meta.max_size
Running == pc \in {"idle", "evict", "commit"}

Begin(call) == pc' = "evict" /\ op' = call
Return == pc' = "idle" /\ op' = NoOp /\ removed' = {}
RemoveCallback(batch) == files' = files \ batch

Stop == /\ pc' = "down" /\ meta' = ZeroMeta /\ op' = NoOp /\ removed' = {}
        /\ UNCHANGED <<rows, size, stat, files>>

-----------------------------------------------------------------------------
(* Life of the object.                                                     *)

Construct == /\ pc = "down" /\ pc' = "new"
             /\ UNCHANGED <<rows, size, stat, disk, meta, op, removed, files, faults>>

\* init() looks at the row of least value, and at no counter of uses.
Accepts(m) ==
  /\ m.max_size # 0
  /\ IF rows = {} THEN m.cache_size = 0 ELSE \E k \in rows : Worst(k) /\ size[k] <= m.cache_size

InitAccept ==
  /\ pc = "new" /\ Accepts(disk)
  /\ meta' = disk
  /\ IF disk.cache_size > disk.max_size
       THEN Begin(Call("trim", NoKey, 0, 0, 0))
       ELSE pc' = "idle" /\ op' = op
  /\ UNCHANGED <<rows, size, stat, disk, removed, files, faults>>

InitRefuse == /\ pc = "new" /\ ~Accepts(disk) /\ meta # disk
              /\ meta' = disk
              /\ UNCHANGED <<rows, size, stat, disk, pc, op, removed, files, faults>>

\* The destructor saves meta_lfuda also when init() threw before reading it.
DestroyUninitialised ==
  /\ pc = "new" /\ disk' = meta
  /\ faults' = (IF meta = disk THEN faults ELSE faults + 1) /\ faults' <= MaxFaults
  /\ Stop

Backup == /\ pc = "idle" /\ disk' = meta
          /\ UNCHANGED <<rows, size, stat, meta, pc, op, removed, files, faults>>

Close == pc = "idle" /\ disk' = meta /\ Stop /\ UNCHANGED faults

-----------------------------------------------------------------------------
(* Calls.                                                                  *)

ValidSize(s) == s # 0 /\ s <= meta.max_size
MaxTime(s, t) == IF s > t THEN s ELSE t

\* Mutant: only the use count is advanced.
RenewedFreqOnly(k, t) ==
  /\ stat[k].freq < MaxFreq
  /\ stat' = [stat EXCEPT ![k].timestamp = MaxTime(@, t), ![k].freq = @ + 1,
                          ![k].eff = stat[k].freq + 1]
  /\ UNCHANGED <<rows, size, disk, meta, removed, faults>>

\* UPDATE cacheLFUDA SET timestamp, freq, eff: a time before the last access
\* is corrected to it.
Renewed(k, t) ==
  /\ stat[k].freq < MaxFreq
  /\ stat' = [stat EXCEPT ![k].timestamp = MaxTime(@, t), ![k].freq = @ + 1,
                          ![k].eff = stat[k].freq + 1 + meta.global_aging]
  /\ UNCHANGED <<rows, size, disk, meta, removed, faults>>

PutAbsent(k, s, t) ==
  /\ pc = "idle" /\ k \notin rows /\ ValidSize(s) /\ meta.global_aging < MaxAging
  /\ Begin(Call("insert", k, s, t, s))
  /\ files' = files \union {k}
  /\ UNCHANGED <<rows, size, stat, disk, meta, removed, faults>>

PutPresent(k, s, t) ==
  /\ pc = "idle" /\ k \in rows /\ ValidSize(s)
  /\ Renewed(k, t)
  /\ IF s > size[k] THEN Begin(Call("update", k, s, t, s - size[k]))
                    ELSE UNCHANGED <<pc, op>>
  /\ UNCHANGED files

Renew(k, t) == pc = "idle" /\ k \in rows /\ Renewed(k, t) /\ UNCHANGED <<pc, op, files>>

Update(k, s) ==
  /\ pc = "idle" /\ k \in rows /\ ValidSize(s) /\ s # size[k]
  /\ IF s > size[k] THEN Begin(Call("update", k, s, 0, s - size[k]))
                    ELSE pc' = "commit" /\ op' = Call("update", k, s, 0, 0)
  /\ UNCHANGED <<rows, size, stat, disk, meta, removed, files, faults>>

Resize(max) == /\ pc = "idle" /\ meta' = [meta EXCEPT !.max_size = max]
               /\ Begin(Call("trim", NoKey, 0, 0, 0))
               /\ UNCHANGED <<rows, size, stat, disk, removed, files, faults>>

-----------------------------------------------------------------------------
(* remove_cache.                                                           *)

Delete(k) == /\ rows' = rows \ {k}
             /\ size' = [size EXCEPT ![k] = 0]
             /\ stat' = [stat EXCEPT ![k] = ZeroStat]

\* Mutant: the aging factor grows by the victim's value.
EvictAccumulating(k) ==
  /\ pc = "evict" /\ Over /\ Worst(k) /\ meta.cache_size >= size[k]
  /\ Delete(k)
  /\ meta' = [meta EXCEPT !.cache_size = @ - size[k], !.global_aging = @ + stat[k].eff]
  /\ removed' = removed \union {k}
  /\ op' = IF k = op.key THEN [op EXCEPT !.evicted = TRUE] ELSE op
  /\ UNCHANGED <<disk, pc, files, faults>>

\* Mutant: the victim's entry is not appended to the batch.
EvictSilently(k) ==
  /\ pc = "evict" /\ Over /\ Worst(k) /\ meta.cache_size >= size[k]
  /\ Delete(k)
  /\ meta' = [meta EXCEPT !.cache_size = @ - size[k], !.global_aging = stat[k].eff]
  /\ op' = IF k = op.key THEN [op EXCEPT !.evicted = TRUE] ELSE op
  /\ UNCHANGED <<disk, pc, removed, files, faults>>

EvictWorst(k) ==
  /\ pc = "evict" /\ Over /\ Worst(k)
  /\ meta.cache_size >= size[k]
  /\ Delete(k)
  /\ meta' = [meta EXCEPT !.cache_size = @ - size[k], !.global_aging = stat[k].eff]
  /\ removed' = removed \union {k}
  /\ op' = IF k = op.key THEN [op EXCEPT !.evicted = TRUE] ELSE op
  /\ UNCHANGED <<disk, pc, files, faults>>

EvictUnderflow(k) ==
  /\ pc = "evict" /\ Over /\ Worst(k)
  /\ meta.cache_size < size[k]
  /\ Delete(k) /\ RemoveCallback(removed \union {k}) /\ Return
  /\ UNCHANGED <<disk, meta, faults>>

EvictEmpty == /\ pc = "evict" /\ Over /\ rows = {}
              /\ RemoveCallback(removed) /\ Return
              /\ UNCHANGED <<rows, size, stat, disk, meta, faults>>

\* Mutant: update_size does not look at the flag.
EvictDoneUnmarked ==
  /\ pc = "evict" /\ ~Over
  /\ RemoveCallback(removed)
  /\ IF op.kind = "trim" THEN Return
                         ELSE pc' = "commit" /\ removed' = {} /\ UNCHANGED op
  /\ UNCHANGED <<rows, size, stat, disk, meta, faults>>

EvictDone ==
  /\ pc = "evict" /\ ~Over
  /\ RemoveCallback(removed)
  /\ IF op.kind = "trim" \/ op.evicted
       THEN Return
       ELSE pc' = "commit" /\ removed' = {} /\ UNCHANGED op
  /\ UNCHANGED <<rows, size, stat, disk, meta, faults>>

-----------------------------------------------------------------------------
(* The last statement of put() and of update_size().                       *)

Insert ==
  /\ pc = "commit" /\ op.kind = "insert"
  /\ rows' = rows \union {op.key}
  /\ size' = [size EXCEPT ![op.key] = op.size]
  /\ stat' = [stat EXCEPT ![op.key] = [timestamp |-> op.time, freq |-> 1,
                                       eff |-> meta.global_aging + 1]]
  /\ meta' = [meta EXCEPT !.cache_size = @ + op.size]
  /\ Return /\ UNCHANGED <<disk, files, faults>>

Resized == [meta EXCEPT !.cache_size = @ - size[op.key] + op.size]

UpdateContent ==
  /\ pc = "commit" /\ op.kind = "update" /\ meta.cache_size >= size[op.key]
  /\ meta' = Resized
  /\ size' = [size EXCEPT ![op.key] = op.size]
  /\ Return /\ UNCHANGED <<rows, stat, disk, files, faults>>

UpdateUnderflow ==
  /\ pc = "commit" /\ op.kind = "update" /\ meta.cache_size < size[op.key]
  /\ Return /\ UNCHANGED <<rows, size, stat, disk, meta, files, faults>>

-----------------------------------------------------------------------------
(* Faults.                                                                 *)

Fault == faults < MaxFaults /\ faults' = faults + 1

DeleteFails == /\ pc = "evict" /\ Over /\ Fault /\ Return
               /\ UNCHANGED <<rows, size, stat, disk, meta, files>>

InsertFails == /\ pc = "commit" /\ op.kind = "insert" /\ Fault /\ Return
               /\ UNCHANGED <<rows, size, stat, disk, meta, files>>

UpdateFails == /\ pc = "commit" /\ op.kind = "update" /\ Fault
               /\ meta.cache_size >= size[op.key] /\ meta' = Resized
               /\ Return /\ UNCHANGED <<rows, size, stat, disk, files>>

Crash == pc # "down" /\ Fault /\ Stop /\ UNCHANGED disk

-----------------------------------------------------------------------------
Lifecycle == Construct \/ InitAccept \/ InitRefuse \/ DestroyUninitialised \/ Backup \/ Close

CallStep == \/ \E k \in Keys, s \in Sizes, t \in Times : PutAbsent(k, s, t) \/ PutPresent(k, s, t)
            \/ \E k \in Keys, t \in Times : Renew(k, t)
            \/ \E k \in Keys, s \in Sizes : Update(k, s)
            \/ \E max \in Limits : Resize(max)

Continue == \/ \E k \in Keys : EvictWorst(k) \/ EvictUnderflow(k)
            \/ EvictEmpty \/ EvictDone \/ Insert \/ UpdateContent \/ UpdateUnderflow

FaultStep == DeleteFails \/ InsertFails \/ UpdateFails \/ Crash

Next == Lifecycle \/ CallStep \/ Continue \/ FaultStep

Spec == Init /\ [][Next]_vars /\ WF_vars(Continue)

-----------------------------------------------------------------------------
(* Properties.                                                             *)

\* The aging factor never passes the value of an entry that is still cached,
\* neither the one in memory nor the one saved: a new entry, which enters one
\* above it, is never worse than one that should have left before, also when
\* a crash has set the factor back (algo_lfuda_sqlite.cpp:53, 88, 135).
AgingIsFloor ==
  \A k \in rows : /\ disk.global_aging <= stat[k].eff
                  /\ Running => meta.global_aging <= stat[k].eff

\* Without faults a use always raises the value of an entry.  (After a crash
\* the factor may be an older one, and a use can lower the value.)
\* (algo_lfuda_sqlite.cpp:78-92)
UseRaisesValue ==
  [][faults = 0 => \A k \in rows \intersect rows' :
       stat'[k].freq > stat[k].freq => stat'[k].eff > stat[k].eff]_vars

\* How far the running total is from the bytes in the table.
Drift == meta.cache_size - Usage(rows, size)
\* Without faults the total is exact, the cache fits its limit between calls,
\* and no call can end in a "db error" exception; the flag of remove_cache is
\* what keeps update_size off a row it has just evicted, which unlike with
\* LRU can happen to a put() as well (algo_lfuda_sqlite.cpp:69-72, 150-169).
Fits ==
  faults = 0 /\ Running =>
    /\ Drift = 0
    /\ pc = "idle" => meta.cache_size <= meta.max_size
    /\ pc = "evict" /\ Over => rows # {}
    /\ pc = "commit" => (op.key \in rows) = (op.kind = "update")

\* A row that leaves the table takes its file with it: only a crash or a
\* failed statement loses a batch, and otherwise only the file of a put()
\* that ends in an exception stays behind (algo_lfuda_sqlite.cpp:129, 136-139,
\* 146).
Pending == IF op.kind = "insert" THEN {op.key} ELSE {}
Orphans == files \ (rows \union removed \union Pending)
BatchIsDelivered == [][faults' = faults => Orphans' \subseteq Orphans \union Pending]_vars
=============================================================================
