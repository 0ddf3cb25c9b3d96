---------------------------- MODULE LfudaMemory ----------------------------
(***************************************************************************)
(* The LFUDA manager that lives in memory (algo_lfuda.cpp): a set of       *)
(* entries ordered by value, time and size, and a map from each key to its *)
(* place in it.  One thread calls it and nothing in it fails, so a call is *)
(* one action.  The set and the map are always changed together.           *)
(***************************************************************************)
EXTENDS DiskUsage, FiniteSetsExt

CONSTANTS Keys,
          Sizes,     \* file sizes
          Limits,    \* values of max_size
          Times,     \* access times found in the log
          MaxFreq,   \* bound on the use count of an entry
          MaxAging   \* bound on the aging factor at which entries enter

VARIABLES
  entries,     \* the keys that have an entry
  size, stat,  \* its size and [timestamp, freq, eff] (zeros without one)
  cache_size, max_size, aging,
  saved,       \* what backup() returned, until the manager is used again
  undefined    \* an iterator that points at no entry was used

vars == <<entries, size, stat, cache_size, max_size, aging, saved, undefined>>

ZeroStat == [timestamp |-> 0, freq |-> 0, eff |-> 0]
NoSizes == [k \in Keys |-> 0]
NoStats == [k \in Keys |-> ZeroStat]
Empty == [entries |-> {}, size |-> NoSizes, stat |-> NoStats, aging |-> 0]

Init == /\ entries = {} /\ size = NoSizes /\ stat = NoStats
        /\ cache_size = 0 /\ max_size \in Limits /\ aging = 0
        /\ saved = Empty /\ undefined = FALSE

-----------------------------------------------------------------------------
\* Cache::operator<; the keys themselves, which come last, are left open.
Precedes(j, k) ==
  \/ stat[j].eff < stat[k].eff
  \/ stat[j].eff = stat[k].eff /\ stat[j].timestamp < stat[k].timestamp
  \/ stat[j].eff = stat[k].eff /\ stat[j].timestamp = stat[k].timestamp /\ size[j] < size[k]

\* What remove_cache may evict to bring the total down to `bytes': a
\* beginning of the order, everything or enough, and not more than enough.
LastOf(gone) == {v \in gone : \A w \in gone : ~Precedes(v, w)}
Enough(gone, bytes) == cache_size - Usage(gone, size) <= bytes
Victims(bytes) ==
  {gone \in SUBSET entries :
     /\ \A v \in gone, k \in entries \ gone : ~Precedes(k, v)
     /\ gone = entries \/ Enough(gone, bytes)
     /\ gone = {} \/ \E v \in LastOf(gone) : ~Enough(gone \ {v}, bytes)}

\* Mutant: the factor grows by the victim's value.
AgingAdded(gone) == IF gone = {} THEN aging ELSE aging + Max({stat[v].eff : v \in gone})

\* The value of the last victim becomes the aging factor.
AgingAfter(gone) == IF gone = {} THEN aging ELSE Max({stat[v].eff : v \in gone})

SizesWithout(gone) == [k \in Keys |-> IF k \in gone THEN 0 ELSE size[k]]
StatsWithout(gone) == [k \in Keys |-> IF k \in gone THEN ZeroStat ELSE stat[k]]

PutAbsent(k, s, t) ==
  /\ k \notin entries /\ aging < MaxAging
  /\ \E gone \in Victims(max_size - s) :
       /\ entries' = (entries \ gone) \union {k}
       /\ aging' = AgingAfter(gone)
       /\ size' = [SizesWithout(gone) EXCEPT ![k] = s]
       /\ stat' = [StatsWithout(gone) EXCEPT ![k] = [timestamp |-> t, freq |-> 1, eff |-> aging' + 1]]
       /\ cache_size' = cache_size - Usage(gone, size) + s
  /\ saved' = Empty /\ UNCHANGED <<max_size, undefined>>

\* Mutant: the old size goes, the new one does not come.
UpdateSizeUnadded(k, s) ==
  /\ size' = [size EXCEPT ![k] = s] /\ cache_size' = cache_size - size[k]
  /\ UNCHANGED <<entries, stat, aging, undefined>>

\* update_size: the entry itself may be evicted to make room for its growth,
\* and the iterator then points at an erased one.
UpdateSize(k, s) ==
  \E gone \in (IF s > size[k] THEN Victims(max_size - (s - size[k])) ELSE {{}}) :
    /\ entries' = entries \ gone /\ undefined' = (k \in gone)
    /\ aging' = AgingAfter(gone)
    /\ size' = [SizesWithout(gone) EXCEPT ![k] = s] /\ stat' = StatsWithout(gone)
    /\ cache_size' = cache_size - Usage(gone, size) - size[k] + s

PutPresent(k, s) ==
  /\ k \in entries
  /\ IF s > size[k] THEN UpdateSize(k, s)
                    ELSE UNCHANGED <<entries, size, stat, cache_size, aging, undefined>>
  /\ UNCHANGED <<max_size, saved>>

Update(k, s) == /\ k \in entries /\ s # size[k] /\ UpdateSize(k, s)
                /\ UNCHANGED <<max_size, saved>>

\* The time is taken as it comes, earlier than the last one or not.
Renewed(k, t) == [timestamp |-> t, freq |-> stat[k].freq + 1, eff |-> stat[k].freq + 1 + aging]

Renew(k, t) == /\ k \in entries /\ stat[k].freq < MaxFreq
               /\ stat' = [stat EXCEPT ![k] = Renewed(k, t)]
               /\ UNCHANGED <<entries, size, cache_size, max_size, aging, saved, undefined>>

Resize(max) ==
  /\ max_size' = max
  /\ \E gone \in Victims(max) :
       /\ entries' = entries \ gone /\ aging' = AgingAfter(gone)
       /\ size' = SizesWithout(gone) /\ stat' = StatsWithout(gone)
       /\ cache_size' = cache_size - Usage(gone, size)
  /\ UNCHANGED <<saved, undefined>>

-----------------------------------------------------------------------------
\* backup() empties the manager, and returns the entries with the factor.
Backup == /\ entries # {}
          /\ saved' = [entries |-> entries, size |-> size, stat |-> stat, aging |-> aging]
          /\ entries' = {} /\ size' = NoSizes /\ stat' = NoStats /\ cache_size' = 0
          /\ UNCHANGED <<max_size, aging, undefined>>

\* init() of a manager that is new, or that has just been backed up.
Restore == /\ entries = {} /\ saved # Empty /\ saved' = Empty
           /\ entries' = saved.entries /\ size' = saved.size /\ stat' = saved.stat
           /\ aging' = saved.aging /\ cache_size' = Usage(saved.entries, saved.size)
           /\ UNCHANGED <<max_size, undefined>>

-----------------------------------------------------------------------------
Next == /\ ~undefined
        /\ \/ \E k \in Keys, s \in Sizes, t \in Times : PutAbsent(k, s, t)
           \/ \E k \in Keys, s \in Sizes : PutPresent(k, s) \/ Update(k, s)
           \/ \E k \in Keys, t \in Times : Renew(k, t)
           \/ \E max \in Limits : Resize(max)
           \/ Backup \/ Restore

Spec == Init /\ [][Next]_vars

-----------------------------------------------------------------------------
(* Properties.                                                             *)

\* The aging factor never passes the value of an entry, also over a backup:
\* whatever was evicted was worth no more than what stayed
\* (algo_lfuda.cpp:8-26, 41, 61, 94-95).
AgingIsFloor == ~undefined => \A k \in entries : aging <= stat[k].eff

\* Up to an undefined use the total is the sum of the sizes of the entries,
\* whatever was evicted, enlarged, saved and restored
\* (algo_lfuda.cpp:8-15, 41, 96, 106-116).
TotalIsExact == ~undefined => cache_size = Usage(entries, size)
=============================================================================
