----------------------------- MODULE LruMemory -----------------------------
(***************************************************************************)
(* The LRU manager that lives in memory (algo_lru.cpp): a list of entries, *)
(* most recently used first, and a map from each key to its place in it.   *)
(* One thread calls it and nothing in it fails, so a call is one action.   *)
(* The map and the list are always changed together; the map is the        *)
(* function from the keys of the list to their places.                     *)
(***************************************************************************)
EXTENDS DiskUsage, Sequences, FiniteSetsExt, Functions

CONSTANTS Keys, NoKey,
          Sizes,    \* file sizes
          Limits,   \* values of max_size
          MaxUses   \* bound on insertions and renewals

ASSUME LruMemoryAssumption == /\ NoKey \notin Keys /\ Sizes \subseteq Nat \ {0}
                              /\ Limits \subseteq Nat \ {0} /\ MaxUses \in Nat

VARIABLES
  cache_list,  \* the keys, most recent first
  size,        \* the size of each entry (0 without one)
  cache_size, max_size,
  saved,       \* what backup() returned, until the manager is used again
  last,        \* the last call, if it was put or update, and its arguments
  undefined,   \* an iterator that points at no entry was used
  restored,    \* the entries come from init(), which does not trim them
  used,        \* when each key was last inserted or renewed
  uses

vars == <<cache_list, size, cache_size, max_size, saved, last, undefined, restored, used, uses>>

Entries == Range(cache_list)
NoCall == [op |-> "none", key |-> NoKey, size |-> 0]
Calls(op, k, s) == last' = [op |-> op, key |-> k, size |-> s]
Empty == [list |-> <<>>, size |-> [k \in Keys |-> 0]]

Init == /\ cache_list = <<>> /\ size = [k \in Keys |-> 0] /\ cache_size = 0
        /\ max_size \in Limits /\ saved = Empty /\ last = NoCall
        /\ undefined = FALSE /\ restored = FALSE
        /\ used = [k \in Keys |-> 0] /\ uses = 0

-----------------------------------------------------------------------------
\* remove_cache leaves the longest beginning of the list beside which
\* `required' more bytes fit; an empty list is left in any case.
First(n) == SubSeq(cache_list, 1, n)
Gone(n) == Entries \ Range(First(n))
Room(n, bytes) == cache_size - Usage(Gone(n), size) <= bytes
Kept(required, max) == Max({n \in 0 .. Len(cache_list) : n = 0 \/ Room(n, max - required)})

Without(s, gone) == [k \in Keys |-> IF k \in gone THEN 0 ELSE s[k]]

\* Mutant: the evicted bytes stay in the total.
RemoveUncounted(n) == cache_size

\* The total after remove_cache has left the first n entries.
Removed(n) == cache_size - Usage(Gone(n), size)

UsedNow(k) == /\ uses < MaxUses /\ uses' = uses + 1
              /\ used' = [used EXCEPT ![k] = uses + 1]

PutAbsent(k, s) ==
  /\ k \notin Entries /\ UsedNow(k) /\ Calls("put", k, s)
  /\ LET n == Kept(s, max_size) IN
       /\ cache_list' = <<k>> \o First(n)
       /\ size' = [Without(size, Gone(n)) EXCEPT ![k] = s]
       /\ cache_size' = Removed(n) + s
  /\ restored' = FALSE /\ saved' = Empty /\ UNCHANGED <<max_size, undefined>>

\* A cached key keeps its place; room for its larger size is made from the
\* end of the list, where its own entry may be.  update_size then goes on
\* with the iterator of an erased entry.
PutPresent(k, s) ==
  /\ k \in Entries /\ Calls("put", k, s)
  /\ IF s > size[k]
       THEN LET n == Kept(s - size[k], max_size) IN
              /\ cache_list' = First(n)
              /\ undefined' = (k \in Gone(n))
              /\ size' = [Without(size, Gone(n)) EXCEPT ![k] = s]
              /\ cache_size' = Removed(n) - size[k] + s
       ELSE UNCHANGED <<cache_list, undefined, size, cache_size>>
  /\ UNCHANGED <<max_size, saved, restored, used, uses>>

\* Where the map says that the entry is; splice moves it to the front, and
\* those before it one place back.
Place(k) == CHOOSE i \in DOMAIN cache_list : cache_list[i] = k
Renewed(k) == [i \in DOMAIN cache_list |-> IF i = 1 THEN k
                                           ELSE cache_list[IF i <= Place(k) THEN i - 1 ELSE i]]

Renew(k) == /\ k \in Entries /\ UsedNow(k) /\ cache_list' = Renewed(k) /\ last' = NoCall
            /\ UNCHANGED <<size, cache_size, max_size, saved, undefined, restored>>

\* update() has its test the wrong way round: a cached key is left alone,
\* and for a key that is not cached the end of the map is dereferenced.
Update(k, s) == /\ Calls("update", k, s) /\ undefined' = (k \notin Entries)
                /\ UNCHANGED <<cache_list, size, cache_size, max_size, saved, restored, used, uses>>

Resize(max) ==
  /\ max_size' = max
  /\ LET n == Kept(0, max) IN
       /\ cache_list' = First(n)
       /\ size' = Without(size, Gone(n))
       /\ cache_size' = Removed(n)
  /\ restored' = FALSE /\ last' = NoCall /\ UNCHANGED <<saved, undefined, used, uses>>

-----------------------------------------------------------------------------
\* backup() empties the manager and returns the entries, most recent first.
Backup == /\ cache_list # <<>>
          /\ saved' = [list |-> cache_list, size |-> size]
          /\ cache_list' = <<>> /\ size' = [k \in Keys |-> 0] /\ cache_size' = 0
          /\ last' = NoCall /\ UNCHANGED <<max_size, undefined, restored, used, uses>>

\* Mutant: the entries are taken from the front and pushed to the front.
RestoreReversed ==
  /\ cache_list = <<>> /\ saved # Empty /\ saved' = Empty
  /\ cache_list' = [i \in DOMAIN saved.list |-> saved.list[Len(saved.list) + 1 - i]]
  /\ size' = saved.size /\ cache_size' = Usage(Range(saved.list), saved.size) /\ restored' = TRUE
  /\ last' = NoCall /\ UNCHANGED <<max_size, undefined, used, uses>>

\* init(): the vector is emptied from its end, each entry pushed to the front.
Restore ==
  /\ cache_list = <<>> /\ saved # Empty /\ saved' = Empty
  /\ cache_list' = saved.list
  /\ size' = saved.size /\ cache_size' = Usage(Range(saved.list), saved.size) /\ restored' = TRUE
  /\ last' = NoCall /\ UNCHANGED <<max_size, undefined, used, uses>>

-----------------------------------------------------------------------------
Next == /\ ~undefined
        /\ \/ \E k \in Keys, s \in Sizes : PutAbsent(k, s) \/ PutPresent(k, s) \/ Update(k, s)
           \/ \E k \in Keys : Renew(k)
           \/ \E max \in Limits : Resize(max)
           \/ Backup \/ Restore

Spec == Init /\ [][Next]_vars

-----------------------------------------------------------------------------
(* Properties.                                                             *)

\* The list is in the order of use, through evictions, backups and restores,
\* so what remove_cache takes from its end was used longest ago
\* (algo_lru.cpp:8-30, 41-44, 78, 109-114).
ListIsRecency == \A i, j \in DOMAIN cache_list :
                   i < j => used[cache_list[i]] > used[cache_list[j]]

\* The total is the sum of the sizes, and above the limit the manager holds
\* one entry that is larger than the limit by itself, or what init() put
\* there and left untrimmed (algo_lru.cpp:15-18, 41-42, 106-114).
TotalFits ==
  ~undefined => /\ cache_size = Usage(Entries, size)
                /\ cache_size > max_size => Len(cache_list) = 1 \/ restored

\* put() of a larger duplicate ends "using the larger one"
\* (algo_lru.cpp:53).  It does not if the entry is evicted to make room for
\* itself.
UsesLarger == last.op = "put" => last.key \in Entries /\ size[last.key] >= last.size
=============================================================================
