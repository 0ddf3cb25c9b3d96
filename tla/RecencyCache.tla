---------------------------- MODULE RecencyCache ----------------------------
(***************************************************************************)
(* What a least-recently-used cache promises, whatever it is stored in: it *)
(* holds a set of keys in the order of their last use, a use moves a key   *)
(* to the recent end, and the only key that ever leaves is the one at the  *)
(* old end.  Sizes, limits, counters and crashes are not visible here.     *)
(***************************************************************************)
CONSTANT Keys

VARIABLES cached,  \* the keys in the cache
          older    \* <<j, k>> \in older: j was last used before k

vars == <<cached, older>>

Init == cached = {} /\ older = {}

\* A new key enters as the most recent one.
Add(k) == /\ k \notin cached
          /\ cached' = cached \union {k}
          /\ older' = older \union (cached \X {k})

\* A cached key is used again and becomes the most recent one.
Touch(k) == /\ k \in cached
            /\ older' = (older \ ({k} \X cached)) \union ((cached \ {k}) \X {k})
            /\ UNCHANGED cached

\* The key used longest ago leaves.
Evict(k) == /\ k \in cached
            /\ \A j \in cached \ {k} : <<k, j>> \in older
            /\ cached' = cached \ {k}
            /\ older' = older \intersect (cached' \X cached')

Next == \E k \in Keys : Add(k) \/ Touch(k) \/ Evict(k)

Spec == Init /\ [][Next]_vars
=============================================================================
