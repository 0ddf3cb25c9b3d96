------------------------------ MODULE MCMemory ------------------------------
(* The managers in memory, one at a time: a program has the LRU or the LFUDA *)
(* one.  They have no state in common; keys are interchangeable.             *)
EXTENDS LruMemory, TLC

CONSTANTS Times, MaxFreq, MaxAging

VARIABLES lfuda,  \* the manager is the LFUDA one
          entries, lfuda_size, stat, lfuda_total, lfuda_max, aging, lfuda_saved, lfuda_undefined

Lfuda == INSTANCE LfudaMemory WITH
           size <- lfuda_size, cache_size <- lfuda_total, max_size <- lfuda_max,
           saved <- lfuda_saved, undefined <- lfuda_undefined

lfudaVars == <<entries, lfuda_size, stat, lfuda_total, lfuda_max, aging, lfuda_saved, lfuda_undefined>>

MCInit == Init /\ Lfuda!Init /\ max_size = lfuda_max /\ lfuda \in BOOLEAN
MCNext == /\ IF lfuda THEN Lfuda!Next /\ UNCHANGED vars ELSE Next /\ UNCHANGED lfudaVars
          /\ UNCHANGED lfuda
MCSpec == MCInit /\ [][MCNext]_<<vars, lfudaVars, lfuda>>

KeySymmetry == Permutations(Keys)

\* The aging factor of the LFUDA manager never passes the value of an entry,
\* also over a backup (algo_lfuda.cpp:8-26, 41, 61, 94-95).
AgingIsFloor == Lfuda!AgingIsFloor

\* Of either manager the total is the sum of the sizes, up to an undefined use
\* (algo_lru.cpp:15-18, 41-42, 106-126; algo_lfuda.cpp:8-15, 41, 96, 106-116).
TotalsAreExact == TotalFits /\ Lfuda!TotalIsExact
=============================================================================
