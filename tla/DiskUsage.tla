----------------------------- MODULE DiskUsage -----------------------------
(***************************************************************************)
(* The bytes occupied by a set of cache entries.  The managers keep a      *)
(* running total (`meta.cache_size') that they never recompute from the    *)
(* table; Usage is the value that total stands for: the sum of sz[k] over  *)
(* the entries R.                                                          *)
(*                                                                         *)
(* The sum is the number of blocks <<k, i>> with i \in 1 .. sz[k].  For    *)
(* the model checker it is a sum like any other; for the proofs this form  *)
(* needs no induction on R: adding an entry adds a disjoint set of sz[k]   *)
(* blocks (DiskUsageProofs).                                               *)
(***************************************************************************)
EXTENDS Integers, FiniteSets

Blocks(R, sz) == UNION { {k} \X (1 .. sz[k]) : k \in R }

Usage(R, sz) == Cardinality(Blocks(R, sz))
=============================================================================
