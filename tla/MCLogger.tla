------------------------------ MODULE MCLogger ------------------------------
(* Logger for the model checker: threads of a kind are interchangeable. *)
EXTENDS Logger, TLC

ThreadSymmetry == Permutations(Writers) \union Permutations(Setters)
=============================================================================
