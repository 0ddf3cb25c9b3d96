--------------------------- MODULE MCLfudaSqlite ---------------------------
(* LfudaSqlite for the model checker: keys are interchangeable. *)
EXTENDS LfudaSqlite, TLC

KeySymmetry == Permutations(Keys)
=============================================================================
