---------------------------- MODULE MCLruSqlite ----------------------------
(* LruSqlite for the model checker: keys are interchangeable in safety runs. *)
EXTENDS LruSqlite, TLC

KeySymmetry == Permutations(Keys)
=============================================================================
