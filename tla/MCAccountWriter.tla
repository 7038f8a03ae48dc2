-------------------------- MODULE MCAccountWriter --------------------------
(* Model-checking instance of AccountWriter.                               *)
EXTENDS AccountWriter, TLC

\* Worker processes are interchangeable; databases are too.
Symmetry == Permutations(Workers) \cup Permutations(Databases)
=============================================================================
