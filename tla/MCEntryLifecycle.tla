------------------------- MODULE MCEntryLifecycle -------------------------
(* Model-checking instance of EntryLifecycle.                              *)
EXTENDS EntryLifecycle, TLC

\* Symbols are interchangeable.
Symmetry == Permutations(Symbols)
=============================================================================
