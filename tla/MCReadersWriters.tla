-------------------------- MODULE MCReadersWriters --------------------------
(* ReadersWriters on small sets of readers and writers. *)
EXTENDS ReadersWriters, TLC

Symmetry == Permutations(Readers) \cup Permutations(Writers)
=============================================================================
