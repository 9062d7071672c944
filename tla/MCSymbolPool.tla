---------------------------- MODULE MCSymbolPool ----------------------------
(* SymbolPool with a few clients. *)
EXTENDS SymbolPool, TLC

Symmetry == Permutations(Clients)
=============================================================================
