---------------------------- MODULE MCRpcProdCons ----------------------------
(* RpcProdCons with a few clients. *)
EXTENDS RpcProdCons, TLC

Symmetry == Permutations(Producers) \cup Permutations(Consumers)
=============================================================================
