------------------------ MODULE MCProducersConsumers ------------------------
(* ProducersConsumers on small sets of producers and consumers. *)
EXTENDS ProducersConsumers, TLC

Symmetry == Permutations(Producers) \cup Permutations(Consumers)
=============================================================================
