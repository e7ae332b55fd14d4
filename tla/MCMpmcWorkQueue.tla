---------------------------- MODULE MCMpmcWorkQueue ----------------------------
(* Instances of MpmcWorkQueue: producers are alike, and so are consumers. *)
EXTENDS MpmcWorkQueue, TLC

Symmetry == Permutations(Producers) \cup Permutations(Consumers)
===============================================================================
