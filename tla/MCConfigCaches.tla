--------------------------- MODULE MCConfigCaches ---------------------------
(* ConfigCaches on small instances. *)
EXTENDS ConfigCaches, TLC

Symm == Permutations(Threads) \cup Permutations(Cas) \cup Permutations(Columns)
=============================================================================
