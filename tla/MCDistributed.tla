--------------------------- MODULE MCDistributed ---------------------------
(* Instances of Distributed for TLC.                                       *)
EXTENDS Distributed, TLC

Symmetry == Permutations(Clients) \cup Permutations(Groups) \cup Permutations(Tracks)
=============================================================================
