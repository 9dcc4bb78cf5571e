----------------------------- MODULE MCCatalog -----------------------------
(* Instances of Catalog small enough for TLC.                              *)
EXTENDS Catalog, TLC

CONSTANTS a1, a2, p, q, c, d

Symmetries == Permutations({a1, a2}) \cup Permutations({p, q}) \cup Permutations({c, d})
=============================================================================
