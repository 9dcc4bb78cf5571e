----------------------------- MODULE MCConnPool -----------------------------
(* Instances of ConnPool with the server's operations for TLC.             *)
EXTENDS Operations, TLC

Symmetry == Permutations(Workers)
=============================================================================
