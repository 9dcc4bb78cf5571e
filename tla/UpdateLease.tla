----------------------------- MODULE UpdateLease -----------------------------
(***************************************************************************)
(* What a rate-limited group promises about concurrent updates: a pool of  *)
(* Slots leases.  A holder takes one lease at a time, and only while one   *)
(* is free; any number of leases can be given back or lapse together.      *)
(***************************************************************************)
EXTENDS Integers, FiniteSets

CONSTANTS Holders, Slots

VARIABLE held

Acquire(h) ==
  /\ h \notin held
  /\ Cardinality(held) < Slots
  /\ held' = held \cup {h}

Release ==
  /\ held' \in SUBSET held
  /\ held' # held

Init == held = {}

Next == (\E h \in Holders : Acquire(h)) \/ Release

Spec == Init /\ [][Next]_held
=============================================================================
