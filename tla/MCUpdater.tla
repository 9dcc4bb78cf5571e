----------------------------- MODULE MCUpdater -----------------------------
(* Instances of Updater small enough for TLC.                              *)
EXTENDS Updater

CONSTANTS a, b

OneAtATime == {[updatesEnabled |-> TRUE, safeMode |-> FALSE, officeHours |-> FALSE,
                maxUpdates |-> 1]}

ByFloor == {[target |-> 3, floors |-> {2}, blacklist |-> {}]}
=============================================================================
