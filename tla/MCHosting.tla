------------------------------ MODULE MCHosting ------------------------------
(* Instances of Hosting small enough for TLC.                              *)
EXTENDS Hosting

CONSTANTS a, b

MCPolicy == [updatesEnabled |-> TRUE, safeMode |-> FALSE, officeHours |-> FALSE, maxUpdates |-> 1]
OneAtATime == {MCPolicy}

To(t) == [target |-> t, floors |-> {2, 3}, blacklist |-> {}]

(* Two floors before the target, the later one at it in the first release;  *)
(* that one may be a version that the mirror has already, by hand.          *)
Releases == {To(3), To(4)}
Foreigns == {{}, {3}}
=============================================================================
