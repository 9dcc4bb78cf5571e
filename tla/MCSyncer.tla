------------------------------ MODULE MCSyncer ------------------------------
(* Instances of Syncer small enough for TLC.                               *)
EXTENDS Syncer

CONSTANTS a, b

MCPolicy == [updatesEnabled |-> TRUE, safeMode |-> FALSE, officeHours |-> FALSE, maxUpdates |-> 1]
OneAtATime == {MCPolicy}

(* Upstream's releases: one floor, before the target or at it; nothing was  *)
(* added to the mirror by hand.                                            *)
To(t) == [target |-> t, floors |-> {2}, blacklist |-> {}]
Releases == {To(2), To(3)}
NoForeign == {{}}

(* For SyncerFloor: two floors, the first of which is released by itself.   *)
OnTheWay(t) == [target |-> t, floors |-> {2, 3}, blacklist |-> {}]
FirstIsFloor == {OnTheWay(2), OnTheWay(4)}
Foreigns == {{}, {3}}
=============================================================================
