--------------------------- MODULE MCRolloutRace ---------------------------
(* Instances of RolloutRace small enough for TLC.                          *)
EXTENDS RolloutRace, TLC

CONSTANTS a, b, w1, w2

MCPolicy(safe, max) ==
  [updatesEnabled |-> TRUE, safeMode |-> safe, officeHours |-> FALSE, maxUpdates |-> max]

SafePolicy == {MCPolicy(TRUE, 1)}

Target2 == {[target |-> 2, floors |-> {}, blacklist |-> {}]}

(* What the view leaves out makes no difference to any later step or       *)
(* property: by how much a row has gone out of sight, and whether it did   *)
(* in an update that has timed out (Period =< Timeout and Recent < Validity *)
(* here); of a check, which status its row had when it had no grant, and   *)
(* what it has read after the last step that looks at it.                  *)
RowInView(r) ==
  [r EXCEPT !.checkAge = IF r.checkAge < Validity THEN r.checkAge ELSE Validity,
            !.lost = r.lost /\ r.grantAge =< Timeout]

CheckInView(r) ==
  LET again == r.step = "readGroup" /\ r.status = "UpdateGranted" IN
  [r EXCEPT !.status = IF r.status = "UpdateGranted" THEN @ ELSE NULL,
            !.granted = IF again THEN @ ELSE NULL,
            !.known = IF again \/ r.step = "raiseFlag" THEN TRUE ELSE @,
            !.flag = r.step \in {"count", "grant"} /\ @]

RequestInView(r) == IF r # NULL /\ r.step \in CheckSteps THEN CheckInView(r) ELSE r

StateView == <<[i \in Instances |-> RowInView(rows[i])], policy, channel, brake,
               rolloutInProgress, [w \in Workers |-> RequestInView(req[w])]>>

Symmetries == Permutations({a, b}) \cup Permutations({w1, w2})
=============================================================================
