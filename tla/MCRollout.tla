------------------------------ MODULE MCRollout ------------------------------
(* Instances of Rollout small enough for TLC.                              *)
EXTENDS Rollout, TLC

CONSTANTS a, b, c

MCPolicy(enabled, safe, office, max) ==
  [updatesEnabled |-> enabled, safeMode |-> safe, officeHours |-> office, maxUpdates |-> max]

MCChannel(t, f, bl) == [target |-> t, floors |-> f, blacklist |-> bl]

(* Rate limit: one policy, three machines compete for its two updates.     *)
LimitPolicies == {MCPolicy(TRUE, FALSE, FALSE, 2)}
LimitChannels == {MCChannel(2, {}, {})}

(* Administration: the policy and the channel change under way.  The last  *)
(* two channels contradict themselves, as racing requests can leave them   *)
(* (module Catalog).                                                       *)
AdminPolicies == {MCPolicy(TRUE, TRUE, FALSE, 2), MCPolicy(TRUE, FALSE, TRUE, 9),
                  MCPolicy(FALSE, FALSE, FALSE, 9)}
AdminChannels == {MCChannel(NULL, {}, {}), MCChannel(3, {2}, {}), MCChannel(2, {2}, {3}),
                  MCChannel(3, {}, {3}), MCChannel(3, {3}, {3})}

Machines == Permutations({a, b, c})
=============================================================================
