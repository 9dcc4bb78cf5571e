---------------------------- MODULE MCTimeline ----------------------------
(* Instances of Timeline small enough for TLC.                             *)
EXTENDS Timeline

\* Beyond and within DeadInstance and Duration, and next to both limits.
MCPastTimes == {-7, -3, -1}
=============================================================================
