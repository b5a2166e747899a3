---------------------------- MODULE MCDashboard ----------------------------
(* Dashboard.tla on small instances: the fake provider's device, the one   *)
(* whose cycles are saved, and two of the four intervals.                  *)
EXTENDS Dashboard

CONSTANTS fake, hour, day

OneDevice == {fake}
TwoIntervals == {hour, day}
=============================================================================
