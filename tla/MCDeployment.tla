--------------------------- MODULE MCDeployment ---------------------------
(* Deployment.tla on a small instance: two runs of the seed command, one   *)
(* with --days=1 and one with --days=0, which seeds the present instant    *)
(* only and so may come after the first without a conflict; an hour of two *)
(* intervals, a day of two hours, a clock that comes to a full hour, and   *)
(* delays of 1, 2, 2, ... units.                                           *)
EXTENDS Deployment, TLC

CONSTANTS s1, s2

TwoRuns == {s1, s2}
DayAndInstant == s1 :> 1 @@ s2 :> 0
=============================================================================
