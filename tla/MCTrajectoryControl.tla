------------------------ MODULE MCTrajectoryControl ------------------------
(* Two goals: one may overtake the other, or outlive an activation.        *)
EXTENDS TrajectoryControl

CONSTANTS g1, g2

MCGoal == {g1, g2}
MCOneGoal == {g1}
=============================================================================
