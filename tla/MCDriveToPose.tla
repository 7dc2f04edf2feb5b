--------------------------- MODULE MCDriveToPose ---------------------------
(* Two goals at the ends of a corridor, facing away from each other's.     *)
EXTENDS DriveToPose

MCGoal == {"g1", "g2"}
MCTarget == [g \in MCGoal |-> IF g = "g1" THEN 0 ELSE Length]
MCTargetYaw == [g \in MCGoal |-> "east"]
=============================================================================
