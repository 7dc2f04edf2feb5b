---------------------------- MODULE MCMoveMotor ----------------------------
(* Two goals that send the motor to the ends of its range.                 *)
EXTENDS MoveMotor

MCGoal == {"g1", "g2"}
MCTarget == [g \in MCGoal |-> IF g = "g1" THEN Top ELSE 0]
=============================================================================
