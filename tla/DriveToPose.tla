----------------------------- MODULE DriveToPose -----------------------------
(***************************************************************************)
(* The drive_to_pose skill (mw_skill_library/src/drive_to_pose_server.cpp) *)
(* and the robot it drives.  rclcpp::spin serves the callbacks one at a    *)
(* time; every accepted goal runs its control loop on a detached thread of *)
(* its own, and all of them, and the cancel handler, publish on /cmd_vel.  *)
(*                                                                         *)
(* The plane is a corridor of cells with two headings: to be at the target *)
(* (within xy_tolerance) is to be in its cell, to be aligned is to have    *)
(* the heading.  The robot obeys the last command.  Motion is slow: it     *)
(* covers one cell at most between two odometry messages and between two   *)
(* iterations of a control loop, which is what Move asks for.              *)
(***************************************************************************)
EXTENDS Integers

CONSTANTS Goal,       \* DriveToPose goals
          Target,     \* the cell of each goal
          TargetYaw,  \* its target_yaw
          Length,     \* the corridor is the cells 0..Length
          Cancelable, \* bound: the goals clients may cancel
          MaxLives    \* bound on the processes started one after the other

Yaw == {"east", "west"}

ASSUME DriveAssumption ==
  /\ Length \in Nat /\ MaxLives \in Nat \ {0} /\ Cancelable \subseteq Goal
  /\ Target \in [Goal -> 0..Length] /\ TargetYaw \in [Goal -> Yaw]

VARIABLES
  goalState, \* rclcpp: the state of each goal
  pc,        \* where its thread stands in execute()
  phase,     \* its control phase
  plan,      \* the command it computed
  result,    \* the result it is about to give
  late,      \* goals whose current deadline has passed
  cancelPc,  \* the goal whose cancel request is being handled
  odom,      \* cur_x_, cur_yaw_
  poseValid, \* pose_valid_
  cmd,       \* the last command on /cmd_vel
  cmdOf,     \* history: the goal and the process a moving command came from
  life,      \* history: how many processes were started
  robot,     \* where the robot is
  ticked,    \* history: executing goals that commanded since the last move
  crowded    \* history: executing goals that were not alone all the time

loopVars == <<pc, phase, plan, result, late>>
worldVars == <<robot, ticked, crowded>>
cmdVars == <<cmd, cmdOf>>
vars == <<goalState, loopVars, cancelPc, odom, poseValid, cmdVars, life, worldVars>>

Active == {"executing", "canceling"}
Result == {"succeeded", "aborted", "canceled"}
Live == {g \in Goal : pc[g] # "idle"}
Pose == [x : 0..Length, yaw : Yaw]

\* linear.x > 0 and angular.z # 0.
Command == [go : BOOLEAN, turn : BOOLEAN]
Stop == [go |-> FALSE, turn |-> FALSE]
NoGoal == "none"

Init ==
  /\ goalState = [g \in Goal |-> "none"]
  /\ pc = [g \in Goal |-> "idle"]
  /\ phase = [g \in Goal |-> "heading"]
  /\ plan = [g \in Goal |-> Stop]
  /\ result = [g \in Goal |-> "none"]
  /\ late = {}
  /\ cancelPc = NoGoal
  /\ odom \in {[x |-> 0, yaw |-> "east"]} /\ poseValid = FALSE
  /\ cmd = Stop /\ cmdOf = <<NoGoal, 1>> /\ life = 1
  /\ robot \in Pose /\ ticked = {} /\ crowded = {}

Goto(g, from, to) == pc[g] = from /\ pc' = [pc EXCEPT ![g] = to]
Publish(c, g) == cmd' = c /\ cmdOf' = IF c = Stop THEN <<NoGoal, 1>> ELSE <<g, life>>
-----------------------------------------------------------------------------
(* Callbacks, one at a time.                                               *)

\* handleGoal accepts whatever runs already; handleAccepted starts a thread.
Accept(g) ==
  /\ goalState[g] = "none" /\ cancelPc = NoGoal
  /\ goalState' = [goalState EXCEPT ![g] = "executing"]
  /\ Goto(g, "idle", "wait")
  /\ crowded' = IF Live = {} THEN crowded ELSE crowded \cup Live \cup {g}
  /\ UNCHANGED <<phase, plan, result, late, cancelPc, odom, poseValid, cmdVars,
                 life, robot, ticked>>

\* onOdom
OnOdom ==
  /\ cancelPc = NoGoal
  /\ odom' = robot /\ poseValid' = TRUE
  /\ UNCHANGED <<goalState, loopVars, cancelPc, cmdVars, life, worldVars>>

\* handleCancel stops the robot; only then is the goal CANCELING.
HandleCancel(g) ==
  /\ goalState[g] = "executing" /\ g \in Cancelable /\ cancelPc = NoGoal
  /\ cancelPc' = g
  /\ Publish(Stop, g)
  /\ UNCHANGED <<goalState, loopVars, odom, poseValid, life, worldVars>>

\* rclcpp; the goal may have ended meanwhile.
Canceling(g) ==
  /\ cancelPc = g
  /\ cancelPc' = NoGoal
  /\ goalState' = [goalState EXCEPT ![g] = IF @ \in Active THEN "canceling" ELSE @]
  /\ UNCHANGED <<loopVars, odom, poseValid, cmdVars, life, worldVars>>

-----------------------------------------------------------------------------
(* execute(), on the thread of the goal.                                   *)

\* A deadline passes: 5 s for the first odometry, 60 s for the motion.
Expire(g) ==
  /\ pc[g] \in {"wait", "check"} /\ g \notin late
  /\ late' = late \cup {g}
  /\ UNCHANGED <<goalState, pc, phase, plan, result, cancelPc, odom, poseValid,
                 cmdVars, life, worldVars>>

\* The wait for the first odometry.  After its deadline pose_valid_ is read
\* without the lock: a message that came since is seen or not.
Wait(g) ==
  /\ \/ poseValid /\ Goto(g, "wait", "check") /\ UNCHANGED result
     \/ /\ g \in late /\ Goto(g, "wait", "report")
        /\ result' = [result EXCEPT ![g] = "aborted"]
  /\ late' = late \ {g}
  /\ UNCHANGED <<goalState, phase, plan, cancelPc, odom, poseValid, cmdVars, life,
                 worldVars>>

\* Mutant: the robot is left to the caller on a timeout.
Check_NoStop(g) ==
  /\ \/ /\ goalState[g] = "canceling" /\ Goto(g, "check", "stop")
        /\ result' = [result EXCEPT ![g] = "canceled"]
     \/ /\ goalState[g] # "canceling" /\ g \in late /\ Goto(g, "check", "report")
        /\ result' = [result EXCEPT ![g] = "aborted"]
     \/ goalState[g] # "canceling" /\ g \notin late /\ Goto(g, "check", "look") /\ UNCHANGED result
  /\ UNCHANGED <<goalState, phase, plan, late, cancelPc, odom, poseValid, cmdVars,
                 life, worldVars>>

\* Mutant: a goal that makes no progress is not given up.
Check_NoTimeout(g) ==
  /\ \/ /\ goalState[g] = "canceling" /\ Goto(g, "check", "stop")
        /\ result' = [result EXCEPT ![g] = "canceled"]
     \/ goalState[g] # "canceling" /\ Goto(g, "check", "look") /\ UNCHANGED result
  /\ UNCHANGED <<goalState, phase, plan, late, cancelPc, odom, poseValid, cmdVars,
                 life, worldVars>>

\* Mutant: the stop of handleCancel is thought to be enough.
Check_NoCancel(g) ==
  /\ \/ /\ g \in late /\ Goto(g, "check", "stop")
        /\ result' = [result EXCEPT ![g] = "aborted"]
     \/ g \notin late /\ Goto(g, "check", "look") /\ UNCHANGED result
  /\ UNCHANGED <<goalState, phase, plan, late, cancelPc, odom, poseValid, cmdVars,
                 life, worldVars>>

\* The head of the control loop.
Check(g) ==
  /\ \/ /\ goalState[g] = "canceling" /\ Goto(g, "check", "stop")
        /\ result' = [result EXCEPT ![g] = "canceled"]
     \/ /\ goalState[g] # "canceling" /\ g \in late /\ Goto(g, "check", "stop")
        /\ result' = [result EXCEPT ![g] = "aborted"]
     \/ goalState[g] # "canceling" /\ g \notin late /\ Goto(g, "check", "look") /\ UNCHANGED result
  /\ UNCHANGED <<goalState, phase, plan, late, cancelPc, odom, poseValid, cmdVars,
                 life, worldVars>>

Near(g) == odom.x = Target[g]
Ahead(g) == odom.yaw = IF odom.x < Target[g] THEN "east" ELSE "west"
Aligned(g) == odom.yaw = TargetYaw[g]

\* What the switch makes of the pose: a change of phase commands a stop.
NextPhase(g) ==
  IF phase[g] # "yaw" /\ Near(g) THEN "yaw"
  ELSE IF phase[g] = "heading" /\ Ahead(g) THEN "drive"
  ELSE phase[g]

Steer(g) ==
  IF NextPhase(g) # phase[g] THEN Stop
  ELSE [go |-> phase[g] = "drive", turn |-> phase[g] = "drive" => ~Ahead(g)]

\* Mutant: cmd is not reset, the speed of the last iteration stays.
Look_KeepsSpeed(g) ==
  /\ \/ /\ phase[g] = "yaw" /\ Aligned(g) /\ Goto(g, "look", "stop")
        /\ result' = [result EXCEPT ![g] = "succeeded"]
        /\ UNCHANGED <<phase, plan>>
     \/ /\ ~(phase[g] = "yaw" /\ Aligned(g)) /\ Goto(g, "look", "publish")
        /\ phase' = [phase EXCEPT ![g] = NextPhase(g)]
        /\ plan' = [plan EXCEPT ![g] = [Steer(g) EXCEPT !.go = @ \/ cmd.go]]
        /\ UNCHANGED result
  /\ UNCHANGED <<goalState, late, cancelPc, odom, poseValid, cmdVars, life, worldVars>>

\* snapshot() and the switch.  The final phase looks at the yaw only.
Look(g) ==
  /\ \/ /\ phase[g] = "yaw" /\ Aligned(g) /\ Goto(g, "look", "stop")
        /\ result' = [result EXCEPT ![g] = "succeeded"]
        /\ UNCHANGED <<phase, plan>>
     \/ /\ ~(phase[g] = "yaw" /\ Aligned(g)) /\ Goto(g, "look", "publish")
        /\ phase' = [phase EXCEPT ![g] = NextPhase(g)]
        /\ plan' = [plan EXCEPT ![g] = Steer(g)]
        /\ UNCHANGED result
  /\ UNCHANGED <<goalState, late, cancelPc, odom, poseValid, cmdVars, life, worldVars>>

\* publishCmd, then the thread sleeps.
PublishCmd(g) ==
  /\ Goto(g, "publish", "check")
  /\ Publish(plan[g], g)
  /\ plan' = [plan EXCEPT ![g] = Stop]
  /\ ticked' = ticked \cup {g}
  /\ UNCHANGED <<goalState, phase, result, late, cancelPc, odom, poseValid,
                 life, robot, crowded>>

\* publishStop before a result is given.
PublishStop(g) ==
  /\ Goto(g, "stop", "report")
  /\ Publish(Stop, g)
  /\ UNCHANGED <<goalState, phase, plan, result, late, cancelPc, odom, poseValid,
                 life, worldVars>>

\* gh->succeed(), abort() or canceled(), as result says; the thread ends.
Report(g) ==
  /\ Goto(g, "report", "idle")
  /\ goalState' = [goalState EXCEPT ![g] = "ended"]
  /\ phase' = [phase EXCEPT ![g] = "heading"]
  /\ plan' = [plan EXCEPT ![g] = Stop]
  /\ result' = [result EXCEPT ![g] = "none"]
  /\ late' = late \ {g}
  /\ ticked' = ticked \ {g} /\ crowded' = crowded \ {g}
  /\ UNCHANGED <<cancelPc, odom, poseValid, cmdVars, life, robot>>

Thread(g) == \/ Wait(g) \/ Check(g) \/ Look(g) \/ PublishCmd(g) \/ PublishStop(g)
             \/ Report(g)
-----------------------------------------------------------------------------
(* The robot and the process.                                              *)

\* The robot follows the last command.  No thread is in the middle of an
\* iteration, each has commanded since the last move, and so was the robot seen.
Move ==
  /\ \A g \in Goal : pc[g] \in {"idle", "wait", "check"}
  /\ {g \in Goal : pc[g] = "check"} \subseteq ticked
  /\ poseValid => odom = robot
  /\ LET ahead == robot.x + (IF robot.yaw = "east" THEN 1 ELSE -1)
     IN  robot' = [x |-> IF cmd.go /\ ahead \in 0..Length THEN ahead ELSE robot.x,
                   yaw |-> IF cmd.turn THEN CHOOSE y \in Yaw : y # robot.yaw
                                       ELSE robot.yaw]
  /\ robot' # robot
  /\ ticked' = {}
  /\ UNCHANGED <<goalState, loopVars, cancelPc, odom, poseValid, cmdVars, life, crowded>>

\* The process dies, at any moment, and another is started; the robot keeps
\* the command it has.
Crash ==
  /\ life < MaxLives
  /\ life' = life + 1
  /\ goalState' = [g \in Goal |-> IF goalState[g] \in Active THEN "ended" ELSE goalState[g]]
  /\ pc' = [g \in Goal |-> "idle"]
  /\ phase' = [g \in Goal |-> "heading"]
  /\ plan' = [g \in Goal |-> Stop]
  /\ result' = [g \in Goal |-> "none"]
  /\ late' = {} /\ ticked' = {} /\ crowded' = {} /\ cancelPc' = NoGoal
  /\ odom' = [x |-> 0, yaw |-> "east"] /\ poseValid' = FALSE
  /\ UNCHANGED <<cmdVars, robot>>

Next == \/ \E g \in Goal : \/ Accept(g) \/ HandleCancel(g) \/ Canceling(g)
                           \/ Expire(g) \/ Thread(g)
        \/ OnOdom \/ Move \/ Crash

Spec == Init /\ [][Next]_vars

\* Threads run.  That deadlines pass is assumed where it is needed.
FairSpec == Spec /\ \A g \in Goal : WF_vars(Thread(g))
-----------------------------------------------------------------------------
(* Properties.                                                             *)

TypeOK ==
  /\ goalState \in [Goal -> {"none", "ended"} \cup Active]
  /\ pc \in [Goal -> {"idle", "wait", "check", "look", "publish", "stop", "report"}]
  /\ \A g \in Goal : pc[g] # "idle" <=> goalState[g] \in Active
  /\ phase \in [Goal -> {"heading", "drive", "yaw"}]
  /\ plan \in [Goal -> Command]
  /\ result \in [Goal -> {"none"} \cup Result]
  /\ late \subseteq Live
  /\ cancelPc \in Goal \cup {NoGoal}
  /\ odom \in Pose /\ poseValid \in BOOLEAN
  /\ cmd \in Command /\ cmdOf \in (Goal \cup {NoGoal}) \X (1..MaxLives)
  /\ life \in 1..MaxLives
  /\ robot \in Pose /\ ticked \subseteq Goal /\ crowded \subseteq Goal

\* The robot is never left moving: a command that moves it comes from a goal
\* that is still in its control loop, or from a process that died, whichever
\* goals and cancel handlers publish beside it.
NeverLeftMoving ==
  cmd # Stop => cmdOf[2] < life \/ pc[cmdOf[1]] \in {"check", "look", "publish", "stop"}

\* A goal that had the robot to itself and reports success leaves it at its
\* target, give or take the cell it covers between two looks: the final phase
\* does not look at the distance again, so nothing may drive on in it.
ArrivedAtTarget ==
  \A g \in Goal \ crowded :
    pc[g] = "report" /\ result[g] = "succeeded" => robot.x - Target[g] \in -1..1

\* A goal that was cancelled ends by the next iteration of its loop, without
\* the help of a deadline.
CancelEnds ==
  \A g \in Goal : (goalState[g] = "canceling" /\ pc[g] # "wait") ~> (pc[g] = "idle")

\* If deadlines pass (a loop that is at its head for ever finds its own to
\* have passed) every accepted goal ends, with or without odometry,
\* wherever the robot goes.
GoalEnds == \A g \in Goal : SF_vars(Expire(g)) => (pc[g] # "idle" ~> pc[g] = "idle")
=============================================================================
