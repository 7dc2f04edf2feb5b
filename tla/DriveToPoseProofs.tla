-------------------------- MODULE DriveToPoseProofs --------------------------
(***************************************************************************)
(* The types of DriveToPose, that no goal leaves the robot moving, and     *)
(* that success means arrival, for any number of goals that share a robot. *)
(***************************************************************************)
EXTENDS DriveToPose, TLAPS

\* What the switch of the control loop can come to.
LEMMA SteerTyped ==
  ASSUME TypeOK, NEW g \in Goal
  PROVE  Steer(g) \in Command /\ NextPhase(g) \in {"heading", "drive", "yaw"}
BY DEF TypeOK, Steer, NextPhase, Command, Stop, Near, Ahead

\* A goal is alive exactly while its thread runs, in types that every
\* callback, every step of a thread and a restart of the process keep.
THEOREM DriveTypeCorrect == Spec => []TypeOK
<1> USE DriveAssumption DEF Active, Result, Live, Command, Stop, Goto
<1>1. Init => TypeOK
  <2> SUFFICES ASSUME Init PROVE TypeOK
    OBVIOUS
  <2>1. odom \in Pose /\ robot \in Pose
    BY DEF Init, Pose, Yaw
  <2>2. cmd \in Command /\ cmdOf \in (Goal \cup {NoGoal}) \X (1..MaxLives) /\ life \in 1..MaxLives
    BY DEF Init
  <2>3. /\ goalState \in [Goal -> {"none", "ended"} \cup Active]
        /\ pc \in [Goal -> {"idle", "wait", "check", "look", "publish", "stop", "report"}]
        /\ phase \in [Goal -> {"heading", "drive", "yaw"}]
        /\ plan \in [Goal -> Command]
        /\ result \in [Goal -> {"none"} \cup Result]
    BY DEF Init
  <2>4. \A g \in Goal : pc[g] # "idle" <=> goalState[g] \in Active
    BY DEF Init
  <2>5. QED
    BY <2>1, <2>2, <2>3, <2>4 DEF Init, TypeOK
<1>2. TypeOK /\ [Next]_vars => TypeOK'
  <2> SUFFICES ASSUME TypeOK, [Next]_vars PROVE TypeOK'
    OBVIOUS
  <2>1. ASSUME NEW g \in Goal, Accept(g) PROVE TypeOK'
    BY <2>1 DEF Accept, TypeOK, cmdVars
  <2>2. ASSUME NEW g \in Goal, HandleCancel(g) PROVE TypeOK'
    BY <2>2 DEF HandleCancel, TypeOK, Publish, loopVars, worldVars, NoGoal
  <2>3. ASSUME NEW g \in Goal, Canceling(g) PROVE TypeOK'
    BY <2>3 DEF Canceling, TypeOK, cmdVars, loopVars, worldVars
  <2>4. ASSUME NEW g \in Goal, Expire(g) PROVE TypeOK'
    <3>1. late' \subseteq Live'
      BY <2>4 DEF Expire, TypeOK
    <3>2. QED
      BY <2>4, <3>1 DEF Expire, TypeOK, cmdVars, worldVars
  <2>5. ASSUME NEW g \in Goal, Wait(g) PROVE TypeOK'
    BY <2>5 DEF Wait, TypeOK, cmdVars, worldVars
  <2>6. ASSUME NEW g \in Goal, Check(g) PROVE TypeOK'
    <3> HIDE DEF Command
    <3>1. /\ result' \in [Goal -> {"none"} \cup Result]
          /\ pc' \in [Goal -> {"idle", "wait", "check", "look", "publish", "stop", "report"}]
          /\ \A h \in Goal : pc'[h] = "idle" <=> pc[h] = "idle"
      BY <2>6 DEF Check, TypeOK
    <3>2. QED
      BY <2>6, <3>1 DEF Check, TypeOK, cmdVars, worldVars
  <2>7. ASSUME NEW g \in Goal, Look(g) PROVE TypeOK'
    <3>1. Steer(g) \in Command /\ NextPhase(g) \in {"heading", "drive", "yaw"}
      BY SteerTyped
    <3> HIDE DEF Command
    <3>2. /\ plan' \in [Goal -> Command]
          /\ phase' \in [Goal -> {"heading", "drive", "yaw"}]
          /\ result' \in [Goal -> {"none"} \cup Result]
      BY <2>7, <3>1 DEF Look, TypeOK
    <3>3. /\ pc' \in [Goal -> {"idle", "wait", "check", "look", "publish", "stop", "report"}]
          /\ \A h \in Goal : pc'[h] = "idle" <=> pc[h] = "idle"
      BY <2>7 DEF Look, TypeOK
    <3>4. QED
      BY <2>7, <3>2, <3>3 DEF Look, TypeOK, cmdVars, worldVars
  <2>8. ASSUME NEW g \in Goal, PublishCmd(g) PROVE TypeOK'
    BY <2>8 DEF PublishCmd, TypeOK, Publish, NoGoal
  <2>9. ASSUME NEW g \in Goal, PublishStop(g) PROVE TypeOK'
    BY <2>9 DEF PublishStop, TypeOK, Publish, worldVars, NoGoal
  <2>10. ASSUME NEW g \in Goal, Report(g) PROVE TypeOK'
    <3>1. late' \subseteq Live'
      BY <2>10 DEF Report, TypeOK
    <3>2. QED
      BY <2>10, <3>1 DEF Report, TypeOK, cmdVars
  <2>11. CASE OnOdom
    BY <2>11 DEF OnOdom, TypeOK, loopVars, cmdVars, worldVars
  <2>12. CASE Move
    <3>1. robot' \in Pose
      BY <2>12 DEF Move, TypeOK, Pose, Yaw
    <3>2. QED
      BY <2>12, <3>1 DEF Move, TypeOK, loopVars, cmdVars
  <2>13. CASE Crash
    <3>1. odom' \in Pose /\ life' \in 1..MaxLives
      BY <2>13 DEF Crash, TypeOK, Pose, Yaw
    <3>2. /\ goalState' \in [Goal -> {"none", "ended"} \cup Active]
          /\ \A g \in Goal : pc'[g] = "idle" /\ goalState'[g] \notin Active
          /\ plan' \in [Goal -> Command]
      BY <2>13 DEF Crash, TypeOK
    <3>3. QED
      BY <2>13, <3>1, <3>2 DEF Crash, TypeOK, cmdVars, NoGoal
  <2>14. CASE UNCHANGED vars
    BY <2>14 DEF vars, loopVars, cmdVars, worldVars, TypeOK
  <2>15. QED
    BY <2>1, <2>2, <2>3, <2>4, <2>5, <2>6, <2>7, <2>8, <2>9, <2>10, <2>11, <2>12,
       <2>13, <2>14 DEF Next, Thread
<1>3. QED
  BY <1>1, <1>2, PTL DEF Spec

\* The last command on the topic moves the robot only while the goal it came
\* from will still publish a stop, or if the process died first.
THEOREM RobotIsStopped == Spec => []NeverLeftMoving
<1> DEFINE Owned == cmdOf[2] <= life /\ (cmd # Stop => cmdOf[1] \in Goal)
<1>1. Init => NeverLeftMoving /\ Owned
  BY DEF Init, NeverLeftMoving, NoGoal
<1>2. TypeOK /\ NeverLeftMoving /\ Owned /\ [Next]_vars => NeverLeftMoving' /\ Owned'
  <2> SUFFICES ASSUME TypeOK, NeverLeftMoving, Owned, [Next]_vars
               PROVE  NeverLeftMoving' /\ Owned'
    OBVIOUS
  <2> USE DriveAssumption DEF NeverLeftMoving, TypeOK
  <2>1. ASSUME NEW g \in Goal, Accept(g) PROVE NeverLeftMoving' /\ Owned'
    BY <2>1 DEF Accept, Goto, cmdVars
  <2>2. ASSUME NEW g \in Goal, HandleCancel(g) PROVE NeverLeftMoving' /\ Owned'
    BY <2>2 DEF HandleCancel, Publish
  <2>3. ASSUME NEW g \in Goal, Canceling(g) PROVE NeverLeftMoving' /\ Owned'
    BY <2>3 DEF Canceling, loopVars, cmdVars
  <2>4. ASSUME NEW g \in Goal, Expire(g) PROVE NeverLeftMoving' /\ Owned'
    BY <2>4 DEF Expire, cmdVars
  <2>5. ASSUME NEW g \in Goal, Wait(g) PROVE NeverLeftMoving' /\ Owned'
    BY <2>5 DEF Wait, Goto, cmdVars
  <2>6. ASSUME NEW g \in Goal, Check(g) PROVE NeverLeftMoving' /\ Owned'
    BY <2>6 DEF Check, Goto, cmdVars
  <2>7. ASSUME NEW g \in Goal, Look(g) PROVE NeverLeftMoving' /\ Owned'
    BY <2>7 DEF Look, Goto, cmdVars
  <2>8. ASSUME NEW g \in Goal, PublishCmd(g) PROVE NeverLeftMoving' /\ Owned'
    BY <2>8 DEF PublishCmd, Goto, Publish
  <2>9. ASSUME NEW g \in Goal, PublishStop(g) PROVE NeverLeftMoving' /\ Owned'
    BY <2>9 DEF PublishStop, Publish
  <2>10. ASSUME NEW g \in Goal, Report(g) PROVE NeverLeftMoving' /\ Owned'
    BY <2>10 DEF Report, Goto, cmdVars
  <2>11. CASE OnOdom
    BY <2>11 DEF OnOdom, loopVars, cmdVars
  <2>12. CASE Move
    BY <2>12 DEF Move, loopVars, cmdVars
  <2>13. CASE Crash
    BY <2>13 DEF Crash, cmdVars
  <2>14. CASE UNCHANGED vars
    BY <2>14 DEF vars, loopVars, cmdVars
  <2>15. QED
    BY <2>1, <2>2, <2>3, <2>4, <2>5, <2>6, <2>7, <2>8, <2>9, <2>10, <2>11, <2>12,
       <2>13, <2>14 DEF Next, Thread
<1>3. QED
  BY <1>1, <1>2, DriveTypeCorrect, PTL DEF Spec

-----------------------------------------------------------------------------
(* Arrival.                                                                *)

\* Two goals that run together are crowded, each by the other.
Alone == \A g, h \in Live : g # h => g \in crowded

\* The robot is seen where it is, or where it was one cell ago; whoever is past
\* the wait has seen it.
Seen == /\ poseValid => odom.x - robot.x \in -1..1
        /\ \A g \in Goal : pc[g] \in {"check", "look", "publish", "stop"} => poseValid

\* The last phase belongs to the loop, and success to the last phase.
Phases ==
  \A g \in Goal : /\ phase[g] = "yaw" => pc[g] \notin {"idle", "wait"}
                  /\ result[g] = "succeeded" => /\ pc[g] \in {"stop", "report"}
                                                /\ phase[g] = "yaw"

\* In the last phase the robot is at the target and stays there: the goal is
\* not about to drive, and the last command does not, but for the one it is
\* just about to replace.
Parked ==
  \A g \in Goal \ crowded :
    phase[g] = "yaw" => /\ robot.x - Target[g] \in -1..1
                        /\ ~plan[g].go
                        /\ pc[g] # "publish" => ~cmd.go

Arrival == Alone /\ Seen /\ Phases /\ Parked

LEMMA AloneStep == TypeOK /\ Alone /\ [Next]_vars => Alone'
<1> SUFFICES ASSUME TypeOK, Alone, [Next]_vars PROVE Alone'
  OBVIOUS
<1>1. CASE Live' \subseteq Live /\ crowded \subseteq crowded'
  BY <1>1 DEF Alone
<1>2. ASSUME NEW g \in Goal, Accept(g) PROVE Alone'
  <2>1. Live' \subseteq Live \cup {g}
    BY <1>2 DEF Accept, Goto, Live, TypeOK
  <2>2. CASE Live = {}
    BY <2>1, <2>2 DEF Alone
  <2>3. CASE Live # {}
    BY <1>2, <2>1, <2>3 DEF Accept, Alone
  <2> QED
    BY <2>2, <2>3
<1>3. ASSUME NEW g \in Goal, Report(g) PROVE Alone'
  <2>1. Live' \subseteq Live \ {g} /\ crowded \ {g} \subseteq crowded'
    BY <1>3 DEF Report, Goto, Live, TypeOK
  <2> QED
    BY <2>1 DEF Alone
<1>4. CASE Crash
  BY <1>4 DEF Crash, Alone, Live
<1>5. ASSUME NEW g \in Goal,
             Wait(g) \/ Check(g) \/ Look(g) \/ PublishCmd(g) \/ PublishStop(g)
      PROVE  Alone'
  <2>1. Live' \subseteq Live /\ crowded' = crowded
    BY <1>5 DEF Wait, Check, Look, PublishCmd, PublishStop, Goto, Live, TypeOK, worldVars
  <2> QED
    BY <1>1, <2>1
<1>6. CASE \/ \E g \in Goal : HandleCancel(g) \/ Canceling(g) \/ Expire(g)
           \/ OnOdom \/ Move \/ UNCHANGED vars
  <2>1. Live' = Live /\ crowded' = crowded
    BY <1>6 DEF HandleCancel, Canceling, Expire, OnOdom, Move, vars, loopVars, worldVars, Live
  <2> QED
    BY <1>1, <2>1
<1> QED
  BY <1>2, <1>3, <1>4, <1>5, <1>6 DEF Next, Thread

\* Cells are integers.
LEMMA Cells ==
  TypeOK => /\ odom.x \in Int /\ robot.x \in Int
            /\ \A g \in Goal : Target[g] \in Int
  BY DriveAssumption DEF TypeOK, Pose

LEMMA SeenStep == TypeOK /\ Seen /\ [Next]_vars => Seen'
<1> SUFFICES ASSUME TypeOK, Seen, [Next]_vars PROVE Seen'
  OBVIOUS
<1>1. CASE UNCHANGED <<odom, robot, poseValid, pc>>
  BY <1>1 DEF Seen
<1>2. ASSUME NEW g \in Goal,
             \/ Accept(g) \/ Wait(g) \/ Check(g) \/ Look(g) \/ PublishCmd(g)
             \/ PublishStop(g) \/ Report(g)
      PROVE  Seen'
  <2>1. UNCHANGED <<odom, robot, poseValid>>
    BY <1>2 DEF Accept, Wait, Check, Look, PublishCmd, PublishStop, Report, worldVars
  <2>2. \A h \in Goal : pc'[h] \in {"check", "look", "publish", "stop"} => poseValid
    BY <1>2 DEF Accept, Wait, Check, Look, PublishCmd, PublishStop, Report, Goto, Seen, TypeOK
  <2> QED
    BY <2>1, <2>2 DEF Seen
<1>3. CASE \E g \in Goal : HandleCancel(g) \/ Canceling(g) \/ Expire(g)
  BY <1>1, <1>3 DEF HandleCancel, Canceling, Expire, loopVars, worldVars
<1>4. CASE UNCHANGED vars
  BY <1>1, <1>4 DEF vars, loopVars, worldVars
<1>5. CASE OnOdom
  <2>1. odom' = robot /\ robot' = robot /\ poseValid' /\ pc' = pc
    BY <1>5, Zenon DEF OnOdom, loopVars, worldVars
  <2> QED
    BY <2>1, Cells DEF Seen
<1>6. CASE Move
  <2>1. UNCHANGED <<odom, poseValid, pc>> /\ (poseValid => odom = robot)
    BY <1>6 DEF Move, loopVars
  <2>2. robot'.x - robot.x \in -1..1 /\ robot'.x \in Int
    BY <1>6, Cells DEF Move
  <2> QED
    BY <2>1, <2>2, Cells DEF Seen
<1>7. CASE Crash
  <2>1. ~poseValid' /\ \A g \in Goal : pc'[g] = "idle"
    BY <1>7, Zenon DEF Crash
  <2> QED
    BY <2>1 DEF Seen
<1> QED
  BY <1>2, <1>3, <1>4, <1>5, <1>6, <1>7 DEF Next, Thread

LEMMA PhasesStep == TypeOK /\ Phases /\ [Next]_vars => Phases'
<1> SUFFICES ASSUME TypeOK, Phases, [Next]_vars PROVE Phases'
  OBVIOUS
<1>1. CASE UNCHANGED <<pc, phase, result>>
  BY <1>1 DEF Phases
<1>2. ASSUME NEW g \in Goal, Accept(g) \/ Wait(g) \/ Check(g) PROVE Phases'
  BY <1>2 DEF Accept, Wait, Check, Goto, Phases, TypeOK
<1>3. ASSUME NEW g \in Goal, Look(g) PROVE Phases'
  BY <1>3 DEF Look, Goto, Phases, TypeOK
<1>4. ASSUME NEW g \in Goal, PublishCmd(g) \/ PublishStop(g) \/ Report(g) PROVE Phases'
  BY <1>4 DEF PublishCmd, PublishStop, Report, Goto, Phases, TypeOK
<1>5. CASE \/ \E g \in Goal : HandleCancel(g) \/ Canceling(g) \/ Expire(g)
           \/ OnOdom \/ Move \/ UNCHANGED vars
  BY <1>1, <1>5 DEF HandleCancel, Canceling, Expire, OnOdom, Move, vars, loopVars
<1>6. CASE Crash
  BY <1>6 DEF Crash, Phases
<1> QED
  BY <1>2, <1>3, <1>4, <1>5, <1>6 DEF Next, Thread

\* Whoever looks while it has the robot to itself, and is in the last phase
\* then, has the robot at its target and a plan to stop.
LEMMA LookParks ==
  ASSUME TypeOK, Seen, Parked, NEW g \in Goal \ crowded, Look(g), phase'[g] = "yaw"
  PROVE  robot.x - Target[g] \in -1..1 /\ ~plan'[g].go /\ (pc'[g] # "publish" => ~cmd.go)
<1>1. pc[g] = "look" /\ poseValid /\ odom.x - robot.x \in -1..1
  BY Zenon DEF Look, Goto, Seen
<1>2. CASE phase[g] = "yaw"
  <2>1. robot.x - Target[g] \in -1..1 /\ ~plan[g].go /\ ~cmd.go
    BY <1>1, <1>2 DEF Parked
  <2>2. Steer(g).go = FALSE
    BY <1>2 DEF Steer, Stop
  <2>3. plan'[g] = plan[g] \/ plan'[g] = Steer(g)
    BY DEF Look, TypeOK
  <2> QED
    BY <2>1, <2>2, <2>3
<1>3. CASE phase[g] # "yaw"
  <2>1. pc'[g] = "publish" /\ NextPhase(g) = "yaw" /\ plan'[g] = Steer(g)
    BY <1>3 DEF Look, Goto, TypeOK
  <2>2. odom.x = Target[g]
    BY <1>3, <2>1 DEF NextPhase, Near
  <2>3. Steer(g).go = FALSE
    BY <1>3, <2>1 DEF Steer, Stop
  <2> QED
    BY <1>1, <2>1, <2>2, <2>3, Cells
<1> QED
  BY <1>2, <1>3

LEMMA ParkedStep == TypeOK /\ Arrival /\ [Next]_vars => Parked'
<1> SUFFICES ASSUME TypeOK, Arrival, Next \/ UNCHANGED vars,
                    NEW g \in Goal \ crowded', phase'[g] = "yaw"
             PROVE  robot'.x - Target[g] \in -1..1 /\ ~plan'[g].go
                    /\ (pc'[g] # "publish" => ~cmd'.go)
  BY DEF Parked
<1>0. Alone /\ Seen /\ Phases /\ Parked
  BY DEF Arrival
<1>1. ASSUME g \notin crowded, phase[g] = "yaw", UNCHANGED robot, plan'[g] = plan[g],
             pc'[g] # "publish" => pc[g] # "publish", cmd' = cmd \/ ~cmd'.go
      PROVE  /\ robot'.x - Target[g] \in -1..1 /\ ~plan'[g].go
             /\ (pc'[g] # "publish" => ~cmd'.go)
  BY <1>0, <1>1 DEF Parked
<1>2. ASSUME NEW h \in Goal, Accept(h)
      PROVE  /\ robot'.x - Target[g] \in -1..1 /\ ~plan'[g].go
             /\ (pc'[g] # "publish" => ~cmd'.go)
  <2>1. g \notin crowded /\ phase[g] = "yaw" /\ UNCHANGED <<robot, plan, cmd>>
    BY <1>2 DEF Accept, cmdVars
  <2>2. pc'[g] # "publish" => pc[g] # "publish"
    BY <1>2 DEF Accept, Goto, TypeOK
  <2> QED
    BY <1>1, <2>1, <2>2
<1>3. ASSUME NEW h \in Goal, HandleCancel(h) \/ Canceling(h) \/ Expire(h)
      PROVE  /\ robot'.x - Target[g] \in -1..1 /\ ~plan'[g].go
             /\ (pc'[g] # "publish" => ~cmd'.go)
  <2>1. g \notin crowded /\ phase[g] = "yaw" /\ UNCHANGED <<robot, plan, pc>>
    BY <1>3 DEF HandleCancel, Canceling, Expire, loopVars, worldVars
  <2>2. cmd' = cmd \/ cmd' = Stop
    BY <1>3 DEF HandleCancel, Canceling, Expire, Publish, cmdVars
  <2> QED
    BY <1>1, <2>1, <2>2 DEF Stop
<1>4. CASE OnOdom \/ UNCHANGED vars
  <2>1. g \notin crowded /\ phase[g] = "yaw" /\ UNCHANGED <<robot, plan, pc, cmd>>
    BY <1>4 DEF OnOdom, vars, loopVars, worldVars, cmdVars
  <2> QED
    BY <1>1, <2>1
<1>5. CASE Move
  <2>1. /\ g \notin crowded /\ phase[g] = "yaw" /\ UNCHANGED <<plan, pc, cmd>>
        /\ pc[g] \in {"idle", "wait", "check"}
    BY <1>5 DEF Move, loopVars, cmdVars
  <2>2. robot.x - Target[g] \in -1..1 /\ ~plan[g].go /\ ~cmd.go
    BY <1>0, <2>1 DEF Parked
  <2>3. robot'.x = robot.x
    BY <1>5, <2>2 DEF Move
  <2> QED
    BY <2>1, <2>2, <2>3
<1>6. CASE Crash
  BY <1>6 DEF Crash
<1>7. ASSUME NEW h \in Goal, Thread(h), h = g
      PROVE  /\ robot'.x - Target[g] \in -1..1 /\ ~plan'[g].go
             /\ (pc'[g] # "publish" => ~cmd'.go)
  <2>1. CASE Wait(g) \/ Check(g)
    <3>1. g \notin crowded /\ phase[g] = "yaw" /\ UNCHANGED <<robot, plan, cmd>>
      BY <2>1 DEF Wait, Check, worldVars, cmdVars
    <3>2. pc'[g] # "publish" => pc[g] # "publish"
      BY <2>1 DEF Wait, Check, Goto
    <3> QED
      BY <1>1, <3>1, <3>2
  <2>2. CASE Look(g)
    <3>1. g \notin crowded /\ UNCHANGED <<robot, cmd>>
      BY <2>2 DEF Look, worldVars, cmdVars
    <3> QED
      BY <1>0, <2>2, <3>1, LookParks
  <2>3. CASE PublishCmd(g)
    <3>1. /\ g \notin crowded /\ phase[g] = "yaw" /\ UNCHANGED robot
          /\ cmd' = plan[g] /\ plan'[g] = Stop
      BY <2>3 DEF PublishCmd, Publish, TypeOK
    <3>2. robot.x - Target[g] \in -1..1 /\ ~plan[g].go
      BY <1>0, <3>1 DEF Parked
    <3> QED
      BY <3>1, <3>2 DEF Stop
  <2>4. CASE PublishStop(g)
    <3>1. /\ g \notin crowded /\ phase[g] = "yaw" /\ UNCHANGED <<robot, plan>>
          /\ cmd' = Stop /\ pc[g] = "stop"
      BY <2>4 DEF PublishStop, Publish, Goto, worldVars
    <3> QED
      BY <1>1, <3>1 DEF Stop
  <2>5. CASE Report(g)
    BY <2>5 DEF Report, TypeOK
  <2> QED
    BY <1>7, <2>1, <2>2, <2>3, <2>4, <2>5 DEF Thread
<1>8. ASSUME NEW h \in Goal, Thread(h), h # g
      PROVE  /\ robot'.x - Target[g] \in -1..1 /\ ~plan'[g].go
             /\ (pc'[g] # "publish" => ~cmd'.go)
  <2>1. pc[h] # "idle" /\ phase'[g] = phase[g] /\ pc'[g] = pc[g]
    BY <1>8 DEF Thread, Wait, Check, Look, PublishCmd, PublishStop, Report, Goto, TypeOK
  <2>2. g \notin crowded \/ Report(h)
    BY <1>8 DEF Thread, Wait, Check, Look, PublishCmd, PublishStop, worldVars
  <2>3. g \notin crowded
    BY <1>8, <2>2 DEF Report
  <2>4. pc[g] # "idle"
    BY <1>0, <2>1 DEF Phases
  <2> QED
    BY <1>0, <1>8, <2>1, <2>3, <2>4 DEF Alone, Live
<1> QED
  BY <1>2, <1>3, <1>4, <1>5, <1>6, <1>7, <1>8 DEF Next

\* A goal that succeeds with the robot to itself has brought it to the target
\* (drive_to_pose_server.cpp:258-272).
THEOREM SuccessIsArrival == Spec => []ArrivedAtTarget
<1>1. Init => Arrival
  BY DEF Init, Arrival, Alone, Live, Seen, Phases, Parked
<1>2. TypeOK /\ Arrival /\ [Next]_vars => Arrival'
  BY AloneStep, SeenStep, PhasesStep, ParkedStep DEF Arrival
<1>3. Arrival => ArrivedAtTarget
  BY DEF Arrival, Phases, Parked, ArrivedAtTarget
<1> QED
  BY <1>1, <1>2, <1>3, DriveTypeCorrect, PTL DEF Spec
=============================================================================
