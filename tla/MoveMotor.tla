----------------------------- MODULE MoveMotor -----------------------------
(***************************************************************************)
(* The move_motor skill (mw_skill_library/src/move_motor_server.cpp) and   *)
(* one motor of the virtual robot behind it (virtual_robot_node.py).  A    *)
(* goal runs on a detached thread: it commits its target by a service call *)
(* and then watches the last status its process has received.  The robot   *)
(* serves requests, timers and faults one at a time; what it publishes     *)
(* takes time to arrive.                                                   *)
(*                                                                         *)
(* Positions are cells: to be within tolerance of the target is to be in   *)
(* its cell.  The clock of a goal counts the deadlines that have passed.   *)
(***************************************************************************)
EXTENDS Integers, Sequences

CONSTANTS Goal,       \* MoveMotor goals, all for the one motor
          NoGoal,
          Top,        \* the motor moves over the cells 0..Top
          Target,     \* target_position of each goal
          Cancelable, \* bound: the goals clients may cancel
          Kinds,      \* bound: the kinds of fault injected, "OK" for "clear"
          MaxEvents,  \* bound on faults, resets and deaths of the skill
          MaxWire     \* bound on the status messages under way

Status == {"OK", "STUCK", "DEAD", "UNREACHABLE"}

ASSUME MotorAssumption ==
  /\ Top \in Nat /\ Target \in [Goal -> 0..Top] /\ NoGoal \notin Goal
  /\ Cancelable \subseteq Goal /\ Kinds \subseteq Status
  /\ MaxEvents \in Nat /\ MaxWire \in Nat \ {0}

VARIABLES
  goalState, \* rclcpp: the state of each goal
  pc,        \* where its thread stands in execute()
  clock,     \* the deadlines that passed in its current wait
  answer,    \* the response to its set_motor_target request
  latest,    \* latest_[motor_id], an empty sequence before the first message
  requests,  \* set_motor_target requests the robot has not served, in order
  wire,      \* status messages the skill has not received, in order
  motor,     \* the Motor in the robot
  sole,      \* history: the last goal, if it has the motor to itself
  events     \* history: faults, resets and deaths so far

skillVars == <<goalState, pc, clock>>
robotVars == <<motor, answer>>
vars == <<skillVars, latest, requests, wire, robotVars, sole, events>>

Motor == [position : 0..Top, target : 0..Top, status : Status]
MotorStatus == [position : 0..Top, status : Status]
Active == {"executing", "canceling"}
Looping == {"check", "look"}

Init ==
  /\ goalState = [g \in Goal |-> "none"]
  /\ pc = [g \in Goal |-> "idle"]
  /\ clock = [g \in Goal |-> 0]
  /\ answer = [g \in Goal |-> "none"]
  /\ latest = << >> /\ requests = << >> /\ wire = << >>
  /\ motor = [position |-> 0, target |-> 0, status |-> "OK"]
  /\ sole = NoGoal /\ events = 0

Goto(g, from, to) == pc[g] = from /\ pc' = [pc EXCEPT ![g] = to]
Restart(g) == clock' = [clock EXCEPT ![g] = 0]
DropAnswer(g) == answer' = [answer EXCEPT ![g] = "none"]

\* gh->succeed(), abort() or canceled(): each may follow a cancel request.
End(g, how) ==
  /\ goalState' = [goalState EXCEPT ![g] = how]
  /\ pc' = [pc EXCEPT ![g] = "idle"]

-----------------------------------------------------------------------------
(* Callbacks of the skill.                                                 *)

\* handleGoal accepts whatever runs already; handleAccepted starts a thread.
Accept(g) ==
  /\ goalState[g] = "none"
  /\ goalState' = [goalState EXCEPT ![g] = "executing"]
  /\ Goto(g, "idle", "discover")
  /\ sole' = IF \A h \in Goal : pc[h] = "idle" THEN g ELSE NoGoal
  /\ UNCHANGED <<clock, latest, requests, wire, robotVars, events>>

\* handleCancel accepts every request and leaves the motor alone.
Cancel(g) ==
  /\ goalState[g] = "executing" /\ g \in Cancelable
  /\ goalState' = [goalState EXCEPT ![g] = "canceling"]
  /\ UNCHANGED <<pc, clock, latest, requests, wire, robotVars, sole, events>>

\* onStatus
OnStatus ==
  /\ wire # << >>
  /\ latest' = <<Head(wire)>>
  /\ wire' = Tail(wire)
  /\ UNCHANGED <<skillVars, requests, robotVars, sole, events>>

-----------------------------------------------------------------------------
(* execute(), on the thread of the goal.                                   *)

\* 2 s of wait_for_service and of the future; 2 s and 30 s of the loop.
Tick(g) ==
  /\ \/ pc[g] \in {"discover", "commit"} /\ clock[g] < 1
     \/ pc[g] \in Looping /\ clock[g] < 2
  /\ clock' = [clock EXCEPT ![g] = @ + 1]
  /\ UNCHANGED <<goalState, pc, latest, requests, wire, robotVars, sole, events>>

\* The service is there: the request is sent.
SendTarget(g) ==
  /\ Goto(g, "discover", "commit")
  /\ Restart(g)
  /\ requests' = Append(requests, g)
  /\ UNCHANGED <<goalState, latest, wire, robotVars, sole, events>>

\* Mutant: a request without an answer is taken to be on its way.
CommitTimeOut_Proceeds(g) ==
  /\ pc[g] \in {"discover", "commit"} /\ clock[g] = 1
  /\ pc' = [pc EXCEPT ![g] = "check"]
  /\ Restart(g) /\ DropAnswer(g)
  /\ UNCHANGED <<goalState, latest, requests, wire, motor, sole, events>>

\* No service, or no answer: the request may still be served afterwards.
CommitTimeOut(g) ==
  /\ pc[g] \in {"discover", "commit"} /\ clock[g] = 1
  /\ End(g, "aborted")
  /\ Restart(g) /\ DropAnswer(g)
  /\ UNCHANGED <<latest, requests, wire, motor, sole, events>>

\* Mutant: the answer is awaited but not looked at.
TakeAnswer_Any(g) ==
  /\ pc[g] = "commit" /\ answer[g] # "none"
  /\ pc' = [pc EXCEPT ![g] = "check"]
  /\ Restart(g) /\ DropAnswer(g)
  /\ UNCHANGED <<goalState, latest, requests, wire, motor, sole, events>>

\* The future is ready.
TakeAnswer(g) ==
  /\ pc[g] = "commit"
  /\ \/ answer[g] = "rejected" /\ End(g, "aborted")
     \/ answer[g] = "accepted" /\ Goto(g, "commit", "check") /\ UNCHANGED goalState
  /\ Restart(g) /\ DropAnswer(g)
  /\ UNCHANGED <<latest, requests, wire, motor, sole, events>>

\* Mutant: waits for the motor as long as it takes.
Check_NoTimeout(g) ==
  /\ \/ pc[g] = "check" /\ goalState[g] = "canceling" /\ End(g, "canceled")
     \/ /\ goalState[g] = "executing" /\ Goto(g, "check", "look")
        /\ UNCHANGED goalState
  /\ UNCHANGED <<clock, latest, requests, wire, robotVars, sole, events>>

\* The head of the loop.
Check(g) ==
  /\ \/ pc[g] = "check" /\ goalState[g] = "canceling" /\ End(g, "canceled")
     \/ pc[g] = "check" /\ goalState[g] = "executing" /\ clock[g] = 2 /\ End(g, "aborted")
     \/ /\ goalState[g] = "executing" /\ clock[g] < 2 /\ Goto(g, "check", "look")
        /\ UNCHANGED goalState
  /\ UNCHANGED <<clock, latest, requests, wire, robotVars, sole, events>>

There(g) == latest # << >> /\ latest[1].position = Target[g]
Failed(g) ==
  /\ latest # << >>
  /\ \/ latest[1].status \in {"DEAD", "UNREACHABLE"}
     \/ latest[1].status = "STUCK" /\ clock[g] >= 1 /\ ~There(g)

\* tryGetStatus and what follows from it, then the sleep.  Nothing asks
\* whether the status is older than the commit.
Look(g) ==
  /\ pc[g] = "look"
  /\ \/ Failed(g) /\ End(g, "aborted")
     \/ ~Failed(g) /\ There(g) /\ End(g, "succeeded")
     \/ ~Failed(g) /\ ~There(g) /\ Goto(g, "look", "check") /\ UNCHANGED goalState
  /\ UNCHANGED <<clock, latest, requests, wire, robotVars, sole, events>>

Thread(g) == SendTarget(g) \/ CommitTimeOut(g) \/ TakeAnswer(g) \/ Check(g) \/ Look(g)

-----------------------------------------------------------------------------
(* The robot.                                                              *)

\* _set_target_cb.  The answer to a goal that has given up is dropped.
SetTarget ==
  /\ requests # << >>
  /\ LET g == Head(requests)
         accepted == motor.status # "DEAD"
     IN  /\ motor' = IF accepted THEN [motor EXCEPT !.target = Target[g]] ELSE motor
         /\ answer' = [answer EXCEPT ![g] = IF pc[g] # "commit" THEN "none"
                                            ELSE IF accepted THEN "accepted"
                                            ELSE "rejected"]
  /\ requests' = Tail(requests)
  /\ UNCHANGED <<skillVars, latest, wire, sole, events>>

\* _update_physics: some way towards the target, unless there is a fault.
UpdatePhysics ==
  /\ motor.status = "OK" /\ motor.position # motor.target
  /\ \E p \in (motor.position + 1)..motor.target \cup motor.target..(motor.position - 1) :
       motor' = [motor EXCEPT !.position = p]
  /\ UNCHANGED <<skillVars, latest, requests, wire, answer, sole, events>>

\* _publish_status
PublishStatus ==
  /\ Len(wire) < MaxWire
  /\ wire' = Append(wire, [position |-> motor.position, status |-> motor.status])
  /\ UNCHANGED <<skillVars, latest, requests, robotVars, sole, events>>

\* _inject_fault_cb, "clear" included: the target stays.
InjectFault(kind) ==
  /\ events < MaxEvents /\ motor.status # kind
  /\ motor' = [motor EXCEPT !.status = kind]
  /\ events' = events + 1
  /\ UNCHANGED <<skillVars, latest, requests, wire, answer, sole>>

\* _reset_cb, whatever goals are under way.
Reset ==
  /\ events < MaxEvents
  /\ motor' = [position |-> 0, target |-> 0, status |-> "OK"]
  /\ sole' = NoGoal
  /\ events' = events + 1
  /\ UNCHANGED <<skillVars, latest, requests, wire, answer>>

\* The process of the skill dies and another is started.  Requests the robot
\* has received are still served, before any of the next process.
Crash ==
  /\ events < MaxEvents
  /\ events' = events + 1
  /\ goalState' = [g \in Goal |-> IF goalState[g] \in Active THEN "lost" ELSE goalState[g]]
  /\ pc' = [g \in Goal |-> "idle"]
  /\ clock' = [g \in Goal |-> 0]
  /\ answer' = [g \in Goal |-> "none"]
  /\ latest' = << >> /\ wire' = << >>
  /\ \E n \in 0..Len(requests) : requests' = SubSeq(requests, 1, n)
  /\ UNCHANGED <<motor, sole>>

Robot == SetTarget \/ UpdatePhysics \/ PublishStatus
Event == Reset \/ Crash \/ \E kind \in Kinds : InjectFault(kind)

-----------------------------------------------------------------------------
Next == \/ \E g \in Goal : Accept(g) \/ Cancel(g) \/ Tick(g) \/ Thread(g)
        \/ OnStatus \/ Robot \/ Event

Spec == Init /\ [][Next]_vars

\* Threads run, time passes and the physics timer ticks.  That the robot
\* answers, or publishes, is not assumed.
FairSpec == /\ Spec /\ WF_vars(UpdatePhysics)
            /\ \A g \in Goal : WF_vars(Tick(g)) /\ WF_vars(Thread(g))

-----------------------------------------------------------------------------
(* Properties.                                                             *)

GoalsOK ==
  /\ goalState \in [Goal -> {"none", "succeeded", "aborted", "canceled", "lost"} \cup Active]
  /\ pc \in [Goal -> {"idle", "discover", "commit"} \cup Looping]
  /\ \A g \in Goal : pc[g] # "idle" <=> goalState[g] \in Active
  /\ answer \in [Goal -> {"none", "accepted", "rejected"}]
  /\ \A g \in Goal : answer[g] # "none" => pc[g] = "commit"

TypeOK ==
  /\ GoalsOK
  /\ clock \in [Goal -> 0..2]
  /\ latest \in Seq(MotorStatus) /\ Len(latest) <= 1
  /\ requests \in Seq(Goal)
  /\ wire \in Seq(MotorStatus) /\ Len(wire) <= MaxWire
  /\ motor \in Motor
  /\ sole \in Goal \cup {NoGoal}
  /\ events \in 0..MaxEvents

\* A goal that nothing shares the motor with watches a motor that is on its
\* way to the target of that goal, and leaves it so when it succeeds: the
\* requests of goals that gave up before it, served late, come first.
TargetIsOwn ==
  sole # NoGoal /\ (pc[sole] \in Looping \/ goalState[sole] = "succeeded") =>
    motor.target = Target[sole]

\* A success may be told from a status that is older than the commit, with
\* the motor elsewhere.  Still, unless a fault stops it or somebody else uses
\* it, the motor ends where the result says it is.
SuccessSettles ==
  \A g \in Goal :
    (sole = g /\ goalState[g] = "succeeded") ~>
      (motor.position = Target[g] \/ motor.status # "OK" \/ sole # g)

\* Every accepted goal ends, in every phase, with a robot that never answers
\* or publishes, is reset under it or is left stuck.
GoalEnds == \A g \in Goal : pc[g] # "idle" ~> pc[g] = "idle"
=============================================================================
