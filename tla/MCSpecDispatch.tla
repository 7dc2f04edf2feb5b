--------------------------- MODULE MCSpecDispatch ---------------------------
(* Classes and documents: VisitThreePoints with the skill states it uses    *)
(* (mw_hfsm_examples, mw_skill_states), SubJobs that use what it does not,  *)
(* and documents that build and that do not.                                *)
EXTENDS SpecCharts, TLC

MCRegistry == "DriveToPoseState" :> "DriveToPoseState"
           @@ "MoveMotorState" :> "MoveMotorState"
           @@ "CaptureImageState" :> "CaptureImageState"
           @@ "probe" :> "Probe"
           @@ "VisitThreePoints" :> "VisitThreePoints"
           @@ "Scan" :> "Scan" @@ "Patrol" :> "Patrol"
           @@ "Probing" :> "Probing" @@ "Silent" :> "Silent"
           @@ "Nesting" :> "Nesting" @@ "Hurried" :> "Hurried"
           @@ "Log" :> "Log"

\* All but a class registered by mistake.
MCStateClass == {MCRegistry[i] : i \in DOMAIN MCRegistry} \ {"Log"}

MCAccepts ==
  [c \in {MCRegistry[i] : i \in DOMAIN MCRegistry} |->
     CASE c = "DriveToPoseState" -> {"target_x", "target_y"}
       [] c = "MoveMotorState" -> {"motor_id", "target_position"}
       [] c = "CaptureImageState" -> {"camera_id", "save_path"}
       [] OTHER -> {}]

To(done, failed) == "done" :> done @@ "failed" :> failed
Target(x) == "target_x" :> x @@ "target_y" :> 0
Driving == "succeeded" :> "done" @@ "failed" :> "failed"

\* _build_go_step
Go(args) == Machine("StateMachine", {"done", "failed"}, NoName, {},
              <<Named("drive", Leaf("DriveToPoseState", args))>>,
              "drive" :> Driving)
SubJobOf(outcomes, initial, children, transitions) ==
  Machine("BehaviorSM", outcomes, initial, {}, children, transitions)
One(child) == SubJobOf({"done", "failed"}, NoName, <<Named("one", child)>>,
                       "one" :> To("done", "failed"))
Camera == Leaf("CaptureImageState", NoEntries)
Motor == Leaf("MoveMotorState", NoEntries)
Both(poll) == Parallel(<<Named("left", Region(Motor, Driving)),
                         Named("right", Region(Camera, Driving))>>, poll)

MCComposed ==
  "VisitThreePoints" :>
     SubJobOf({"done", "failed"}, NoName,
              <<Named("GO_P1", Go(Target(1))), Named("GO_P2", Go(Target(2)))>>,
              "GO_P1" :> To("GO_P2", "failed") @@ "GO_P2" :> To("done", "failed"))
  @@ "Scan" :> SubJobOf({"done"}, "both",
                 <<Named("go", Go(NoEntries)), Named("both", Both(DefaultPoll))>>,
                 "go" :> To("done", "both") @@ "both" :> To("go", "done"))
  @@ "Patrol" :> One(Retry(Motor))
  @@ "Probing" :> One(Leaf("Probe", NoEntries))
  @@ "Silent" :> SubJobOf({}, NoName, <<Named("one", Camera)>>, "one" :> Driving)
  @@ "Nesting" :> One(One(Both(DefaultPoll)))
  @@ "Hurried" :> One(Both(1))

\* "route" drives somewhere and then visits the three points; "step" is no
\* SubJob, has an argument its state does not take and a ref that is no State.
MCDocument ==
  "route" :> [kind |-> "BehaviorSM", outcomes |-> {}, initial |-> "go", params |-> {},
              children |-> <<Named("visit", StateSpec("VisitThreePoints", NoEntries)),
                             Named("go", StateSpec("DriveToPoseState", Target(3)))>>,
              transitions |-> "go" :> ("succeeded" :> "visit")]
  @@ "step" :> [kind |-> "StateMachine", outcomes |-> {"done"}, initial |-> NoName,
                params |-> {},
                children |-> <<Named("go", StateSpec("DriveToPoseState", "speed" :> 1)),
                               Named("log", StateSpec("Log", NoEntries))>>,
                transitions |-> NoEntries]

\* As authored by clients, the last one without a "kind".
MCSavable == DOMAIN MCDocument
MCContent == MCSavable \cup {"text"}
=============================================================================
