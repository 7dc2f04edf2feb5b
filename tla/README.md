# Verification of the mw robot Task Manager

TLA+ models of the Task Manager in `src/`: the HFSM executor that serves
`ExecuteSubJob`, the engine it runs, the skills below it, the supervisor that
keeps them alive, the task repository it loads SubJobs from and the RCS bridge that
sends it orders. TLC checks the models on small instances; TLAPS proves the most
important properties for every instance. Paths below are relative to `src/`.

    tlc -workers 2 -config HfsmExecutor.cfg HfsmExecutor     # one run
    tlapm HfsmExecutorProofs.tla                              # one proof module

`PROJECT.json` lists the runs, the lines each definition translates (`map`), a
mutated definition that breaks each property (`mutants`, the operators
`X_Something` that stand before `X` in the modules), the hazards of the code and the
theorems.

## 1. The system

    web GUI / CLI / RCS bridge
            | ExecuteSubJob goal, cancel                     /mw_hfsm_status
            v                                                      ^
    hfsm_executor  --- load_task ---> task repository              |
            | BehaviorSM.run (worker thread)  ----- active path ---+
            v
    HFSM engine: StateMachine / Retry / Parallel / leaf State
            | lifecycle services, action goals
            v
    skill nodes (move_motor, capture_image, drive_to_pose)  <--- supervisor
            |
            v
    virtual robot, or a mobile base on /cmd_vel and /odom

| component | state it keeps | operations | hard behaviour | correct when | module |
|---|---|---|---|---|---|
| executor `mw_task_manager/hfsm_executor_node.py` | `_busy`, current token, published fields, goals | goal, execute, cancel callbacks, status timer | callbacks on as many threads as come; test of `_busy` apart from its setting; failing SubJobs | never left busy, one result per goal, cancels reach their own run only, messages coherent | `HfsmExecutor`, `HfsmStatus` |
| engine `mw_hfsm_engine` state_machine, behavior_sm, decorators, cancel, observer | call stack, contextvars, global path | `run`, `execute`, `enter`/`exit`, `request` | exceptions through nested containers, cancel from another thread, loops | run ends, declared outcome or exception, path is the stack | `HfsmEngine` |
| Parallel `mw_hfsm_engine/parallel.py` | winner, errors, region threads | `execute` | regions racing each other and the caller's poll | first one wins, errors only if all failed, caller released | `ParallelComposite` |
| spec loader `mw_hfsm_engine/spec_loader.py`, `to_spec`, registry | tree under construction | `build_from_spec`, `to_spec`, `resolve` | two translations that must agree | the published chart builds the SubJob that runs | `SpecLoader`, `SpecCharts` |
| userdata | one dictionary per run | get, set | shared by region threads | no lost key | not modelled |
| action state `mw_hfsm_ros/lifecycle_action_state.py` | clients, futures | `execute`: probe, recover, goal, result | timeouts, crashes, the supervisor doing the same thing | honest outcome, always ends | `LifecycleAction` |
| supervisor `mw_skill_supervisor` | in-flight flag and deadline per skill | poll timer, done callbacks | lost and late answers, crashes | one call under way, skill brought to ACTIVE | `SkillSupervisor`, `SkillNode` |
| drive_to_pose `mw_skill_library` | pose, one thread per goal | goal, cancel, odometry, control loop | several loops and the cancel handler on one topic | robot not left moving, arrival where asked, ends | `DriveToPose` |
| move_motor `mw_skill_library` | last status, one thread per goal | goal, cancel, commit, status, control loop | status older than the commit, requests served after their goal gave up | watches its own target, success comes true, ends | `MoveMotor`; lifecycle in `SkillNode` |
| capture_image | goals, one request each | goal, cancel, capture | late answer | goal ends | lifecycle in `SkillNode` |
| virtual robot `mw_robot_emulator` | motors, faults, cameras, battery | set target, inject fault, reset, physics timer | faults and resets between the steps of a goal | fault excludes motion, reset clears | a motor in `MoveMotor` |
| task repository `mw_task_repository/repo_node.py` | files, git index and history, set-up of the work tree | list, load, save | write, add, commit fail one by one; dead in between | an acknowledged save is in file and history; a dispatch gets it | `TaskRepository`, `SpecDispatch` |
| RCS bridge `mw_rcs_bridge` | `_pending` orders, goal futures, last order and status | submit, cancel, snapshot | HTTP thread against ROS callbacks; reused ids; restarts | a cancel reaches its order and no other | `RcsBridge`; above the executor itself: `BridgedExecutor` |
| web GUI `useRos.ts` | socket, channels, subscriptions | connect, subscribe | no resubscription after a reconnect | subscriptions survive a reconnect | not modelled |
| examples | none | one SubJob | - | the tree its constructor builds | `MCSpecDispatch` |
| GUI components, start script, CLI, launch | none of their own | rendering, clients, values | - | - | not modelled |

How they interact: the executor calls the engine on a worker thread and hands it a
cancel token; the engine publishes its path through a module variable that the
status timer reads; leaf states call services and actions of the skills through
futures they poll; the supervisor calls the same lifecycle services on its own; the
skills drive the robot by topics and services. The executor finds a SubJob in the
registry of imported classes or asks the repository's `load_task` and builds what it
gets; the bridge is one more client of the executor and listens to its status.

## 2. Modules

| module | models | extends / refines |
|---|---|---|
| `SubJobService` | abstract: what the ExecuteSubJob server promises | - |
| `HfsmExecutor` | the action server and the part of rclpy that calls it | implements `SubJobService` |
| `HfsmStatus` | the status timer and the region threads beside all of that | `HfsmExecutor` |
| `BridgedExecutor` | the RCS bridge above `HfsmExecutor`, its only client | `HfsmExecutor`; implements `RcsBridge` |
| `EngineExecutor`, `MCEngineExecutor` | `HfsmEngine` on the worker thread of a goal of `HfsmExecutor`; a tree for TLC | `HfsmExecutor`; implements it, and `HfsmEngine` |
| `HfsmExecutorProofs` | theorems about all of these | `HfsmStatus`, `BridgedExecutor`, `EngineExecutor` |
| `SubJobRun` | abstract: what `BehaviorSM.run` promises to the executor | - |
| `HfsmEngine`, `MCHfsmEngine`, `HfsmEngineProofs` | the interpreter; a tree for TLC | implements `SubJobRun` |
| `ParallelComposite`, `MCParallelComposite`, `ParallelCompositeProofs` | one execution of a Parallel | - |
| `SkillNode` | a lifecycle node, its process and its services | - |
| `SkillSupervisor` | the supervisor of a skill | `SkillNode` |
| `LifecycleAction`, `LifecycleActionProofs` | the action State, the goals of the skill | `SkillSupervisor` |
| `DriveToPose`, `MCDriveToPose`, `DriveToPoseProofs` | the drive skill and the robot | - |
| `MoveMotor`, `MCMoveMotor`, `MoveMotorProofs` | the motor skill and one motor of the virtual robot | - |
| `TaskRepository` | save, load, list and the set-up of the work tree | - |
| `SpecLoader` | `build_from_spec`, `to_spec` and the registry, as operators | - |
| `SpecDispatch`, `SpecDispatchProofs` | how a dispatch gets its SubJob; theorems about it and the repository | `TaskRepository` |
| `SpecCharts`, `MCSpecDispatch` | the trees that dispatches build, their charts; classes and documents for TLC | `SpecDispatch`, `SpecLoader` |
| `RcsBridge`, `RcsBridgeProofs` | the bridge above any executor | instantiates `SubJobService` |

**HfsmExecutor.** A goal stands for its request and its SubJob; an id, spec or
snapshot is the goal it belongs to. `pc[g]` is the place of g in `_execute_goal`;
every section under `_status_lock` is one action (`Begin`, `CancelledSection`,
`FinishSection`, `FailSection`, and `FinishRaises` for a `json.dumps` that raises
inside the section), all between them interleaves. The cancel of a goal is three
steps, as rclpy makes it: the callback reads the current token (`CancelLookup`),
sets it (`CancelFlip`), and only then does the goal become CANCELING
(`CancelNotify`). A serial client (`SerialClient`) sends a goal when it has the result
of the last one and the answer to its cancel request. `RunStep`, `RunCancel`, `RunEnd` stand for the engine: they do
what `SubJobRun` allows, and `RunCancel` polls the token. `RunStep` writes the path also
when the token is set: the children that `CancelledError` leaves put back their
parents' paths, and one that is about to be entered still is. `HfsmStatus` adds the region threads of
a Parallel, which write the path beside the run and after it, and the status timer
in its two reads (path, then fields).

**HfsmEngine.** One thread as an explicit stack of `execute()` calls. A frame has
the child a machine is at, its visits (or attempts of a retry), and the parent path
`observer.enter` returned. Returns and exceptions travel in `mode`/`value`. Leaves
return any outcome, declared or not, raise, poll the token, or never end.

**EngineExecutor.** `HfsmExecutor` with one goal, `Traced`, whose SubJob is no longer
left open: between `RunEnter` and `RunEnd` or `RunCancel` the interpreter of `HfsmEngine`
runs on the thread of that goal, its token being `tokenSet[Traced]`, and what it writes
to `_GLOBAL_PATH` competes with the other goals. `After` is the clause of
`_execute_goal` that takes over from `run()`. `Traced` is any goal, so what is proved
holds of each. Like `BridgedExecutor` the module is there for its theorems and has no
row among the runs; `EngineExecutor.cfg` (overlapping clients, 1.7 million states) and
`EngineExecutor_serial.cfg` have TLC check all of its properties on a tree of five nodes.

**ParallelComposite.** Region threads (start, return or raise, lock section, death)
and the caller's loop with its four reads in their order. `context` records which
threads have the token: a Python thread starts in an empty context.

**SkillNode, SkillSupervisor.** A call occupies a slot from request to answer; a
request without a process is lost, an answer survives its process. The supervisor's
callbacks are atomic (single-threaded executor). `late` counts deadlines that passed
on calls that were not lost.

**LifecycleAction.** Adds the State's thread (`step`), its executions one after the
other and their goals at the server, and lets crash, supervisor and State race.

**DriveToPose.** One thread per goal (`wait`, `check`, `look`, `publish`, `stop`,
`report`), callbacks one at a time, the last command on `/cmd_vel`, and a robot that
obeys it. The plane is a corridor of cells with two headings: near is the target's
cell, aligned is its heading.

**MoveMotor.** One thread per goal (`discover`, `commit`, `check`, `look`), the
requests the robot has not served, the status messages the skill has not received,
the last one it has, and the motor. `clock` counts the deadlines a goal has passed:
2 s for the service and its answer, 2 s and 30 s in the loop. `sole` remembers the
last goal as long as no other goal or reset uses the motor.

**TaskRepository.** `at` is the place in `_ensure_repo` or `_save_cb`, one action per
system call that leaves something behind: truncate, write, add, commit. `Fail` is the
`except` at line 136 from any of them, `Crash` the end of the process anywhere;
`file`, `index`, `head` and `setup` survive both. A git that is killed with either has
done its work or not (`Interrupted`), and may leave its lock file (`lock`), which no code
removes and which later gits refuse (`GitRefuses`). `acked` remembers what was answered
with success.

**SpecLoader, SpecDispatch, SpecCharts.** A document is a record of the fields the loader reads, a
tree a record of what the constructors store; `Build` and `ToSpec` are recursive, as
the code is, so nothing is proved about them. `job` is the place of one dispatch in
`_build_subjob`: a class of the registry, or `load_task` with its time-outs, answered
between two callbacks of the repository. What an id or a body builds are constants of
`SpecDispatch`, so its theorems hold for any loader; `SpecCharts` gives them the trees
of `SpecLoader`. `MCSpecDispatch` gives the registry
`VisitThreePoints`, the skill states with the arguments their constructors take,
SubJobs with a Parallel (one with another poll interval), a retry, a nested SubJob and a
class registered under another name, and a class that is no State.

**RcsBridge.** The HTTP thread is one request at a time (`http.at`): read, dispatch
(`wait_for_server`, send), record (`_pending`), or look up and handle of a cancel.
The main thread receives goal responses and status messages in between. The executor
is `SubJobService` (`Exec`), so what holds here holds above anything that implements
it; its `current` goal is what `/mw_hfsm_status` shows.

**BridgedExecutor.** The two processes together: the steps of the bridge, and those of
`HfsmExecutor` with the bridge as their client. A goal comes to the server some time
after `send_goal_async`, a cancel request some time after `cancel_goal_async`; the
executor of `RcsBridge` is given by a refinement mapping (`Bridge`), so the model
implements `RcsBridge`. What it is for is proved (section 4), so it has no row among
the runs; `BridgedExecutor.cfg` has TLC check both of its properties on two orders, the
second of which comes to the server when the first has ended and its cancel request is
answered (1.2 million states). The bridge awaits neither, and with orders that overlap
the space is too large for TLC: that case rests on the proofs, which do not assume it.

## 3. What the runs check

All properties are stated with comments in the modules. `CHECK_DEADLOCK FALSE` is
used where the system stops by design: clients have sent their last goal, or a
SubJob, Parallel or process has ended. `HfsmStatus` and `MoveMotor`, whose timers
never stop, are checked for deadlock. Type invariants are proved by TLAPS for every component; the runs
check only those that say more than a type: the bounds of visits and attempts
(`HfsmEngine`), where calls and goals go with the places of their threads
(`LifecycleAction`, `ParallelComposite`).

| run | question | bounds |
|---|---|---|
| `executor` | any clients: busy justified, status follows busy, cancel ends the run, `SubJobService` with its fairness implemented | 2 goals |
| `status` | clients that await the answers to goals and cancels: never rejected, token isolation, `SubJobService` with exclusion, no message mixes two SubJobs | 2 goals, region threads of one, the timer |
| `engine` | path is the stack, cancel, loops, declared outcomes | 8 nodes, 2 retries, cap 4 |
| `parallel` | winner, errors, release of the caller | 3 regions, 2 raw outcomes |
| `action` | flag covers calls, honest outcomes, orphans, ends, skill brought up | 1 execution, 2 crashes, 1 late answer, 3 slots, errors |
| `drive` | robot not left moving, arrival, cancel, end | 2 goals, one of them cancellable, 3 cells, 2 processes |
| `motor` | the motor's target is the goal's own, success comes true, end | 2 goals, one of them cancellable, 3 cells, 2 faults, resets or deaths, 1 message under way |
| `bridge` | which SubJobs cannot be cancelled, whom a cancel hits, what a snapshot may pair, a repeated cancel gets through | 2 orders, 1 id beside the generated ones, 1 restart; 425 000 states |
| `dispatch` | acknowledged saves stay, the history is whole, a dispatch runs what was saved, a repeated save lands, what the chart keeps | 2 ids (1 with a legacy file), 3 bodies, 12 classes, 2 faults; 1.2 million states |

Three runs show a claim of the code or its comments that does not hold:

| run | claim | what happens |
|---|---|---|
| `executor_overlap` | "Accept one ExecuteSubJob goal at a time" (`hfsm_executor_node.py:5`) | two goals accepted before either has begun both run |
| `executor_lost_cancel` | a cancel flips the token of the run (`hfsm_executor_node.py:144-147`) | a cancel before `Begin` flips no token, or an old one, and the run goes on |
| `parallel_orphans` | every descendant can poll the token (`behavior_sm.py:71-72`) | region threads never see it |

Others met on the way, visible in the models, without a run of their own:
- a run cancelled before rclpy has moved its goal to CANCELING ends "aborted":
  `canceled()` raises (`hfsm_executor_node.py:225`; allowed by `SubJobService`);
- a region thread that outlives its run writes the global path when no SubJob runs
  (`observer.py:52-53` says it is empty then); a message can show a path read before
  the lock (`hfsm_executor_node.py:364-368`). `PublishedCoherent` excepts the path of
  RUNNING messages for that reason: it allows this case and does not catch it;
- after a SubJob ends its id stays published (`HfsmExecutionStatus.msg:4`);
- a finalized skill is never recovered (`supervisor_node.py:6-7` against line 134);
- a State that times out or is cancelled leaves its ROS goal running
  (`lifecycle_action_state.py:243-246`); `OrphansExplained` says exactly when;
- drive_to_pose accepts a second goal while one drives, so "the entire motion is
  owned by THIS SubStep" (`drive_to_pose_server.cpp:4`) holds only for clients that
  await the first: `ArrivedAtTarget` is about goals that had the robot to themselves;
- move_motor may report "ok" from a status older than its commit, with the motor
  elsewhere and under way (`move_motor_server.cpp:209`; `SuccessSettles` says what is
  left of the result), and a cancelled goal leaves the motor running to its target;
- a RetryDecorator starts its inner state again after a cancel
  (`decorators.py:58`): `CancelStopsEntering` allows for it;
- "a single atomic 'in_flight' flag per skill prevents racing transitions"
  (`supervisor_node.py:12`) does not hold: the flag is given up at the deadline (line
  87) with the call still on its way, two transitions may then be served in either
  order, and the State beside it knows nothing of the flag. `RacesExplained`, proved for
  any number of late answers, says which transitions may race; `BringsUp` shows that
  the skill recovers all the same;
- an order that reuses an id takes over the cancel of the one that runs
  (`rcs_bridge_node.py:110`); `order_update_id` (`schema.py:33-35`) is parsed and not
  read. After a restart no running SubJob can be cancelled by its id
  (`UncancelableExplained`);
- a cancel may stop another order than the one it names, because the cancel callback
  flips the current token: one that was posted when two orders overlapped, or one whose
  handler comes late, when its own order has ended and the next has begun. An RCS that
  awaits the end of each order does not avoid the latter, since the bridge drops the
  answer to its cancel request (`rcs_bridge_node.py:124`). `StoppedByAnOrder` says what is
  left: no run is stopped without a cancel that was posted, and each stops one at most;
- `POST /order` answers "dispatched" before the executor has accepted
  (`rcs_bridge_node.py:104-112`), for orders it rejects too, and `GET /state` may show
  the "success" of an earlier order, or of another client's SubJob, beside a new id
  (`SnapshotNotAhead` says what is left);
- a save that fails after `write_text` has replaced the file all the same, and a
  commit of another id takes what it staged into the history; a repository whose
  process died between `git init` and the last `git config` never commits again
  (`repo_node.py:51`), and neither does one where a git was killed and left its lock
  (`repo_node.py:128-133`; the exceptions in `RetriedSaveLands`);
- the module doc of the executor (`hfsm_executor_node.py:4`, `:10-18`: no JSON spec
  loader yet, a goal cancel is a no-op) is a leftover of "Phase 1": the code loads specs
  (lines 266-333) and cancels cooperatively (lines 144-147), as `README.md:20,87` say;
  the models follow the code (`SpecDispatch`, `CancelEndsRun`);
- a class of the registry shadows a saved spec of the same id
  (`hfsm_executor_node.py:266-292`);
- `spec_json` of a SubJob drops the arguments of its skill states and the poll interval
  of a Parallel (`parallel.py:61,82-94`), keeps no decorator and names classes instead of registered ids (`state.py:41`), so for
  VisitThreePoints it does not build the SubJob that runs; `test_spec_roundtrip.py:1-2` covers trees without
  them. `ChartExplained` says exactly when the trip is whole;
- `test_path_for.py` tests `_path_for`, which the repository node no longer has.

**Why the bounds are enough.** Two goals are what overlapping, a stale token and
mixed messages take; the theorems remove the bound for the safety properties. Three
regions give a winner, a loser and a region that fails or hangs. Every transition
the supervisor makes takes one call; two crashes put one between any two of them,
and a slot is left for a late answer. One execution of the action State meets both
crashes and the late answer; an execution shares nothing with the next but the skill
it leaves behind, which a crash leaves in any state too. That a second execution is not
deceived by a goal that the first left behind is therefore not in the run: it is proved,
for any number of them (`ReportsHonestly`, `OrphansOnlyGivenUp`). Two orders are what a reused
id takes, and one restart loses both; `BridgedExecutor.cfg` has no restart,
of which the executor sees nothing: `BridgeRefinement` is proved for any number of them
and for orders that overlap. Two ids let a save of one commit what a save
of the other left behind; two faults are a failed save and a death, or a death in
the set-up and one in a save. The engine's tree has
each kind of node inside each kind of container, a target that does not exist, and a
child that shares its name with a terminal outcome, which is never entered: the cap
of 4 is passed by the circle in the root. Three cells let the robot be at, beside
and away from each target. `g2` of `drive` may not be cancelled (`Cancelable`) to
halve the state space: `g1` covers the cancels. The same holds for `motor`, whose
faults (`Kinds`) leave out UNREACHABLE: it does to a loop what DEAD does, and to a
commit what STUCK does. Two events are a fault and its end, or a death and a reset;
a message under way and one received suffice for a status of any age.

**Fairness.** Weak fairness of callbacks and threads: a callback submitted to the
executor runs, a Python or C++ thread is scheduled, the timer ticks. Launch restarts the
skill nodes that have `respawn=True` (`demo.launch.py:47,56`, `emulator.launch.py:28,37`) and
nothing else: only `Respawn` of `SkillNode` is fair. Of a SubJob, a region or a leaf only that it polls the token it was given;
that it ends by itself is never assumed (`PollStep`, `FairSpec` of `HfsmEngine`;
`RunEnds` names that assumption as its premise). Deadlines pass: weakly fair where
the wait is one state, strongly fair in `GoalEnds` because the control loop looks at
the clock again and again. `drive` gives no fairness to the robot or to odometry;
`motor` gives it to the physics timer only, so goals end without answers or statuses.
In `bridge` each request that was read is served, and an RCS that repeats a cancel
(`Persistent`) has it looked up again and again (strong fairness: other requests come
in between). In `dispatch` a repository that is up serves what it received, and one client repeats its
save (`SF` of `Receive`). `Start` is not fair, for no launch file respawns the node
(`emulator.launch.py:52-58`, `navigate_web_gui.launch.py:71-77`): `RetriedSaveLands` says
nothing of one that stays down. The number of faults is bounded, of successful saves it is
not.

**Assumptions of the environment.** `SkillNode`: one request at a time, and
discovery that lags. `MoveMotor`: requests the robot has received from a process
that died are served before those of the next. `Move` of `DriveToPose`: code is fast against motion: the robot
covers at most one cell between two odometry messages and between two iterations of
a loop. The unlocked read of `pose_valid_` (line 189) is a data race: `Wait` lets it
return either value once the message has come.
`RcsBridge`: the executor does not restart while orders are open. `TaskRepository`:
git leaves its index and history whole when it dies, and does not outlive the node; a
`git init` that is killed leaves nothing or a `.git` that counts as begun.

## 4. What is proved

| theorem | says | rests on |
|---|---|---|
| **`HfsmExecutorProofs`** `TypeCorrect` | types | - |
| `BusyCorrect`, `StatusShowsBusy` | `BusyJustified`, `StatusFollowsBusy`, any clients | `IInv`: busy is held by a thread in its section, goals' states agree with their threads |
| `SerialClientSafe` | serial clients: exclusion, no rejection, `TokenIsolation` | `IInv`: a serial client has one outstanding request, tokens of goals not begun are unset |
| `Refinement` | `Spec => Service!Spec`, step by step | the same invariant |
| `StatusCorrect` | `PublishedCoherent`, serial clients, beside timer and region threads | `OwnFields`: a goal in its section owns what is shown; `BesideStep`: timer and regions write nothing of the server but `globalPath` |
| `NeverTurnedAway`, `CancelsTheirOwn`, `StatusRefinement` | `SerialNeverRejected`, `TokenIsolation`, `ImplementsService` of `StatusSpec` | `IInv` through `BesideStep` |
| `BridgeRefinement` | `BridgedSpec => ImplementsBridge`: the bridge above the executor node implements `RcsBridge` | `IInv`, and `Sent`: what has come to the server had left the bridge |
| `StopsArePosted` | `StoppedByAnOrder`, any RCS: from `POST /cancel` to the token | `FlippedByHandler`: a set token was read by a handler that has flipped it; `Sent` |
| `OrdersAboveServer` | `UncancelableExplained`, `SnapshotNotAhead`, `CancelHitsNamed` of the two nodes together | `BridgeRefinement`, and the theorems of `RcsBridgeProofs` under its mapping |
| `TracedRefinesExecutor`, `TracedRefinesEngine` | `TracedSpec => ImplementsExecutor`, `=> ImplementsEngine`, any tree: the abstraction of the engine in `HfsmExecutor` is sound | `InStep`: the thread of the goal is in `run()` exactly while the interpreter is, and `CancelledError` needs its token |
| `SlotCorrect` | `SlotNamesRun`: the slot names a running SubJob only, and one is enough for serial clients (`observer.py:36`) | `IInv` |
| `EngineInServer` | `ShownIsStack`, `TokenStopsEntering`, any clients: `PathIsStack` and `CancelStopsEntering` inside the server | `SlotCorrect`, and the theorems of `HfsmEngineProofs` under the mapping |
| `CancelledOnlyByRequest` | `CancelledByRequest`, serial clients: from the cancel callback to the poll | `TokenIsolation` and `InStep` |
| `ResultCorrect` | `ResultFromRun`, any clients and any tree: succeeded and canceled come from the run itself | `Told`: between `run()` and the report nothing touches its value; the engine's `ValueOK` |
| **`HfsmEngineProofs`** `EngineTypeCorrect` | `TypeOK`: with it the bounds of visits and attempts | `StackOK`: each call is of the child that the one below is at |
| `PathCorrect` | `PathIsStack`, any tree | the parent path a machine keeps while its child runs shows the calls up to itself (`StackOK`), and `mode` says whether a child that is being left still shows (`PathOK`) |
| `CancelHolds` | `CancelStopsEntering` | `PathCorrect`'s invariant: leaving a child shortens the path |
| `RunRefinement` | `ImplementsRun` | `ValueOK`: what leaves the root is one of its outcomes or an exception, a cancel only with the token set |
| **`ParallelCompositeProofs`** `TypeCorrect` | `TypeOK` | - |
| `EndingsJustified` | `ResultJustified`: outcomes from regions, errors only if all failed, no third ending | what each pc of the caller knows about winner and errors |
| `FirstWins` | the winner never changes | - |
| **`LifecycleActionProofs`** `SupervisorTypeCorrect`, `ActionTypeCorrect` | types; the State has a call under way exactly in its waits | - |
| `OneCallUnderWay`, `FlagCoversBesideState` | `FlagCovers`, any slots, crashes, late answers, without and with the State | cardinality of the calls under way changes with the flag; the State touches no call of the supervisor (`StateFrame`) |
| `RacesAreExplained` | `RacesExplained`, any late answers and executions: which transitions may race on a skill | `FlagCoversBesideState`; `OwnCall`: the State has no call but the one it waits for, until it gave up on one |
| `ReportsHonestly` | `OutcomeHonest` | `GoalLife`: an execution that has not sent its goal has none, and the one under way has no outcome yet |
| `OrphansOnlyGivenUp` | `OrphansExplained` | the same |
| **`DriveToPoseProofs`** `DriveTypeCorrect` | types; a goal lives as long as its thread | - |
| `RobotIsStopped` | `NeverLeftMoving`, any goals, any corridor | a moving command has an owner, of a process already started |
| `SuccessIsArrival` | `ArrivedAtTarget` | `Arrival`: who else is alive is in `crowded`; what was seen is at most a cell old; from the last phase on the robot of an uncrowded goal is parked |
| **`MoveMotorProofs`** `MotorTypeCorrect` | types | - |
| `TargetStaysOwn` | `TargetIsOwn`, any goals, range, faults and deaths | the sole goal is the last in the queue, and the queue is empty once it is served |
| **`SpecDispatchProofs`** `TypeCorrect` | types of the repository | - |
| `AcknowledgedSavesLast` | `SavedIsCommitted`, any ids, bodies and faults | an acknowledged body is staged too, and each stage of a save knows what it has done |
| `HistoryIsWhole` | `NoTornCommit` | a file is whole when it is added |
| `RepositoryUndisturbed` | `DispatchSpec => Spec`: both of these hold beside dispatches | - |
| `DispatchCorrect` | `DispatchSeesSave`, any loader and registry | `ExpectInv`: what is expected is acknowledged until it is answered |
| **`RcsBridgeProofs`** `TypeCorrect` | types | - |
| `CancelableUnlessExplained` | `UncancelableExplained`, any orders, ids and restarts | `EntryInv`: each goal of this run has its entry, lost it to a later one, or is being recorded |
| `CancelHitsNamedOnly` | `CancelHitsNamed` | `PendingInv`: an entry is the last goal of its id; the look-up holds until it is handled |
| `SnapshotsLag` | `SnapshotNotAhead` | `LastInv`: the last order is the last goal sent, but for the one being recorded |

Each theorem is of the form `Init => I`, `I /\ [Next]_vars => I'`, `I => property`; TLC
checked each `I` on the instance of its run before it was proved, and `RacesExplained`,
which is in no run, on that of `action` with two executions (15 million states). The invariants are
needed because the properties are not inductive: `BusyJustified`, for one, needs that
a goal in `reportAbort` has left its section, `TokenIsolation` that a token read by a
cancel handler belongs to a goal that has begun, `PathIsStack` says nothing of the
paths that the frames below the top will put back, and `ArrivedAtTarget` looks at the
end of a goal while the distance was last looked at iterations before.

Assumptions are the ASSUMEs of the modules, all evaluated by TLC: constants have
their types, `NoGoal` is no goal, slots are finite, the regions are not empty.
`TreeAssumption` of `HfsmEngine` says that the tree came from its constructors: the
root is a machine, machines and retries have an initial or inner state, transitions
leave states of the tree, and a retry declares what its inner state declares, with
its retry outcome among it. It also says that outcomes and exceptions
have different names, as `return` and `raise` are different in the code.

The three theorems about `BridgedExecutor` assume `GoalsAreOrders`: goals are the numbers
of the orders, and ids are none of them. It is what the `ASSUME`s of `RcsBridge` become
under the mapping, and it holds of the constants of `BridgedExecutor.cfg`. Those about
`EngineExecutor` assume `TracedIsBuilt`, the `TreeAssumption` of the interpreter under
its mapping, which the two configurations of that module have TLC evaluate. Its SubJob
has no Parallel: the path after that is the subject of `HfsmStatus`.

Only model-checked:
- liveness (`CancelEndsRun`, `CancelEnds`, `RunEnds`, `CallerReleased`,
  `ExecutionEnds`, `BringsUp`, `GoalEnds`, `SuccessSettles`, `RetriedSaveLands`, ...)
  and the fair half of `ImplementsFairService`: fairness and ENABLED are beyond the
  prover. `RunRefinement` and `Refinement` are their safety halves;
- `ChartExplained`: what `Build` and `ToSpec` compute for every document is induction
  over data.

## 5. Not modelled

- **Userdata.** A wrapper of one dictionary. Regions write it without a lock, each key
  in one interpreter step; which value wins depends on the states, which are
  arbitrary here.
- **capture_image's request.** One service call with a deadline after which the goal
  ends either way; what is hard about the node is its lifecycle, in `SkillNode`.
- **Cameras, battery and joint states of the virtual robot.** Nothing modelled reads
  them.
- **The action states' `make_goal`** and the userdata it reads: values only.
- **Web GUI.** A client of the executor and of its status topic, with no effect on
  the robot but the goals it sends, which the clients of `HfsmExecutor` cover. Read
  beside this work: after the socket is lost, or a channel is advertised again, a
  topic that was subscribed is not subscribed again, because it has left
  `pendingSubs` (`useRos.ts:90-101,122-128`); nor is one first subscribed when its
  channel is already known (line 237-238); `callService` has no caller.
- **Dispatch CLI, start script, launch files.** A client that sends one goal and ends,
  and declarations; the respawn of skill nodes is in `SkillNode`.
- **A Parallel that is entered again** while threads of its last execution live: the
  executions share no state of the engine but the path, and meet at the skills, where
  overlapping goals are modelled.
- **rclpy's thread-pool size** (a SubJob that waits for `load_task` on the last
  thread): it depends on the host; `NoAnswer` of `SpecDispatch` is what it leads to.
