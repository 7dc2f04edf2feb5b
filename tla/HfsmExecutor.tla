---------------------------- MODULE HfsmExecutor ----------------------------
(***************************************************************************)
(* The hfsm_executor node (mw_task_manager/hfsm_executor_node.py): the     *)
(* ExecuteSubJob action server together with the part of rclpy that calls  *)
(* it.  A MultiThreadedExecutor with one reentrant callback group runs     *)
(* every callback on a thread of its own, so the goal callback, the        *)
(* execution of each accepted goal and the cancel callback interleave;     *)
(* only the sections under _status_lock are atomic.  HfsmStatus adds the   *)
(* timer that publishes the state.                                         *)
(*                                                                         *)
(* A goal stands for the request and for the SubJob it dispatches: an id,  *)
(* a path, a spec or a userdata snapshot is represented by the goal it     *)
(* belongs to, NoGoal being the empty one.  What a SubJob does between two *)
(* polls of its cancel token is left open: see RunStep, RunCancel, RunEnd. *)
(***************************************************************************)
CONSTANTS Goal,          \* the ExecuteSubJob goals clients may send
          NoGoal,        \* the empty string, the empty dict or None
          SerialClient   \* TRUE: clients keep one request outstanding

ASSUME GoalAssumption == NoGoal \notin Goal
ASSUME ClientAssumption == SerialClient \in BOOLEAN

VARIABLES
  goalState,  \* rclpy: the state of each goal
  pc,         \* where the execution of each goal stands in _execute_goal
  busy,       \* _busy
  shown,      \* the other fields under _status_lock that are published
  token,      \* _current_cancel_token, named by the goal it was made for
  tokenSet,   \* whether the CancelToken made for a goal is set
  globalPath, \* observer._GLOBAL_PATH, named by the SubJob it belongs to
  cancelPc,   \* where the handling of each goal's cancel request stands
  cancelTok   \* the token the cancel callback of a goal read

vars == <<goalState, pc, busy, shown, token, tokenSet, globalPath,
          cancelPc, cancelTok>>

Owner == Goal \cup {NoGoal}
Active == {"accepted", "executing", "canceling"}
Terminal == {"succeeded", "aborted", "canceled"}
Handling == {"callback", "flip", "notify"}

\* From the lock section that sets _busy to the one that resets it.
Section == {"build", "spec", "enter", "running", "cancelled", "succeeded",
            "unsuccessful", "fail"}
Reporting == {"reportCanceled", "reportSucceed", "reportAbort"}

\* The fields _publish_status copies into a message.
Snapshot == [subjob : Owner, status : {"IDLE", "RUNNING", "SUCCESS", "FAILURE"},
             active : Owner, spec : Owner, userdata : Owner]
Blank == [subjob |-> NoGoal, status |-> "IDLE", active |-> NoGoal,
          spec |-> NoGoal, userdata |-> NoGoal]

Init ==
  /\ goalState = [g \in Goal |-> "none"]
  /\ pc = [g \in Goal |-> "idle"]
  /\ busy = FALSE
  /\ shown = Blank
  /\ token = NoGoal
  /\ tokenSet = [g \in Goal |-> FALSE]
  /\ globalPath = NoGoal
  /\ cancelPc = [g \in Goal |-> "none"]
  /\ cancelTok = [g \in Goal |-> NoGoal]

execVars == <<busy, shown, token>>
cancelVars == <<cancelPc, cancelTok>>

Goto(g, from, to) == pc[g] = from /\ pc' = [pc EXCEPT ![g] = to]

-----------------------------------------------------------------------------
(* The client and the acceptance of a goal.                                *)

\* A request of g is on its way or being served.
Outstanding(g) == \/ goalState[g] \in Active \cup {"offered"}
                  \/ cancelPc[g] \in Handling

\* A client sends a goal.  A serial one first awaits the result of the last
\* goal and the answer to its cancel request.
Send(g) ==
  /\ goalState[g] = "none"
  /\ SerialClient => \A h \in Goal : ~Outstanding(h)
  /\ goalState' = [goalState EXCEPT ![g] = "offered"]
  /\ UNCHANGED <<pc, execVars, tokenSet, globalPath, cancelVars>>

\* Mutant: turns goals away unless the node is idle, not unless it is busy.
GoalCallback_NotIdle(g) ==
  /\ goalState[g] = "offered"
  /\ IF shown.status # "IDLE"
       THEN /\ goalState' = [goalState EXCEPT ![g] = "rejected"]
            /\ UNCHANGED pc
       ELSE /\ goalState' = [goalState EXCEPT ![g] = "accepted"]
            /\ Goto(g, "idle", "accepted")
  /\ UNCHANGED <<execVars, tokenSet, globalPath, cancelVars>>

\* _goal_callback: it reads _busy under the lock but does not set it.
GoalCallback(g) ==
  /\ goalState[g] = "offered"
  /\ IF busy
       THEN /\ goalState' = [goalState EXCEPT ![g] = "rejected"]
            /\ UNCHANGED pc
       ELSE /\ goalState' = [goalState EXCEPT ![g] = "accepted"]
            /\ Goto(g, "idle", "accepted")
  /\ UNCHANGED <<execVars, tokenSet, globalPath, cancelVars>>

\* rclpy ServerGoalHandle.execute: schedule _execute_goal; a goal that was
\* cancelled meanwhile keeps its state.
Execute(g) ==
  /\ Goto(g, "accepted", "begin")
  /\ goalState' = [goalState EXCEPT ![g] = IF @ = "accepted" THEN "executing"
                                                             ELSE @]
  /\ UNCHANGED <<execVars, tokenSet, globalPath, cancelVars>>

-----------------------------------------------------------------------------
(* _execute_goal, on the worker thread of the goal.                        *)

\* Mutant: the chart of the last SubJob is left in place.
Begin_KeepsChart(g) ==
  /\ Goto(g, "begin", "build")
  /\ busy' = TRUE
  /\ shown' = [shown EXCEPT !.subjob = g, !.status = "RUNNING", !.active = NoGoal,
                            !.userdata = g]
  /\ token' = g
  /\ UNCHANGED <<goalState, tokenSet, globalPath, cancelVars>>

\* A fresh CancelToken, installed with the other fields under the lock.
Begin(g) ==
  /\ Goto(g, "begin", "build")
  /\ busy' = TRUE
  /\ shown' = [subjob |-> g, status |-> "RUNNING", active |-> NoGoal,
               spec |-> NoGoal, userdata |-> g]
  /\ token' = g
  /\ UNCHANGED <<goalState, tokenSet, globalPath, cancelVars>>

\* _build_subjob: a registered class, else a stored spec (whose fetch may
\* time out) makes a machine to be published, or an exception is raised.
BuildSubjob == {"spec", "fail"}

Build(g) ==
  /\ \E next \in BuildSubjob : Goto(g, "build", next)
  /\ UNCHANGED <<goalState, execVars, tokenSet, globalPath, cancelVars>>

\* to_spec() and json.dumps may fail: the chart then stays empty.
PublishSpec(g) ==
  /\ Goto(g, "spec", "enter")
  /\ \E s \in {g, NoGoal} : shown' = [shown EXCEPT !.spec = s]
  /\ UNCHANGED <<goalState, busy, token, tokenSet, globalPath, cancelVars>>

\* BehaviorSM.run up to execute(): a missing behavior_parameter raises
\* before the observer is touched; else the path is rooted at the SubJob.
RunEnter(g) ==
  /\ \/ Goto(g, "enter", "fail") /\ UNCHANGED globalPath
     \/ Goto(g, "enter", "running") /\ globalPath' = g
  /\ UNCHANGED <<goalState, execVars, tokenSet, cancelVars>>

\* A child is entered or left: the path published from this thread is one of
\* this SubJob.  With the token set that still happens on the way to the next
\* poll, and on the way out from it.
RunStep(g) ==
  /\ pc[g] = "running"
  /\ globalPath' = g
  /\ UNCHANGED <<goalState, pc, execVars, tokenSet, cancelVars>>

\* Mutant: a container swallows CancelledError and carries on.
RunCancel_Swallowed(g) ==
  /\ pc[g] = "running" /\ tokenSet[g]
  /\ globalPath' = g
  /\ UNCHANGED <<goalState, pc, execVars, tokenSet, cancelVars>>

\* A poll finds the token set: CancelledError leaves run(), whose finally
\* clause clears the path.
RunCancel(g) ==
  /\ Goto(g, "running", "cancelled") /\ tokenSet[g]
  /\ globalPath' = NoGoal
  /\ UNCHANGED <<goalState, execVars, tokenSet, cancelVars>>

\* The tree ends by itself, with an outcome in _SUCCESS_OUTCOMES, another
\* one, or an exception.  No poll follows the last child.
RunEnd(g) ==
  /\ \E to \in {"succeeded", "unsuccessful", "fail"} : Goto(g, "running", to)
  /\ globalPath' = NoGoal
  /\ UNCHANGED <<goalState, execVars, tokenSet, cancelVars>>

\* Mutant: the status keeps saying RUNNING.
CancelledSection_KeepsStatus(g) ==
  /\ Goto(g, "cancelled", "reportCanceled")
  /\ busy' = FALSE
  /\ shown' = [shown EXCEPT !.active = g, !.userdata = NoGoal]
  /\ token' = NoGoal
  /\ UNCHANGED <<goalState, tokenSet, globalPath, cancelVars>>

\* The lock section of the except CancelledError clause.
CancelledSection(g) ==
  /\ Goto(g, "cancelled", "reportCanceled")
  /\ busy' = FALSE
  /\ shown' = [shown EXCEPT !.status = "FAILURE", !.active = g, !.userdata = NoGoal]
  /\ token' = NoGoal
  /\ UNCHANGED <<goalState, tokenSet, globalPath, cancelVars>>

\* The lock section after run() returned an outcome.
FinishSection(g) ==
  /\ \/ /\ Goto(g, "succeeded", "reportSucceed")
        /\ shown' = [shown EXCEPT !.status = "SUCCESS", !.active = g, !.userdata = g]
     \/ /\ Goto(g, "unsuccessful", "reportAbort")
        /\ shown' = [shown EXCEPT !.status = "FAILURE", !.active = g, !.userdata = g]
  /\ busy' = FALSE
  /\ token' = NoGoal
  /\ UNCHANGED <<goalState, tokenSet, globalPath, cancelVars>>

\* json.dumps(userdata_out) raises inside that section, on a value a state
\* put there: the status is already written, rclpy aborts the goal.
FinishRaises(g) ==
  /\ \/ Goto(g, "succeeded", "reportAbort") /\ shown' = [shown EXCEPT !.status = "SUCCESS"]
     \/ Goto(g, "unsuccessful", "reportAbort") /\ shown' = [shown EXCEPT !.status = "FAILURE"]
  /\ busy' = FALSE
  /\ UNCHANGED <<goalState, token, tokenSet, globalPath, cancelVars>>

\* Mutant: the failure path forgets to release the server.
FailSection_KeepsBusy(g) ==
  /\ Goto(g, "fail", "reportAbort")
  /\ shown' = [shown EXCEPT !.status = "FAILURE", !.userdata = NoGoal]
  /\ UNCHANGED <<goalState, busy, token, tokenSet, globalPath, cancelVars>>

\* The lock section of _finish_failure: the active state and the token stay.
FailSection(g) ==
  /\ Goto(g, "fail", "reportAbort")
  /\ busy' = FALSE
  /\ shown' = [shown EXCEPT !.status = "FAILURE", !.userdata = NoGoal]
  /\ UNCHANGED <<goalState, token, tokenSet, globalPath, cancelVars>>

\* goal_handle.succeed(), legal in EXECUTING and in CANCELING.
ReportSucceed(g) ==
  /\ Goto(g, "reportSucceed", "done")
  /\ goalState' = [goalState EXCEPT ![g] = "succeeded"]
  /\ UNCHANGED <<execVars, tokenSet, globalPath, cancelVars>>

\* Mutant: a goal that is being cancelled is never aborted.
ReportAbort_ExecutingOnly(g) ==
  /\ goalState[g] = "executing"
  /\ Goto(g, "reportAbort", "done")
  /\ goalState' = [goalState EXCEPT ![g] = "aborted"]
  /\ UNCHANGED <<execVars, tokenSet, globalPath, cancelVars>>

ReportAbort(g) ==
  /\ Goto(g, "reportAbort", "done")
  /\ goalState' = [goalState EXCEPT ![g] = "aborted"]
  /\ UNCHANGED <<execVars, tokenSet, globalPath, cancelVars>>

\* goal_handle.canceled() is legal in CANCELING only: otherwise it raises,
\* and rclpy aborts the goal whose callback raised.
ReportCanceled(g) ==
  /\ Goto(g, "reportCanceled", "done")
  /\ goalState' = [goalState EXCEPT ![g] = IF @ = "canceling" THEN "canceled"
                                                              ELSE "aborted"]
  /\ UNCHANGED <<execVars, tokenSet, globalPath, cancelVars>>

Worker(g) ==
  \/ Begin(g) \/ Build(g) \/ PublishSpec(g) \/ RunEnter(g) \/ RunStep(g)
  \/ RunCancel(g) \/ RunEnd(g) \/ CancelledSection(g) \/ FinishSection(g)
  \/ FinishRaises(g) \/ FailSection(g) \/ ReportSucceed(g) \/ ReportAbort(g) \/ ReportCanceled(g)

-----------------------------------------------------------------------------
(* A cancel request: rcl selects the goal, the callback flips a token, and *)
(* only then does rclpy move the goal to CANCELING.                        *)

\* rcl passes the request on for a goal that is ACCEPTED or EXECUTING.
RequestCancel(g) ==
  /\ goalState[g] \in {"accepted", "executing"} /\ cancelPc[g] = "none"
  /\ cancelPc' = [cancelPc EXCEPT ![g] = "callback"]
  /\ UNCHANGED <<goalState, pc, execVars, tokenSet, globalPath, cancelTok>>

\* _cancel_callback reads the current token, whatever goal it is called for.
CancelLookup(g) ==
  /\ cancelPc[g] = "callback"
  /\ cancelPc' = [cancelPc EXCEPT ![g] = "flip"]
  /\ cancelTok' = [cancelTok EXCEPT ![g] = token]
  /\ UNCHANGED <<goalState, pc, execVars, tokenSet, globalPath>>

\* Mutant: one cancel flag for the node, never reset.
CancelFlip_NodeWide(g) ==
  /\ cancelPc[g] = "flip"
  /\ cancelPc' = [cancelPc EXCEPT ![g] = "notify"]
  /\ tokenSet' = [h \in Goal |-> TRUE]
  /\ UNCHANGED <<goalState, pc, execVars, globalPath, cancelTok>>

\* token.request(), outside the lock.
CancelFlip(g) ==
  /\ cancelPc[g] = "flip"
  /\ cancelPc' = [cancelPc EXCEPT ![g] = "notify"]
  /\ tokenSet' = [h \in Goal |-> tokenSet[h] \/ h = cancelTok[g]]
  /\ UNCHANGED <<goalState, pc, execVars, globalPath, cancelTok>>

\* rclpy moves the goal to CANCELING; in a terminal state that raises.
CancelNotify(g) ==
  /\ cancelPc[g] = "notify"
  /\ cancelPc' = [cancelPc EXCEPT ![g] = "done"]
  /\ goalState' = [goalState EXCEPT ![g] = IF @ \in Active THEN "canceling" ELSE @]
  /\ UNCHANGED <<pc, execVars, tokenSet, globalPath, cancelTok>>

-----------------------------------------------------------------------------
Client(g) == Send(g) \/ RequestCancel(g)
Middleware(g) == GoalCallback(g) \/ Execute(g)
CancelHandler(g) == CancelLookup(g) \/ CancelFlip(g) \/ CancelNotify(g)

Next == \/ \E g \in Goal : Client(g) \/ Middleware(g) \/ Worker(g) \/ CancelHandler(g)

Spec == Init /\ [][Next]_vars

\* A callback that was submitted to a thread runs, and a worker thread gets to
\* the next poll of its token, whatever paths it publishes before; no fairness
\* makes a SubJob end by itself.
PollStep(g) == Worker(g) /\ ~RunStep(g) /\ ~RunEnd(g)
Fairness == \A g \in Goal : /\ WF_vars(Middleware(g))
                            /\ WF_vars(CancelHandler(g))
                            /\ WF_vars(PollStep(g))
FairSpec == Spec /\ Fairness

-----------------------------------------------------------------------------
(* Properties.                                                             *)

TypeOK ==
  /\ goalState \in [Goal -> {"none", "offered", "rejected"} \cup Active \cup Terminal]
  /\ pc \in [Goal -> {"idle", "accepted", "begin", "done"} \cup Section \cup Reporting]
  /\ busy \in BOOLEAN
  /\ shown \in Snapshot
  /\ token \in Owner
  /\ tokenSet \in [Goal -> BOOLEAN]
  /\ globalPath \in Owner
  /\ cancelPc \in [Goal -> {"none", "done"} \cup Handling]
  /\ cancelTok \in [Goal -> Owner]

\* The server is busy only while some goal is between its two lock sections:
\* no path through _execute_goal, failing ones included, leaves _busy behind.
BusyJustified == busy => \E g \in Goal : pc[g] \in Section

\* RUNNING is published exactly while new goals are turned away, even when
\* goals that overlap reset _busy for each other.
StatusFollowsBusy == (shown.status = "RUNNING") <=> busy

\* One SubJob at a time (module doc: "Accept one ExecuteSubJob goal at a
\* time").  _goal_callback does not reserve the server, so this holds for
\* clients that await each result, and not for others.
OneAtATime == \A g, h \in Goal : pc[g] \in Section /\ pc[h] \in Section => g = h

\* A client that awaits each result before it sends the next goal is never
\* turned away: _busy is reset before the result is given.
SerialNeverRejected == \A g \in Goal : goalState[g] # "rejected"

\* For clients that await each result and the answer to each cancel request, a
\* run stops early only on a request for its own goal, though the cancel
\* callback flips whatever token is current, or was left behind.
TokenIsolation ==
  \A g \in Goal : pc[g] \in Section /\ tokenSet[g] => cancelPc[g] \in {"notify", "done"}

\* Each path to a result goes through its run once, whatever interleaves:
\* the server implements the promise of SubJobService.
Phase(g) ==
  CASE goalState[g] \in {"none", "offered"} -> "new"
    [] goalState[g] \in Terminal \cup {"rejected"} -> goalState[g]
    [] goalState[g] \in Active -> IF pc[g] \in Section THEN "running"
                                  ELSE IF pc[g] \in Reporting THEN "ended"
                                  ELSE "accepted"

Service == INSTANCE SubJobService WITH
             phase <- [g \in Goal |-> Phase(g)],
             wanted <- {g \in Goal : cancelPc[g] # "none"},
             Exclusive <- SerialClient

ImplementsService == Service!Spec
ImplementsFairService == Service!FairSpec

\* Once the token of a run is set the goal comes to an end, though nothing
\* makes the SubJob end by itself.
CancelEndsRun ==
  \A g \in Goal : (pc[g] \in Section /\ tokenSet[g]) ~> (goalState[g] \in Terminal)

\* An accepted cancel request reaches the run it is for
\* (hfsm_executor_node.py:144-147).  It does not when the callback comes
\* before the lock section that installs the token.
CancelReachesRun ==
  \A g \in Goal : cancelPc[g] = "done" /\ pc[g] = "running" => tokenSet[g]
=============================================================================
