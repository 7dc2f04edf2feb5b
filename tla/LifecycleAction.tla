--------------------------- MODULE LifecycleAction ---------------------------
(***************************************************************************)
(* LifecycleAwareActionState (mw_hfsm_ros/lifecycle_action_state.py): the  *)
(* State that brings a skill server to ACTIVE, sends it one action goal    *)
(* and waits for the result.  It runs on a worker thread, beside the       *)
(* supervisor of the same skill, and polls its futures: a poll finds the   *)
(* future done, the deadline passed or the cancel token set, in that       *)
(* order.  An abandoned call or goal is left to itself.                    *)
(*                                                                         *)
(* The executions of the State are numbered, and so are their goals.       *)
(***************************************************************************)
EXTENDS SkillSupervisor

CONSTANT MaxExecs  \* how often the State is executed

ASSUME ExecsAssumption == MaxExecs \in Nat

VARIABLES
  step,     \* what execute() waits for, or "idle"
  mine,     \* the slot of the service call it waits for
  execs,    \* how often execute() was entered
  token,    \* whether the cancel token is set
  goals,    \* the goal of each execution, as the server knows it
  outcome   \* what each execution returned or raised

goalVars == <<goals>>
stateVars == <<step, mine, execs, token, outcome>>
actionVars == <<vars, goalVars, stateVars>>

Exec == 1..MaxExecs
Waits == {"first", "configure", "second", "activate", "third"}
Alive == {"sent", "running"}
GoalState == Alive \cup {"none", "rejected", "succeeded", "aborted", "lost"}
Outcome == {"succeeded", "failed", "lifecycle_error", "timeout", "rejected",
            "cancelled", "raised"}

ActionInit ==
  /\ Init
  /\ step = "idle" /\ mine = {} /\ execs = 0 /\ token = FALSE
  /\ goals = [e \in Exec |-> "none"]
  /\ outcome = [e \in Exec |-> "none"]

\* execute() returns or raises o, whatever it leaves under way.
End(o) ==
  /\ step' = "idle"
  /\ mine' = {}
  /\ outcome' = [outcome EXCEPT ![execs] = o]
  /\ UNCHANGED <<execs, token>>

Goto(to) == step' = to /\ UNCHANGED <<execs, token, outcome>>

\* A dispatch reaches the State, with a token of its own.
Enter ==
  /\ step = "idle" /\ execs < MaxExecs
  /\ step' = "service"
  /\ execs' = execs + 1
  /\ token' = FALSE
  /\ UNCHANGED <<vars, goalVars, mine, outcome>>

\* The executor sets the cancel token.
RequestCancel ==
  /\ step # "idle" /\ ~token
  /\ token' = TRUE
  /\ UNCHANGED <<vars, goalVars, step, mine, execs, outcome>>

-----------------------------------------------------------------------------
(* _ensure_lifecycle_active.                                               *)

\* wait_for_service, which does not look at the token.
FindService ==
  /\ step = "service"
  /\ \/ ~seen /\ End("lifecycle_error") /\ UNCHANGED calls
     \/ seen /\ \E c \in NextSlot : /\ Call(c, "state", "get")
                                    /\ mine' = {c} /\ Goto("first")
  /\ UNCHANGED <<life, seen, crashes, supVars, goalVars>>

\* What a step that got an answer goes on to.
Flow == {<<"first", "active", "server">>, <<"first", "unconfigured", "configure">>,
         <<"first", "inactive", "activate">>, <<"configure", "ok", "second">>,
         <<"second", "inactive", "activate">>, <<"activate", "ok", "third">>,
         <<"third", "active", "server">>}

KindOf(s) == IF s \in Change THEN s ELSE "get"

\* An answer leads to the next call, to the goal, or to lifecycle_error.
Reply(c) ==
  /\ c \in mine /\ Answered(c, "state")
  /\ LET next == {f \in Flow : f[1] = step /\ f[2] = calls[c].answer}
     IN  \/ \E f \in next : /\ f[3] \in Waits
                            /\ Call(c, "state", KindOf(f[3]))
                            /\ Goto(f[3]) /\ UNCHANGED mine
         \/ \E f \in next : /\ f[3] = "server"
                            /\ calls' = [calls EXCEPT ![c] = Free]
                            /\ Goto("server") /\ mine' = {}
         \/ next = {} /\ End("lifecycle_error") /\ calls' = [calls EXCEPT ![c] = Free]
  /\ UNCHANGED <<life, seen, crashes, supVars, goalVars>>

\* The answer to an abandoned call arrives.
Forget(c) ==
  /\ c \notin mine /\ Answered(c, "state")
  /\ calls' = [calls EXCEPT ![c] = Free]
  /\ UNCHANGED <<life, seen, crashes, supVars, goalVars, stateVars>>

-----------------------------------------------------------------------------
(* The goal.                                                               *)

\* wait_for_server, build_goal, which may raise, and send_goal_async.  A dead
\* process stays in the graph until discovery catches up; its goal is lost.
SendGoal ==
  /\ step = "server"
  /\ \/ life # "active" /\ End("timeout") /\ UNCHANGED goals
     \/ seen /\ life \in {"active", "down"} /\ End("raised") /\ UNCHANGED goals
     \/ /\ seen /\ life \in {"active", "down"}
        /\ goals' = [goals EXCEPT ![execs] = IF Up THEN "sent" ELSE "lost"]
        /\ Goto("accept") /\ UNCHANGED mine
  /\ UNCHANGED vars

\* Mutant: an accepted goal counts as a success.
Accepted_Fires ==
  /\ step = "accept"
  /\ \/ goals[execs] = "rejected" /\ End("rejected")
     \/ goals[execs] \in {"running", "succeeded", "aborted"} /\ End("succeeded")
  /\ UNCHANGED <<vars, goalVars>>

\* The server's answer to the goal; get_result_async follows an acceptance.
Accepted ==
  /\ step = "accept"
  /\ \/ goals[execs] = "rejected" /\ End("rejected")
     \/ goals[execs] \in {"running", "succeeded", "aborted"} /\ Goto("result") /\ UNCHANGED mine
  /\ UNCHANGED <<vars, goalVars>>

Finished == goals[execs] \in {"succeeded", "aborted"}

\* Mutant: the status of the result is not looked at.
GotResult_AnyStatus ==
  /\ step = "result" /\ Finished
  /\ End("succeeded")
  /\ UNCHANGED <<vars, goalVars>>

\* The result, through map_status.
GotResult ==
  /\ step = "result" /\ Finished
  /\ End(IF goals[execs] = "succeeded" THEN "succeeded" ELSE "failed")
  /\ UNCHANGED <<vars, goalVars>>

-----------------------------------------------------------------------------
(* _wait_future: the future is not done.                                   *)

NotDone ==
  \/ step \in Waits /\ ~\E c \in mine : Answered(c, "state")
  \/ step = "accept" /\ goals[execs] \in {"sent", "lost"}
  \/ step = "result" /\ ~Finished

\* Mutant: the deadline is compared the wrong way round.
TimeOut_Never == FALSE /\ UNCHANGED actionVars

\* Mutant: the execution ends, its call is still waited for.
TimeOut_KeepsCall ==
  /\ NotDone
  /\ step' = "idle"
  /\ outcome' = [outcome EXCEPT ![execs] = "timeout"]
  /\ UNCHANGED <<vars, goalVars, mine, execs, token>>

\* The deadline of the wait passes.
TimeOut ==
  /\ NotDone
  /\ End(IF step \in Waits THEN "lifecycle_error" ELSE "timeout")
  /\ UNCHANGED <<vars, goalVars>>

\* The token is set: CancelledError, and nothing is cancelled at the server.
Cancelled ==
  /\ NotDone /\ token
  /\ End("cancelled")
  /\ UNCHANGED <<vars, goalVars>>

Thread == \/ FindService \/ SendGoal \/ Accepted \/ GotResult
          \/ TimeOut \/ Cancelled \/ \E c \in Slot : Reply(c)

-----------------------------------------------------------------------------
(* The action server of the skill.                                         *)

\* handleGoal, and handleAccepted, which starts a thread for the goal.
TakeGoal(e) ==
  /\ goals[e] = "sent"
  /\ \E g \in {"running", "rejected"} : goals' = [goals EXCEPT ![e] = g]
  /\ UNCHANGED <<vars, stateVars>>

\* The thread of the goal calls succeed() or abort().
EndGoal(e) ==
  /\ goals[e] = "running"
  /\ \E g \in {"succeeded", "aborted"} : goals' = [goals EXCEPT ![e] = g]
  /\ UNCHANGED <<vars, stateVars>>

\* The goals of a process die with it.
LoseGoals ==
  goals' = IF Up /\ ~Up' THEN [e \in Exec |-> IF goals[e] \in Alive THEN "lost" ELSE goals[e]]
                         ELSE goals

ActionNext ==
  \/ Next /\ LoseGoals /\ UNCHANGED stateVars
  \/ Enter \/ RequestCancel \/ Thread
  \/ \E c \in Slot : Forget(c)
  \/ \E e \in Exec : TakeGoal(e) \/ EndGoal(e)

ActionSpec == ActionInit /\ [][ActionNext]_actionVars

\* Skill and supervisor as before; the worker thread polls, and time passes.
\* No goal need end by itself.
Beside(A) == A /\ LoseGoals /\ UNCHANGED stateVars
ActionFairness ==
  /\ WF_actionVars(Beside(Respawn /\ UNCHANGED supVars))
  /\ WF_actionVars(Beside(Discover /\ UNCHANGED supVars))
  /\ WF_actionVars(Beside(Expire))
  /\ WF_actionVars(Beside(Kick))
  /\ \A c \in Slot : /\ WF_actionVars(Beside(Serve(c) /\ UNCHANGED supVars))
                     /\ WF_actionVars(Beside(Done(c)))
                     /\ WF_actionVars(Forget(c))
  /\ WF_actionVars(Thread)
FairActionSpec == ActionSpec /\ ActionFairness

-----------------------------------------------------------------------------
(* Properties.                                                             *)

ActionTypeOK ==
  /\ NodeTypeOK
  /\ step \in {"idle", "service", "server", "accept", "result"} \cup Waits
  /\ mine \subseteq Slot /\ (mine # {} <=> step \in Waits)
  /\ execs \in 0..MaxExecs /\ token \in BOOLEAN
  /\ goals \in [Exec -> GoalState]
  /\ outcome \in [Exec -> Outcome \cup {"none"}]

\* What an execution reports of its goal is what became of that goal, not of
\* one that an earlier execution left behind.
OutcomeHonest ==
  \A e \in Exec : /\ outcome[e] = "succeeded" => goals[e] = "succeeded"
                  /\ outcome[e] = "failed" => goals[e] = "aborted"
                  /\ outcome[e] = "rejected" => goals[e] = "rejected"

\* A goal outlives its execution only if that gave up on it: after a timeout,
\* or a cancel, for nobody cancels the goal at the server.
OrphansExplained ==
  \A e \in Exec : goals[e] \in Alive /\ outcome[e] # "none"
                    => outcome[e] \in {"timeout", "cancelled"}

Transitions(owner) == {c \in Outstanding(owner) : calls[c].kind \in Change}
GaveUp == \E e \in Exec : outcome[e] \in {"lifecycle_error", "cancelled"}

\* "A single atomic 'in_flight' flag per skill prevents racing transitions"
\* (supervisor_node.py:12).  What may race on one skill is, besides the one
\* transition of the supervisor that the flag covers, one for each answer
\* that came after its deadline, and those of the State, which knows nothing
\* of the flag: one, until an execution gave up on one.
RacesExplained ==
  /\ Cardinality(Transitions("supervisor")) <= late + 1
  /\ \A c, d \in Transitions("state") : c # d => GaveUp

\* An execution ends, whatever dies, is lost or never ends.
ExecutionEnds == step # "idle" ~> step = "idle"
=============================================================================
