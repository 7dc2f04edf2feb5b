--------------------------- MODULE EngineExecutor ---------------------------
(***************************************************************************)
(* The interpreter inside the hfsm_executor node.  HfsmExecutor leaves open *)
(* what a SubJob does between two polls of its token; here the SubJob of   *)
(* one goal, Traced, is run by the interpreter of HfsmEngine, on the worker *)
(* thread of that goal, beside all else the server does.  Traced is any    *)
(* goal.                                                                   *)
(***************************************************************************)
EXTENDS HfsmExecutor, Naturals, Sequences

CONSTANTS Node, Root, Kind, Outcomes, Initial, Transitions, RetryOn, MaxRetries,
          VisitCap,  \* see HfsmEngine: the SubJob of Traced
          Traced,    \* the goal whose SubJob is interpreted
          Success    \* _SUCCESS_OUTCOMES

VARIABLES mode, value, stack, path  \* see HfsmEngine

engineVars == <<mode, value, stack, path>>
tracedVars == <<vars, engineVars>>

\* _GLOBAL_PATH holds path whenever globalPath names Traced: the interpreter
\* writes both at once.
Engine == INSTANCE HfsmEngine WITH token <- tokenSet[Traced], globalPath <- path

\* The SubJob came from its constructors (HfsmEngine).
TracedIsBuilt == Traced \in Goal /\ Engine!WellBuilt

TracedInit == Init /\ Engine!Init

\* The call of run(), with the token of the goal and the id for the root.
Enters ==
  /\ UNCHANGED <<goalState, execVars, tokenSet, cancelVars>>
  /\ pc[Traced] = "enter" /\ Engine!Run
  /\ Goto(Traced, "enter", IF mode' = "ended" THEN "fail" ELSE "running")
  /\ globalPath' = IF mode' = "ended" THEN globalPath ELSE Traced

\* execute(): whatever enters or leaves a child writes the path of this SubJob.
Interprets ==
  /\ UNCHANGED <<goalState, pc, execVars, tokenSet, cancelVars>>
  /\ \/ Engine!Visit \/ Engine!Enter \/ Engine!Attempt \/ Engine!LeafEnd
     \/ Engine!LeafCancel \/ Engine!Follow \/ Engine!Again \/ Engine!Unwind
  /\ globalPath' = IF path' = path THEN globalPath ELSE Traced

\* Which clause of _execute_goal takes over from run().
After == IF mode = "raise" THEN IF value = "Cancelled" THEN "cancelled" ELSE "fail"
         ELSE IF value \in Success THEN "succeeded" ELSE "unsuccessful"

\* run() returns or raises.
Ends ==
  /\ UNCHANGED <<goalState, execVars, tokenSet, cancelVars>>
  /\ Engine!Finish
  /\ Goto(Traced, "running", After)
  /\ globalPath' = NoGoal

\* All else: the threads of other goals, the rest of _execute_goal.
OtherWorker(g) == Worker(g) /\ (g = Traced => pc[g] \notin {"enter", "running"})
Beside ==
  /\ \E g \in Goal : Client(g) \/ Middleware(g) \/ OtherWorker(g) \/ CancelHandler(g)
  /\ UNCHANGED engineVars

TracedNext == Enters \/ Interprets \/ Ends \/ Beside
TracedSpec == TracedInit /\ [][TracedNext]_tracedVars

-----------------------------------------------------------------------------
(* Properties.                                                             *)

\* The server does what HfsmExecutor allows: RunEnter, RunStep, RunCancel and
\* RunEnd leave room for everything the interpreter does.
ImplementsExecutor == Spec

\* The interpreter does what it does alone, whoever sets its token, and when.
ImplementsEngine == Engine!Spec

\* Where the execution of a goal stands before it calls run().
Early == {"idle", "accepted", "begin", "build", "spec", "enter"}

\* The thread of the goal and the interpreter agree, and CancelledError leaves
\* run() only if the token of this goal is set.
InStep ==
  /\ pc[Traced] \in Early => mode = "idle"
  /\ pc[Traced] = "running" <=> mode \notin {"idle", "ended"}
  /\ mode = "raise" /\ value = "Cancelled" => tokenSet[Traced]

\* The one slot for the path (observer.py:36) names a SubJob that is running,
\* and for a client that awaits its answers the one that is.
SlotNamesRun ==
  /\ \A g \in Goal : globalPath = g => pc[g] = "running"
  /\ SerialClient => \A g \in Goal : pc[g] = "running" => globalPath = g

\* What active_path() returns on another thread is the stack of the calls
\* under way if it is a path of this SubJob at all.
ShownIsStack ==
  globalPath = Traced => mode \notin {"idle", "ended"} /\ path # <<>> /\ Engine!PathIsStack

\* With such a client, which awaits the answers to its cancel requests too,
\* CancelledError is raised only for a request to cancel this very goal.
CancelledByRequest ==
  SerialClient /\ mode = "raise" /\ value = "Cancelled"
    => cancelPc[Traced] \in {"notify", "done"}

\* What the client is told is what the run came to: a goal succeeds only with
\* an outcome that the SubJob declares and that counts as a success, and is
\* canceled only if CancelledError left run() with its own token set.
ResultFromRun ==
  /\ goalState[Traced] = "succeeded" => value \in Outcomes[Root] \cap Success
  /\ goalState[Traced] = "canceled" => value = "Cancelled" /\ tokenSet[Traced]

\* Once the token is set no machine of the SubJob enters another child, but
\* for the one it was about to enter, however the threads interleave.
TokenStopsEntering ==
  [][tokenSet[Traced] /\ mode \notin {"idle", "enter"}
       => mode' # "enter" /\ Len(path') <= Len(path)]_tracedVars
=============================================================================
