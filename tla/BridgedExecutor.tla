-------------------------- MODULE BridgedExecutor --------------------------
(***************************************************************************)
(* The RCS bridge above the hfsm_executor node itself.  RcsBridge has the  *)
(* executor as SubJobService; here its orders go to the action server of   *)
(* HfsmExecutor: the only client is the bridge, which sends and cancels as *)
(* rcs_bridge_node.py does, and all else the server does is as it was.     *)
(***************************************************************************)
EXTENDS HfsmExecutor, Integers

CONSTANTS Order, NoOrder, MaxOrders, MaxRestarts  \* see RcsBridge

\* The goals are the orders of the bridge, by number, and ids are no numbers.
GoalsAreOrders ==
  /\ MaxOrders \in Nat /\ MaxRestarts \in Nat
  /\ Goal = 1..MaxOrders /\ NoGoal \notin Nat
  /\ Order \cap Nat = {} /\ NoOrder \notin Order \cup Nat

VARIABLES up, http, future, pending, lastOrder, lastState, asked, order, sent, lost,
          restarts  \* see RcsBridge

bridgeVars == <<up, http, future, pending, lastOrder, lastState, asked, order, sent,
                lost, restarts>>
bridgedVars == <<vars, bridgeVars>>

\* The bridge sees of a goal what a client sees, and the id the executor shows.
Bridge == INSTANCE RcsBridge WITH
            Persistent <- {},
            phase <- [g \in Goal |-> Phase(g)],
            wanted <- {g \in Goal : cancelPc[g] # "none"},
            current <- shown.subjob

BridgedInit == Init /\ Bridge!Init

BridgeStep ==
  /\ UNCHANGED vars
  /\ \/ Bridge!Receive \/ Bridge!Serve \/ Bridge!OnStatus \/ Bridge!Restart
     \/ Bridge!Discover
     \/ \E g \in Goal : Bridge!AnswerArrives(g)

\* A goal that send_goal_async was called for comes to the server, and so does
\* a request that cancel_goal_async was called for.
Arrives(g) == \/ g <= sent /\ Send(g)
              \/ g \in asked /\ RequestCancel(g)

ExecutorStep ==
  /\ \E g \in Goal : Arrives(g) \/ Middleware(g) \/ Worker(g) \/ CancelHandler(g)
  /\ UNCHANGED bridgeVars

BridgedNext == BridgeStep \/ ExecutorStep
BridgedSpec == BridgedInit /\ [][BridgedNext]_bridgedVars

-----------------------------------------------------------------------------
(* Properties.                                                             *)

\* Towards the bridge the server does what RcsBridge lets the executor do, so
\* what is shown of RcsBridge is so of the two nodes together.
ImplementsBridge == Bridge!Spec

\* From POST /cancel to the token: the token of a run is set by the handler of
\* a cancel that the RCS posted and the bridge passed on
\* (rcs_bridge_node.py:124), and each handler sets one at most.  It need not be
\* the token of the order that was named: the cancel callback flips whatever
\* is current, so the handler of an order that has ended, whose answer the
\* bridge does not await, may stop the next one.
StoppedByAnOrder ==
  \A g \in Goal : tokenSet[g] =>
    \E h \in asked : cancelTok[h] = g /\ cancelPc[h] \in {"notify", "done"}

=============================================================================
