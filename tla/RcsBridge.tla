----------------------------- MODULE RcsBridge -----------------------------
(***************************************************************************)
(* The RCS bridge (mw_rcs_bridge/rcs_bridge_node.py, schema.py).  One HTTP *)
(* thread serves POST /order, POST /cancel and GET /state, one request at  *)
(* a time; the main thread spins and completes the goal futures and keeps  *)
(* the last status message.  The executor is SubJobService, which          *)
(* HfsmExecutor is shown to implement; its other clients are left out.     *)
(*                                                                         *)
(* Goal g is the g-th order that is dispatched: the goal it is sent as,    *)
(* its future, its handle and the SubJob it runs.  An order whose id is    *)
(* empty is dispatched under a fresh uuid, for which its goal stands.  The *)
(* bodies of the messages are not modelled.                                *)
(***************************************************************************)
EXTENDS Integers

CONSTANTS Order,       \* the order ids the RCS chooses
          NoOrder,     \* the empty order id
          NoGoal,      \* None
          Persistent,  \* the ids whose cancel the RCS repeats for ever
          MaxOrders,   \* how many orders are dispatched
          MaxRestarts  \* how often the bridge is restarted

ASSUME BoundAssumption == MaxOrders \in Nat /\ MaxRestarts \in Nat
ASSUME IdAssumption == /\ Order \cap Nat = {}
                       /\ NoOrder \notin Order \cup Nat
                       /\ NoGoal \notin Nat
                       /\ Persistent \subseteq Order

VARIABLES
  phase, wanted,  \* the executor, see SubJobService
  up,         \* the action server has been discovered
  current,    \* the goal the executor publishes on /mw_hfsm_status
  http,       \* the request under way: at which stage, its id, its goal
  future,     \* the goal future of each goal, as the bridge sees it
  pending,    \* _pending
  lastOrder,  \* _last_order_id
  lastState,  \* _last_state, named by its goal
  asked,      \* the goals cancel_goal_async was called for
  order,      \* the id each goal was dispatched under
  sent,       \* how many goals were sent
  lost,       \* how many of them before the bridge was started again
  restarts

execVars == <<phase, wanted, current>>
nodeVars == <<future, lastState>>
httpVars == <<pending, lastOrder, asked>>
dispatchVars == <<order, sent>>
lifeVars == <<lost, restarts>>
vars == <<execVars, up, http, nodeVars, httpVars, dispatchVars, lifeVars>>

Goal == 1..MaxOrders
Id == Order \cup Goal
Exec == INSTANCE SubJobService WITH Exclusive <- FALSE

Answer == {"none", "pending", "accepted", "rejected"}
Stage == {"idle", "read", "dispatch", "record", "handle"}

Http == [at : Stage, id : Id \cup {NoOrder}, goal : Goal \cup {NoGoal}]
Request(at, o, g) == [at |-> at, id |-> o, goal |-> g]
Idle == Request("idle", NoOrder, NoGoal)

Init ==
  /\ Exec!Init
  /\ up = FALSE
  /\ current = NoGoal
  /\ http = Idle
  /\ future = [g \in Goal |-> "none"]
  /\ pending = [o \in Id |-> NoGoal]
  /\ lastOrder = NoOrder
  /\ lastState = NoGoal
  /\ asked = {}
  /\ order = [g \in Goal |-> NoOrder]
  /\ sent = 0
  /\ lost = 0
  /\ restarts = 0

-----------------------------------------------------------------------------
(* The HTTP thread.                                                        *)

\* As if by a ThreadingHTTPServer, while an order is being recorded.
Serving_Threaded == http.at \in {"idle", "record"}

\* HTTPServer is not the threading one: a request waits until the one before
\* it has been answered.  GET /state changes nothing, see Snapshot.
Serving == http.at = "idle"

Receive ==
  /\ Serving
  /\ http' = Request("read", NoOrder, NoGoal)
  /\ UNCHANGED <<execVars, up, nodeVars, httpVars, dispatchVars, lifeVars>>

\* 400 or 404: the body is no JSON, lacks what the request needs, or the path
\* is unknown.
Refuse ==
  /\ http.at = "read"
  /\ http' = Idle
  /\ UNCHANGED <<execVars, up, nodeVars, httpVars, dispatchVars, lifeVars>>

ParseOrder(o) ==
  /\ http.at = "read"
  /\ sent < MaxOrders
  /\ http' = Request("dispatch", o, sent + 1)
  /\ UNCHANGED <<execVars, up, nodeVars, httpVars, dispatchVars, lifeVars>>

\* wait_for_server gave up after its 3 s.
Unavailable ==
  /\ http.at = "dispatch"
  /\ ~up
  /\ http' = Idle
  /\ UNCHANGED <<execVars, up, nodeVars, httpVars, dispatchVars, lifeVars>>

OrderId(o, g) == IF o = NoOrder THEN g ELSE o

\* The goal is sent before it is recorded: the executor may answer first.
Dispatch ==
  LET g == http.goal
      o == OrderId(http.id, g) IN
  /\ http.at = "dispatch"
  /\ up
  /\ future' = [future EXCEPT ![g] = "pending"]
  /\ order' = [order EXCEPT ![g] = o]
  /\ sent' = g
  /\ http' = Request("record", o, g)
  /\ UNCHANGED <<execVars, up, lastState, httpVars, lifeVars>>

\* As if an id that is known already kept its first goal.
Record_KeepsFirst ==
  /\ http.at = "record"
  /\ pending' = [pending EXCEPT ![http.id] = IF @ = NoGoal THEN http.goal ELSE @]
  /\ lastOrder' = http.id
  /\ http' = Idle
  /\ UNCHANGED <<execVars, up, nodeVars, asked, dispatchVars, lifeVars>>

Record ==
  /\ http.at = "record"
  /\ pending' = [pending EXCEPT ![http.id] = http.goal]
  /\ lastOrder' = http.id
  /\ http' = Idle
  /\ UNCHANGED <<execVars, up, nodeVars, asked, dispatchVars, lifeVars>>

\* A cancel is parsed, which takes an order id, and looked up.
LookUp(o) ==
  /\ http.at = "read"
  /\ http' = Request("handle", o, pending[o])
  /\ UNCHANGED <<execVars, up, nodeVars, httpVars, dispatchVars, lifeVars>>

\* 404: the id is unknown, or the goal has not been accepted (yet).  As if
\* the entry were taken out of _pending by the look-up.
CancelRefused_Pops ==
  /\ http.at = "handle"
  /\ http.goal # NoGoal => future[http.goal] # "accepted"
  /\ pending' = [pending EXCEPT ![http.id] = NoGoal]
  /\ http' = Idle
  /\ UNCHANGED <<execVars, up, nodeVars, lastOrder, asked, dispatchVars, lifeVars>>

CancelRefused ==
  /\ http.at = "handle"
  /\ http.goal # NoGoal => future[http.goal] # "accepted"
  /\ http' = Idle
  /\ UNCHANGED <<execVars, up, nodeVars, httpVars, dispatchVars, lifeVars>>

\* As if the latest order were meant, whatever id the request names.
CancelSent_Latest ==
  /\ http.at = "handle"
  /\ http.goal # NoGoal
  /\ future[http.goal] = "accepted"
  /\ asked' = asked \cup {pending[lastOrder]}
  /\ http' = Idle
  /\ UNCHANGED <<execVars, up, nodeVars, pending, lastOrder, dispatchVars, lifeVars>>

\* 200, also for a goal that has ended: entries are never removed.
CancelSent ==
  /\ http.at = "handle"
  /\ http.goal # NoGoal
  /\ future[http.goal] = "accepted"
  /\ asked' = asked \cup {http.goal}
  /\ http' = Idle
  /\ UNCHANGED <<execVars, up, nodeVars, pending, lastOrder, dispatchVars, lifeVars>>

\* What GET /state answers: the last order's id beside whatever the executor
\* published last, for whichever client.
Snapshot == [order |-> lastOrder, subjob |-> lastState]

-----------------------------------------------------------------------------
(* The main thread: rclpy.spin.                                            *)

OnStatus ==
  /\ current # NoGoal
  /\ lastState' = current
  /\ UNCHANGED <<execVars, up, http, future, httpVars, dispatchVars, lifeVars>>

\* The goal response of g completes its future.
AnswerArrives(g) ==
  /\ future[g] = "pending"
  /\ phase[g] # "new"
  /\ future' = [future EXCEPT ![g] = IF phase[g] = "rejected" THEN "rejected"
                                     ELSE "accepted"]
  /\ UNCHANGED <<execVars, up, http, lastState, httpVars, dispatchVars, lifeVars>>

\* The process ends and is started again: what it knew is gone.
Restart ==
  /\ restarts < MaxRestarts
  /\ restarts' = restarts + 1
  /\ lost' = sent
  /\ up' = FALSE
  /\ http' = Idle
  /\ future' = [g \in Goal |-> "none"]
  /\ pending' = [o \in Id |-> NoGoal]
  /\ lastOrder' = NoOrder
  /\ lastState' = NoGoal
  /\ UNCHANGED <<execVars, asked, dispatchVars>>

Discover ==
  /\ ~up
  /\ up' = TRUE
  /\ UNCHANGED <<execVars, http, nodeVars, httpVars, dispatchVars, lifeVars>>

-----------------------------------------------------------------------------
(* The executor.                                                           *)

ExecAnswer(g) ==
  /\ g <= sent
  /\ Exec!Accept(g) \/ Exec!Reject(g)
  /\ UNCHANGED <<current, up, http, nodeVars, httpVars, dispatchVars, lifeVars>>

ExecStart(g) ==
  /\ Exec!Start(g)
  /\ current' = g
  /\ UNCHANGED <<up, http, nodeVars, httpVars, dispatchVars, lifeVars>>

ExecEnd(g) ==
  /\ Exec!Stop(g) \/ Exec!Report(g)
  /\ UNCHANGED <<current, up, http, nodeVars, httpVars, dispatchVars, lifeVars>>

ExecCancel(g) ==
  /\ g \in asked
  /\ Exec!Cancel(g)
  /\ UNCHANGED <<current, up, http, nodeVars, httpVars, dispatchVars, lifeVars>>

-----------------------------------------------------------------------------
Serve == \/ Refuse \/ Unavailable \/ Dispatch \/ Record
         \/ CancelRefused \/ CancelSent
         \/ \E o \in Id : LookUp(o)
         \/ \E o \in Id \cup {NoOrder} : ParseOrder(o)

Next ==
  \/ Receive \/ Serve \/ OnStatus \/ Restart \/ Discover
  \/ \E g \in Goal : \/ AnswerArrives(g) \/ ExecAnswer(g) \/ ExecStart(g)
                     \/ ExecEnd(g) \/ ExecCancel(g)

Spec == Init /\ [][Next]_vars

\* Every request is served, and the RCS posts the cancels that it repeats
\* again and again, whatever else it posts.
FairSpec ==
  /\ Spec
  /\ WF_vars(Receive) /\ WF_vars(Serve) /\ WF_vars(Discover)
  /\ \A o \in Persistent : SF_vars(LookUp(o))
  /\ \A g \in Goal : /\ WF_vars(AnswerArrives(g)) /\ WF_vars(ExecAnswer(g))
                     /\ WF_vars(ExecCancel(g))

-----------------------------------------------------------------------------
(* Properties.                                                             *)

\* Every variable keeps its type: ids index _pending, futures go from none
\* to an answer.
TypeOK ==
  /\ phase \in [Goal -> Exec!Phase]
  /\ wanted \subseteq Goal
  /\ up \in BOOLEAN
  /\ current \in Goal \cup {NoGoal}
  /\ http \in Http
  /\ future \in [Goal -> Answer]
  /\ pending \in [Id -> Goal \cup {NoGoal}]
  /\ lastOrder \in Id \cup {NoOrder}
  /\ lastState \in Goal \cup {NoGoal}
  /\ asked \subseteq Goal
  /\ order \in [Goal -> Id \cup {NoOrder}]
  /\ sent \in 0..MaxOrders
  /\ lost \in 0..sent
  /\ restarts \in 0..MaxRestarts

\* A later order took over the id of g.
Superseded(g) == \E h \in (g + 1)..sent : order[h] = order[g]

\* POST /cancel with the id of g is passed on.
Cancelable(g) == pending[order[g]] = g /\ future[g] = "accepted"

\* The bridge keeps the goals "so we can honor /cancel by order_id".  A SubJob
\* that it dispatched and that has not ended can be cancelled by its id, but
\* for three reasons: a later order reused the id, the bridge was restarted
\* since, or the acceptance or the entry is still under way.
UncancelableExplained ==
  \A g \in 1..sent :
    phase[g] \in {"accepted", "running"}
    => \/ Cancelable(g)
       \/ Superseded(g)
       \/ g <= lost
       \/ future[g] = "pending"
       \/ http.at = "record" /\ http.goal = g

\* A cancel is passed on for the goal that was dispatched last under the id
\* it names, and for no other, although look-ups, answers of the executor and
\* later orders come in any order.
CancelHitsNamed ==
  [][\A g \in asked' \ asked : order[g] = http.id /\ ~Superseded(g)]_vars

\* GET /state pairs an id with a SubJob without comparing them.  The SubJob
\* may be an earlier order's, so a "success" beside an id proves nothing; it
\* is never one dispatched after the order with that id.
SnapshotNotAhead ==
  LET s == Snapshot.subjob IN
  Serving /\ s # NoGoal /\ s > lost
    => \E g \in s..sent : order[g] = Snapshot.order

\* The RCS that repeats a cancel until it is passed on gets it through to the
\* executor: being refused before the acceptance has arrived costs nothing.
CancelGetsThrough ==
  \A g \in Goal :
    (order[g] \in Persistent) ~>
      \/ g \in wanted
      \/ phase[g] \notin {"new", "accepted", "running"}
      \/ Superseded(g)
      \/ g <= lost
=============================================================================
