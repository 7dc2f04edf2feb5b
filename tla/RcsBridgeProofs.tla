-------------------------- MODULE RcsBridgeProofs --------------------------
(***************************************************************************)
(* Proofs about RcsBridge, for any number of orders, ids and restarts.     *)
(***************************************************************************)
EXTENDS RcsBridge, TLAPS

\* What the HTTP thread holds at each stage.
HttpInv ==
  /\ http.at = "dispatch" => http.goal = sent + 1 /\ sent < MaxOrders
  /\ http.at = "record" => /\ http.goal = sent /\ lost < sent
                           /\ http.id = order[sent]
  /\ http.at = "handle" => http.id \in Id /\ http.goal = pending[http.id]

\* A goal that was not sent is new to the executor; one that was has an id.
SentInv ==
  /\ \A g \in Goal : g > sent => phase[g] = "new"
  /\ \A g \in Goal : g <= sent => order[g] \in Id
  /\ current # NoGoal => current <= sent
  /\ lastState # NoGoal => lastState <= sent

Recording == http.at = "record"

\* An entry is a goal of this run of the bridge, the last one with its id but
\* for the one that is being recorded.
PendingInv ==
  \A o \in Id : LET g == pending[o] IN
    g # NoGoal => /\ lost < g /\ g <= sent /\ order[g] = o
                  /\ \A h \in Goal : g < h /\ h <= sent /\ order[h] = o
                                       => Recording /\ h = sent

\* Every goal of this run has its entry, lost it to a later one, or is being
\* recorded.
EntryInv ==
  \A g \in Goal : lost < g /\ g <= sent =>
    \/ pending[order[g]] = g
    \/ \E h \in Goal : g < h /\ h <= sent /\ order[h] = order[g]
    \/ Recording /\ g = sent

\* The future of a goal of this run agrees with the executor.
FutureInv ==
  \A g \in Goal :
    /\ lost < g /\ g <= sent => future[g] # "none"
    /\ future[g] = "rejected" => phase[g] = "rejected"

LastInv == lost < sent /\ ~Recording => lastOrder = order[sent]

Inv == TypeOK /\ HttpInv /\ SentInv /\ PendingInv /\ EntryInv /\ FutureInv /\ LastInv

-----------------------------------------------------------------------------
\* The record that stands for a request.
LEMMA RequestFields ==
  ASSUME NEW a \in Stage, NEW o \in Id \cup {NoOrder}, NEW g \in Goal \cup {NoGoal}
  PROVE  /\ Request(a, o, g) \in Http
         /\ Request(a, o, g).at = a
         /\ Request(a, o, g).id = o
         /\ Request(a, o, g).goal = g
  BY DEF Request, Http

LEMMA HttpFields ==
  ASSUME NEW h \in Http
  PROVE  h.at \in Stage /\ h.id \in Id \cup {NoOrder} /\ h.goal \in Goal \cup {NoGoal}
  BY DEF Http

LEMMA IdleFields == Idle \in Http /\ Idle.at = "idle"
  BY RequestFields DEF Idle, Stage

\* The identity of a goal is never that of an order or an absent value.
LEMMA Distinct ==
  /\ Goal \subseteq Nat
  /\ NoGoal \notin Goal
  /\ NoOrder \notin Id
  /\ MaxOrders \in Nat /\ MaxRestarts \in Nat
  BY BoundAssumption, IdAssumption DEF BoundAssumption, IdAssumption, Goal, Id

LEMMA TypeStep == TypeOK /\ HttpInv /\ [Next]_vars => TypeOK'
<1> SUFFICES ASSUME TypeOK, HttpInv, [Next]_vars PROVE TypeOK'
  OBVIOUS
<1> USE DEF TypeOK, execVars, nodeVars, httpVars, dispatchVars, lifeVars
<1>a. http.at \in Stage /\ http.id \in Id \cup {NoOrder} /\ http.goal \in Goal \cup {NoGoal}
  BY HttpFields
<1>1. CASE Receive
  <2>1. http' \in Http
    BY <1>1, RequestFields DEF Receive, Stage
  <2> QED
    BY <1>1, <2>1 DEF Receive
<1>2. CASE Refuse \/ Unavailable
  BY <1>2, IdleFields DEF Refuse, Unavailable
<1>3. CASE Dispatch
  <2>1. /\ http.goal \in Goal
        /\ http.goal \in 0..MaxOrders
        /\ lost \in 0..http.goal
    BY <1>3, Distinct DEF Dispatch, HttpInv, Goal
  <2>2. OrderId(http.id, http.goal) \in Id
    BY <1>a, <2>1 DEF OrderId, Id
  <2>3. http' \in Http
    BY <1>3, <2>1, <2>2, RequestFields DEF Dispatch, Stage
  <2> QED
    BY <1>3, <2>1, <2>2, <2>3 DEF Dispatch, Answer
<1>4. CASE Record
  BY <1>4, IdleFields, <1>a DEF Record
<1>5. CASE CancelRefused \/ CancelSent
  BY <1>5, IdleFields, <1>a DEF CancelRefused, CancelSent
<1>6. ASSUME NEW o \in Id, LookUp(o) PROVE TypeOK'
  <2>1. http' \in Http
    BY <1>6, RequestFields DEF LookUp, Stage
  <2> QED
    BY <1>6, <2>1 DEF LookUp
<1>7. ASSUME NEW o \in Id \cup {NoOrder}, ParseOrder(o) PROVE TypeOK'
  <2>1. sent + 1 \in Goal
    BY <1>7, Distinct DEF ParseOrder, Goal
  <2>2. http' \in Http
    BY <1>7, <2>1, RequestFields DEF ParseOrder, Stage
  <2> QED
    BY <1>7, <2>2 DEF ParseOrder
<1>8. CASE OnStatus \/ Discover
  BY <1>8 DEF OnStatus, Discover
<1>9. CASE Restart
  <2>1. restarts' \in 0..MaxRestarts /\ lost' \in 0..sent'
    BY <1>9, Distinct DEF Restart
  <2> QED
    BY <1>9, <2>1, IdleFields DEF Restart, Answer
<1>10. ASSUME NEW g \in Goal, AnswerArrives(g) PROVE TypeOK'
  BY <1>10 DEF AnswerArrives, Answer
<1>11. ASSUME NEW g \in Goal, ExecAnswer(g) \/ ExecStart(g) \/ ExecEnd(g) \/ ExecCancel(g)
       PROVE TypeOK'
  <2>1. phase' \in [Goal -> Exec!Phase] /\ wanted' \subseteq Goal
    BY <1>11 DEF ExecAnswer, ExecStart, ExecEnd, ExecCancel, Exec!Accept, Exec!Reject,
       Exec!Start, Exec!Stop, Exec!Report, Exec!Cancel, Exec!Move, Exec!Phase, Exec!Result
  <2> QED
    BY <1>11, <2>1 DEF ExecAnswer, ExecStart, ExecEnd, ExecCancel
<1>12. CASE UNCHANGED vars
  BY <1>12 DEF vars
<1> QED
  BY <1>1, <1>2, <1>3, <1>4, <1>5, <1>6, <1>7, <1>8, <1>9, <1>10, <1>11, <1>12
     DEF Next, Serve
-----------------------------------------------------------------------------
(* The steps that leave most of the state alone.                           *)

\* Nothing but what the executor and its answers change.
ExecStep == \E g \in Goal : \/ ExecAnswer(g) \/ ExecStart(g)
                            \/ ExecEnd(g) \/ ExecCancel(g)
Quiet == OnStatus \/ Discover \/ ExecStep \/ UNCHANGED vars
         \/ \E g \in Goal : AnswerArrives(g)

LEMMA QuietFrame ==
  Quiet => UNCHANGED <<http, pending, lastOrder, asked, order, sent, lost>>
  BY DEF Quiet, ExecStep, OnStatus, Discover, ExecAnswer, ExecStart, ExecEnd,
     ExecCancel, AnswerArrives, vars, httpVars, dispatchVars, lifeVars

\* The stages that only move the HTTP thread on.
Moves == \/ Receive \/ Refuse \/ Unavailable \/ CancelRefused \/ CancelSent
         \/ \E o \in Id : LookUp(o)
         \/ \E o \in Id \cup {NoOrder} : ParseOrder(o)

LEMMA MovesFrame ==
  ASSUME TypeOK, Moves
  PROVE  /\ UNCHANGED <<pending, lastOrder, order, sent, lost, future, phase,
                        lastState, current>>
         /\ ~Recording /\ ~Recording'
  <1> USE DEF execVars, nodeVars, httpVars, dispatchVars, lifeVars, Recording
  <1>1. CASE Receive
    BY <1>1, RequestFields DEF Receive, Serving, Stage
  <1>2. CASE Refuse \/ Unavailable
    BY <1>2, IdleFields DEF Refuse, Unavailable
  <1>3. CASE CancelRefused \/ CancelSent
    BY <1>3, IdleFields DEF CancelRefused, CancelSent
  <1>4. ASSUME NEW o \in Id, LookUp(o)
        PROVE  UNCHANGED <<pending, lastOrder, order, sent, lost, future, phase,
                           lastState, current>> /\ ~Recording /\ ~Recording'
    BY <1>4, RequestFields DEF LookUp, Stage, TypeOK
  <1>5. ASSUME NEW o \in Id \cup {NoOrder}, ParseOrder(o)
        PROVE  UNCHANGED <<pending, lastOrder, order, sent, lost, future, phase,
                           lastState, current>> /\ ~Recording /\ ~Recording'
    <2>1. sent + 1 \in Goal
      BY <1>5, Distinct DEF ParseOrder, Goal, TypeOK
    <2> QED
      BY <1>5, <2>1, RequestFields DEF ParseOrder, Stage
  <1> QED
    BY <1>1, <1>2, <1>3, <1>4, <1>5 DEF Moves

LEMMA Split == [Next]_vars => Quiet \/ Moves \/ Dispatch \/ Record \/ Restart
  BY DEF Next, Serve, Quiet, Moves, ExecStep

\* What Dispatch does, in terms of the goal it sends.
LEMMA Dispatching ==
  ASSUME TypeOK, HttpInv, Dispatch
  PROVE  LET g == sent + 1 IN
         /\ g \in Goal /\ sent' = g /\ Recording'
         /\ http'.goal = g /\ order'[g] \in Id /\ http'.id = order'[g]
         /\ future'[g] = "pending"
         /\ \A h \in Goal : h # g => order'[h] = order[h] /\ future'[h] = future[h]
         /\ UNCHANGED <<pending, lastOrder, lost, phase, current, lastState>>
         /\ ~Recording
  <1> DEFINE g == http.goal
             o == OrderId(http.id, g)
  <1>1. g = sent + 1 /\ g \in Goal /\ http.id \in Id \cup {NoOrder}
    BY HttpFields, Distinct DEF Dispatch, HttpInv, TypeOK, Goal
  <1>2. o \in Id
    BY <1>1 DEF OrderId, Id
  <1>3. /\ future' = [future EXCEPT ![g] = "pending"]
        /\ order' = [order EXCEPT ![g] = o]
        /\ sent' = g
        /\ http' = Request("record", o, g)
        /\ UNCHANGED <<pending, lastOrder, lost, phase, current, lastState>>
        /\ http.at = "dispatch"
    BY DEF Dispatch, execVars, httpVars, lifeVars
  <1>4. order'[g] = o /\ future'[g] = "pending"
    BY <1>1, <1>3 DEF TypeOK
  <1>5. \A h \in Goal : h # g => order'[h] = order[h] /\ future'[h] = future[h]
    BY <1>1, <1>3 DEF TypeOK
  <1>6. http'.at = "record" /\ http'.id = o /\ http'.goal = g
    BY <1>1, <1>2, <1>3, RequestFields DEF Stage
  <1> QED
    BY <1>1, <1>2, <1>3, <1>4, <1>5, <1>6 DEF Recording

\* What Record does.
LEMMA Recorded ==
  ASSUME TypeOK, HttpInv, SentInv, Record
  PROVE  LET o == order[sent] IN
         /\ sent \in Goal /\ lost < sent /\ o \in Id
         /\ pending'[o] = sent /\ lastOrder' = o
         /\ \A p \in Id : p # o => pending'[p] = pending[p]
         /\ UNCHANGED <<order, sent, lost, future, phase, current, lastState>>
         /\ Recording /\ ~Recording'
  <1>1. sent \in Goal /\ lost < sent /\ http.goal = sent /\ http.id = order[sent]
    BY Distinct DEF Record, HttpInv, TypeOK, Goal
  <1>2. order[sent] \in Id
    BY <1>1, Distinct DEF SentInv
  <1> QED
    BY <1>1, <1>2, IdleFields
       DEF Record, Recording, TypeOK, nodeVars, dispatchVars, lifeVars, execVars

LEMMA Restarted ==
  ASSUME Restart
  PROVE  /\ lost' = sent /\ sent' = sent /\ order' = order
         /\ \A g \in Goal : future'[g] = "none"
         /\ \A o \in Id : pending'[o] = NoGoal
         /\ lastState' = NoGoal /\ phase' = phase /\ current' = current
         /\ http'.at = "idle"
  BY IdleFields DEF Restart, execVars, dispatchVars

-----------------------------------------------------------------------------
LEMMA HttpStep ==
  ASSUME TypeOK, HttpInv, SentInv, [Next]_vars PROVE HttpInv'
  <1>1. CASE Quiet
    BY <1>1, QuietFrame DEF HttpInv
  <1>2. CASE Moves
    <2>0. UNCHANGED <<pending, sent>>
      BY <1>2, MovesFrame
    <2>1. CASE Receive
      BY <2>1, RequestFields DEF Receive, HttpInv, Stage
    <2>2. CASE Refuse \/ Unavailable \/ CancelRefused \/ CancelSent
      BY <2>2, IdleFields DEF Refuse, Unavailable, CancelRefused, CancelSent, HttpInv
    <2>3. ASSUME NEW o \in Id, LookUp(o) PROVE HttpInv'
      <3>1. http'.at = "handle" /\ http'.id = o /\ http'.goal = pending[o]
        BY <2>3, RequestFields DEF LookUp, Stage, TypeOK
      <3> QED
        BY <2>0, <3>1 DEF HttpInv
    <2>4. ASSUME NEW o \in Id \cup {NoOrder}, ParseOrder(o) PROVE HttpInv'
      <3>1. sent + 1 \in Goal /\ sent < MaxOrders
        BY <2>4, Distinct DEF ParseOrder, Goal, TypeOK
      <3>2. http'.at = "dispatch" /\ http'.goal = sent + 1
        BY <2>4, <3>1, RequestFields DEF ParseOrder, Stage
      <3> QED
        BY <2>0, <3>1, <3>2 DEF HttpInv
    <2> QED
      BY <1>2, <2>1, <2>2, <2>3, <2>4 DEF Moves
  <1>3. CASE Dispatch
    BY <1>3, Dispatching DEF HttpInv, Recording, TypeOK
  <1>4. CASE Record
    BY <1>4, IdleFields DEF Record, HttpInv
  <1>5. CASE Restart
    BY <1>5, Restarted DEF HttpInv
  <1> QED
    BY <1>1, <1>2, <1>3, <1>4, <1>5, Split

LEMMA SentStep ==
  ASSUME TypeOK, HttpInv, SentInv, [Next]_vars PROVE SentInv'
  <1> USE DEF SentInv
  <1>0. \A g \in Goal : g \in Nat
    BY Distinct
  <1>1. CASE Quiet
    <2>0. UNCHANGED <<order, sent>>
      BY <1>1, QuietFrame
    <2>1. CASE OnStatus
      BY <2>0, <2>1 DEF OnStatus, execVars
    <2>2. CASE Discover \/ UNCHANGED vars \/ \E g \in Goal : AnswerArrives(g)
      BY <2>0, <2>2 DEF Discover, AnswerArrives, vars, execVars, nodeVars
    <2>3. ASSUME NEW g \in Goal, ExecAnswer(g) PROVE SentInv'
      BY <1>0, <2>0, <2>3
         DEF ExecAnswer, Exec!Accept, Exec!Reject, Exec!Move, TypeOK, nodeVars
    <2>4. ASSUME NEW g \in Goal, ExecStart(g) PROVE SentInv'
      <3>1. phase[g] = "accepted" /\ phase' = [phase EXCEPT ![g] = "running"]
        BY <2>4 DEF ExecStart, Exec!Start, Exec!Move
      <3>2. g <= sent
        BY <1>0, <3>1 DEF TypeOK
      <3> QED
        BY <1>0, <2>0, <2>4, <3>1, <3>2 DEF ExecStart, TypeOK, nodeVars
    <2>5. ASSUME NEW g \in Goal, ExecEnd(g) PROVE SentInv'
      <3>1. PICK p : phase[g] # "new" /\ phase' = [phase EXCEPT ![g] = p]
        BY <2>5 DEF ExecEnd, Exec!Stop, Exec!Report, Exec!Move
      <3>2. g <= sent
        BY <1>0, <3>1 DEF TypeOK
      <3> QED
        BY <1>0, <2>0, <2>5, <3>1, <3>2 DEF ExecEnd, TypeOK, nodeVars
    <2>6. ASSUME NEW g \in Goal, ExecCancel(g) PROVE SentInv'
      BY <2>0, <2>6 DEF ExecCancel, Exec!Cancel, nodeVars
    <2> QED
      BY <1>1, <2>1, <2>2, <2>3, <2>4, <2>5, <2>6 DEF Quiet, ExecStep
  <1>2. CASE Moves
    BY <1>2, MovesFrame
  <1>3. CASE Dispatch
    <2>1. \A g \in Goal : g <= sent' => g <= sent \/ g = sent + 1
      BY <1>0, <1>3, Dispatching DEF TypeOK
    <2>2. \A g \in Goal : g > sent' => g > sent
      BY <1>0, <1>3, Dispatching DEF TypeOK
    <2>3. \A g \in Goal : g <= sent' => order'[g] \in Id
      BY <1>3, <2>1, Dispatching
    <2>4. /\ current' # NoGoal => current' <= sent'
          /\ lastState' # NoGoal => lastState' <= sent'
      BY <1>0, <1>3, Dispatching DEF TypeOK
    <2> QED
      BY <1>3, <2>2, <2>3, <2>4, Dispatching
  <1>4. CASE Record
    BY <1>4, Recorded
  <1>5. CASE Restart
    BY <1>5, Restarted
  <1> QED
    BY <1>1, <1>2, <1>3, <1>4, <1>5, Split

LEMMA PendingStep ==
  ASSUME TypeOK, HttpInv, SentInv, PendingInv, [Next]_vars PROVE PendingInv'
  <1> USE DEF PendingInv
  <1>0. /\ \A g \in Goal : g \in Nat
        /\ \A o \in Id : pending[o] # NoGoal => pending[o] \in Goal
        /\ sent \in Nat /\ lost \in Nat
    BY Distinct DEF TypeOK
  <1>1. CASE Quiet
    BY <1>1, QuietFrame DEF Recording
  <1>2. CASE Moves
    BY <1>2, MovesFrame
  <1>3. CASE Dispatch
    <2> SUFFICES ASSUME NEW o \in Id, pending'[o] # NoGoal
                 PROVE  LET g == pending'[o] IN
                        /\ lost' < g /\ g <= sent' /\ order'[g] = o
                        /\ \A h \in Goal : g < h /\ h <= sent' /\ order'[h] = o
                                             => Recording' /\ h = sent'
      OBVIOUS
    <2> DEFINE g == pending[o]
    <2>1. pending' = pending /\ lost' = lost /\ sent' = sent + 1 /\ Recording' /\ ~Recording
      BY <1>3, Dispatching
    <2>2. g \in Goal /\ lost < g /\ g <= sent /\ order[g] = o
      BY <1>0, <2>1
    <2>3. order'[g] = o
      BY <1>0, <1>3, <2>2, Dispatching
    <2>4. ASSUME NEW h \in Goal, g < h, h <= sent', order'[h] = o
          PROVE  h = sent'
      <3>1. CASE h = sent + 1
        BY <2>1, <3>1
      <3>2. CASE h # sent + 1
        <4>1. h <= sent
          BY <1>0, <2>1, <2>4, <3>2
        <4>2. order[h] = o
          BY <1>3, <2>4, <3>2, Dispatching
        <4> QED
          BY <2>1, <2>4, <4>1, <4>2
      <3> QED
        BY <3>1, <3>2
    <2> QED
      BY <1>0, <2>1, <2>2, <2>3, <2>4
  <1>4. CASE Record
    <2> SUFFICES ASSUME NEW o \in Id, pending'[o] # NoGoal
                 PROVE  LET g == pending'[o] IN
                        /\ lost < g /\ g <= sent /\ order[g] = o
                        /\ \A h \in Goal : g < h /\ h <= sent => order[h] # o
      BY <1>4, Recorded
    <2>1. CASE o = order[sent]
      BY <1>0, <1>4, <2>1, Recorded
    <2>2. CASE o # order[sent]
      <3>1. pending'[o] = pending[o]
        BY <1>4, <2>2, Recorded
      <3> QED
        BY <2>2, <3>1
    <2> QED
      BY <2>1, <2>2
  <1>5. CASE Restart
    BY <1>5, Restarted
  <1> QED
    BY <1>1, <1>2, <1>3, <1>4, <1>5, Split

LEMMA EntryStep ==
  ASSUME TypeOK, HttpInv, SentInv, PendingInv, EntryInv, [Next]_vars PROVE EntryInv'
  <1> USE DEF EntryInv
  <1>0. (\A g \in Goal : g \in Nat) /\ sent \in Nat /\ lost \in Nat
    BY Distinct DEF TypeOK
  <1>1. CASE Quiet
    BY <1>1, QuietFrame DEF Recording
  <1>2. CASE Moves
    BY <1>2, MovesFrame
  <1>3. CASE Dispatch
    <2> SUFFICES ASSUME NEW g \in Goal, lost' < g, g <= sent'
                 PROVE  \/ pending'[order'[g]] = g
                        \/ \E h \in Goal : g < h /\ h <= sent' /\ order'[h] = order'[g]
                        \/ Recording' /\ g = sent'
      OBVIOUS
    <2>1. /\ pending' = pending /\ lost' = lost /\ sent' = sent + 1
          /\ Recording' /\ ~Recording
      BY <1>3, Dispatching
    <2>2. CASE g = sent + 1
      BY <2>1, <2>2
    <2>3. CASE g # sent + 1
      <3>1. g <= sent /\ lost < g
        BY <1>0, <2>1, <2>3
      <3>2. order'[g] = order[g]
        BY <1>3, <2>3, Dispatching
      <3>3. CASE pending[order[g]] = g
        BY <2>1, <3>2, <3>3
      <3>4. ASSUME NEW h \in Goal, g < h, h <= sent, order[h] = order[g]
            PROVE  \E k \in Goal : g < k /\ k <= sent' /\ order'[k] = order'[g]
        <4>1. h # sent + 1 /\ h <= sent'
          BY <1>0, <2>1, <3>4
        <4>2. order'[h] = order[h]
          BY <1>3, <4>1, Dispatching
        <4> QED
          BY <3>2, <3>4, <4>1, <4>2
      <3> QED
        BY <2>1, <3>1, <3>3, <3>4
    <2> QED
      BY <2>2, <2>3
  <1>4. CASE Record
    <2> SUFFICES ASSUME NEW g \in Goal, lost < g, g <= sent
                 PROVE  \/ pending'[order[g]] = g
                        \/ \E h \in Goal : g < h /\ h <= sent /\ order[h] = order[g]
      BY <1>4, Recorded
    <2>1. CASE g = sent
      BY <1>4, <2>1, Recorded
    <2>2. CASE g # sent /\ order[g] = order[sent]
      BY <1>0, <1>4, <2>2, Recorded
    <2>3. CASE g # sent /\ order[g] # order[sent]
      <3>1. order[g] \in Id
        BY DEF SentInv
      <3>2. pending'[order[g]] = pending[order[g]]
        BY <1>4, <2>3, <3>1, Recorded
      <3> QED
        BY <2>3, <3>2
    <2> QED
      BY <2>1, <2>2, <2>3
  <1>5. CASE Restart
    BY <1>0, <1>5, Restarted
  <1> QED
    BY <1>1, <1>2, <1>3, <1>4, <1>5, Split

LEMMA FutureStep ==
  ASSUME TypeOK, HttpInv, SentInv, FutureInv, [Next]_vars PROVE FutureInv'
  <1> USE DEF FutureInv
  <1>0. (\A g \in Goal : g \in Nat) /\ sent \in Nat /\ lost \in Nat
    BY Distinct DEF TypeOK
  <1>1. CASE Quiet
    <2>0. UNCHANGED <<lost, sent>>
      BY <1>1, QuietFrame
    <2>1. CASE OnStatus \/ Discover \/ UNCHANGED vars
      BY <2>0, <2>1 DEF OnStatus, Discover, vars, execVars, nodeVars
    <2>2. ASSUME NEW g \in Goal, ExecAnswer(g) PROVE FutureInv'
      BY <2>0, <2>2 DEF ExecAnswer, Exec!Accept, Exec!Reject, Exec!Move, TypeOK, nodeVars
    <2>3. ASSUME NEW g \in Goal, ExecStart(g) PROVE FutureInv'
      BY <2>0, <2>3 DEF ExecStart, Exec!Start, Exec!Move, TypeOK, nodeVars
    <2>4. ASSUME NEW g \in Goal, ExecEnd(g) PROVE FutureInv'
      BY <2>0, <2>4 DEF ExecEnd, Exec!Stop, Exec!Report, Exec!Move, TypeOK, nodeVars
    <2>5. ASSUME NEW g \in Goal, ExecCancel(g) PROVE FutureInv'
      BY <2>0, <2>5 DEF ExecCancel, Exec!Cancel, nodeVars
    <2>6. ASSUME NEW g \in Goal, AnswerArrives(g) PROVE FutureInv'
      BY <2>0, <2>6 DEF AnswerArrives, TypeOK, execVars
    <2> QED
      BY <1>1, <2>1, <2>2, <2>3, <2>4, <2>5, <2>6 DEF Quiet, ExecStep
  <1>2. CASE Moves
    BY <1>2, MovesFrame
  <1>3. CASE Dispatch
    <2>1. sent' = sent + 1 /\ lost' = lost /\ phase' = phase
          /\ future'[sent + 1] = "pending"
          /\ \A h \in Goal : h # sent + 1 => future'[h] = future[h]
      BY <1>3, Dispatching
    <2>2. \A g \in Goal : g <= sent' /\ g # sent + 1 => g <= sent
      BY <1>0, <2>1
    <2> QED
      BY <2>1, <2>2
  <1>4. CASE Record
    BY <1>4, Recorded
  <1>5. CASE Restart
    BY <1>0, <1>5, Restarted
  <1> QED
    BY <1>1, <1>2, <1>3, <1>4, <1>5, Split

LEMMA LastStep ==
  ASSUME TypeOK, HttpInv, SentInv, LastInv, [Next]_vars PROVE LastInv'
  <1>0. sent \in Nat /\ lost \in Nat
    BY Distinct DEF TypeOK
  <1>1. CASE Quiet
    BY <1>1, QuietFrame DEF LastInv, Recording
  <1>2. CASE Moves
    BY <1>2, MovesFrame DEF LastInv
  <1>3. CASE Dispatch
    BY <1>3, Dispatching DEF LastInv
  <1>4. CASE Record
    BY <1>4, Recorded DEF LastInv
  <1>5. CASE Restart
    BY <1>0, <1>5, Restarted DEF LastInv
  <1> QED
    BY <1>1, <1>2, <1>3, <1>4, <1>5, Split

\* The invariant holds at the start and is kept by every step.
LEMMA InvInit == Init => Inv
  <1> SUFFICES ASSUME Init PROVE Inv
    OBVIOUS
  <1>0. \A g \in Goal : g \in Nat /\ ~(g <= 0)
    BY DEF Goal
  <1>1. TypeOK
    <2>1. 0 \in 0..MaxOrders /\ 0 \in 0..0 /\ 0 \in 0..MaxRestarts
      BY Distinct
    <2> QED
      BY <2>1, IdleFields DEF Init, TypeOK, Exec!Init, Exec!Phase, Answer
  <1>2. HttpInv /\ SentInv
    BY <1>0, IdleFields DEF Init, HttpInv, SentInv, Exec!Init
  <1>3. PendingInv /\ EntryInv /\ FutureInv /\ LastInv
    BY <1>0 DEF Init, PendingInv, EntryInv, FutureInv, LastInv
  <1> QED
    BY <1>1, <1>2, <1>3 DEF Inv

LEMMA InvStep == Inv /\ [Next]_vars => Inv'
  BY TypeStep, HttpStep, SentStep, PendingStep, EntryStep, FutureStep, LastStep DEF Inv

LEMMA InvCorrect == Spec => []Inv
  BY InvInit, InvStep, PTL DEF Spec

-----------------------------------------------------------------------------
\* Every variable of the bridge keeps its type.
THEOREM TypeCorrect == Spec => []TypeOK
<1>1. Inv => TypeOK
  BY DEF Inv
<1> QED
  BY <1>1, InvCorrect, PTL

\* For any number of orders, ids and restarts: a SubJob that runs can be
\* cancelled by its order id but for the three reasons.
THEOREM CancelableUnlessExplained == Spec => []UncancelableExplained
<1>1. Inv => UncancelableExplained
  <2> SUFFICES ASSUME Inv, NEW g \in 1..sent, phase[g] \in {"accepted", "running"}
               PROVE  \/ Cancelable(g) \/ Superseded(g) \/ g <= lost
                      \/ future[g] = "pending"
                      \/ http.at = "record" /\ http.goal = g
    BY DEF UncancelableExplained
  <2>1. g \in Goal /\ g <= sent /\ sent \in Nat /\ lost \in Nat
    BY Distinct DEF Inv, TypeOK, Goal
  <2>2. CASE lost < g
    <3>1. future[g] \in {"pending", "accepted"}
      BY <2>1, <2>2 DEF Inv, FutureInv, TypeOK, Answer
    <3>2. CASE pending[order[g]] = g
      BY <3>1, <3>2 DEF Cancelable
    <3>3. ASSUME NEW h \in Goal, g < h, h <= sent, order[h] = order[g]
          PROVE  Superseded(g)
      <4>1. h \in (g + 1)..sent
        BY <2>1, <3>3, Distinct
      <4> QED
        BY <3>3, <4>1 DEF Superseded
    <3>4. CASE Recording /\ g = sent
      BY <3>4 DEF Inv, HttpInv, Recording
    <3> QED
      BY <2>1, <2>2, <3>2, <3>3, <3>4 DEF Inv, EntryInv
  <2> QED
    BY <2>1, <2>2, Distinct
<1> QED
  BY <1>1, InvCorrect, PTL

\* A cancel is passed on for the last goal under the id it names.
THEOREM CancelHitsNamedOnly == Spec => CancelHitsNamed
<1>1. Inv /\ [Next]_vars =>
        [\A g \in asked' \ asked : order[g] = http.id /\ ~Superseded(g)]_vars
  <2> SUFFICES ASSUME Inv, [Next]_vars, NEW g \in asked' \ asked
               PROVE  order[g] = http.id /\ ~Superseded(g)
    OBVIOUS
  <2>1. CancelSent
    <3>1. CASE Quiet
      BY <3>1, QuietFrame
    <3>0. asked' # asked
      OBVIOUS
    <3>2. CASE Moves
      <4>1. ASSUME \/ Receive \/ Refuse \/ Unavailable \/ CancelRefused
                   \/ \E o \in Id : LookUp(o)
                   \/ \E o \in Id \cup {NoOrder} : ParseOrder(o)
            PROVE  asked' = asked
        BY <4>1 DEF Receive, Refuse, Unavailable, CancelRefused, LookUp, ParseOrder,
           httpVars
      <4> QED
        BY <3>0, <3>2, <4>1 DEF Moves
    <3>3. CASE Dispatch \/ Record \/ Restart
      BY <3>3 DEF Dispatch, Record, Restart, httpVars
    <3> QED
      BY <3>1, <3>2, <3>3, Split
  <2>2. g = http.goal /\ http.at = "handle" /\ http.goal # NoGoal
    BY <2>1 DEF CancelSent
  <2>3. http.id \in Id /\ g = pending[http.id] /\ ~Recording
    BY <2>2 DEF Inv, HttpInv, Recording
  <2>4. g \in Goal /\ order[g] = http.id
        /\ \A h \in Goal : g < h /\ h <= sent => order[h] # order[g]
    BY <2>2, <2>3 DEF Inv, PendingInv, TypeOK
  <2>5. \A h \in (g + 1)..sent : h \in Goal /\ g < h /\ h <= sent
    <3>1. g \in Nat /\ 1 <= g /\ sent \in 0..MaxOrders /\ MaxOrders \in Nat
      BY <2>4, Distinct DEF Goal, Inv, TypeOK
    <3> QED
      BY <3>1 DEF Goal
  <2> QED
    BY <2>4, <2>5 DEF Superseded
<1> QED
  BY <1>1, InvCorrect, PTL DEF Spec, CancelHitsNamed

\* A snapshot never shows a SubJob dispatched after the order it names.
THEOREM SnapshotsLag == Spec => []SnapshotNotAhead
<1>1. Inv => SnapshotNotAhead
  <2> SUFFICES ASSUME Inv, Serving, lastState # NoGoal, lastState > lost
               PROVE  \E g \in lastState..sent : order[g] = lastOrder
    BY DEF SnapshotNotAhead, Snapshot
  <2>1. lastState \in Nat /\ lastState <= sent /\ sent \in Nat /\ lost \in Nat
    BY Distinct DEF Inv, TypeOK, SentInv
  <2>2. lost < sent /\ ~Recording
    BY <2>1 DEF Serving, Recording
  <2>3. sent \in lastState..sent /\ order[sent] = lastOrder
    BY <2>1, <2>2 DEF Inv, LastInv
  <2> QED
    BY <2>3
<1> QED
  BY <1>1, InvCorrect, PTL
=============================================================================
