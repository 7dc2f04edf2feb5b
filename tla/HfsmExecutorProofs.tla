------------------------- MODULE HfsmExecutorProofs -------------------------
(***************************************************************************)
(* Theorems about HfsmExecutor, for every set of goals: the server is busy *)
(* only while a run holds it, whatever overlaps; clients that await their  *)
(* results are never turned away and never overlap; and every behaviour is *)
(* one of SubJobService.  Then the same beside the status timer and the    *)
(* region threads of HfsmStatus, and what the timer publishes.  Then the   *)
(* RCS bridge above this server (BridgedExecutor): the two implement       *)
(* RcsBridge, so what RcsBridgeProofs shows holds of them.  Last, the      *)
(* interpreter inside it (EngineExecutor): that implements HfsmExecutor as *)
(* well as HfsmEngine, and the two together give what a client is told.    *)
(***************************************************************************)
EXTENDS HfsmStatus, BridgedExecutor, EngineExecutor, TLAPS

LEMMA TypeInit == Init => TypeOK
<1> SUFFICES ASSUME Init PROVE TypeOK
  OBVIOUS
<1>1. shown \in Snapshot
  BY DEF Init, Snapshot, Blank, Owner
<1> QED
  BY <1>1 DEF Init, TypeOK, Owner, Handling, Section

LEMMA TypeStep == TypeOK /\ [Next]_vars => TypeOK'
<1> SUFFICES ASSUME TypeOK, [Next]_vars PROVE TypeOK'
  OBVIOUS
<1> USE GoalAssumption
    DEF TypeOK, Owner, Active, Terminal, Section, Reporting, Handling, Goto,
        execVars, cancelVars
<1>1. CASE UNCHANGED vars
  BY <1>1 DEF vars, Snapshot
<1>2. ASSUME NEW g \in Goal, Client(g) PROVE TypeOK'
  BY <1>2 DEF Client, Send, RequestCancel
<1>3. ASSUME NEW g \in Goal, Middleware(g) PROVE TypeOK'
  BY <1>3 DEF Middleware, GoalCallback, Execute
<1>4. ASSUME NEW g \in Goal, Worker(g) PROVE TypeOK'
  <2>1. CASE Begin(g) BY <2>1 DEF Begin, Snapshot
  <2>2. CASE Build(g) BY <2>2 DEF Build, BuildSubjob
  <2>3. CASE PublishSpec(g) BY <2>3 DEF PublishSpec, Snapshot
  <2>4. CASE RunEnter(g) BY <2>4 DEF RunEnter
  <2>5. CASE RunStep(g) BY <2>5 DEF RunStep
  <2>6. CASE RunCancel(g) BY <2>6 DEF RunCancel
  <2>7. CASE RunEnd(g) BY <2>7 DEF RunEnd
  <2>8. CASE CancelledSection(g) BY <2>8 DEF CancelledSection, Snapshot
  <2>9. CASE FinishSection(g) BY <2>9 DEF FinishSection, Snapshot
  <2>10. CASE FinishRaises(g) BY <2>10 DEF FinishRaises, Snapshot
  <2>11. CASE FailSection(g) BY <2>11 DEF FailSection, Snapshot
  <2>12. CASE ReportSucceed(g) BY <2>12 DEF ReportSucceed
  <2>13. CASE ReportAbort(g) BY <2>13 DEF ReportAbort
  <2>14. CASE ReportCanceled(g) BY <2>14 DEF ReportCanceled
  <2> QED BY <1>4, <2>1, <2>2, <2>3, <2>4, <2>5, <2>6, <2>7, <2>8, <2>9,
             <2>10, <2>11, <2>12, <2>13, <2>14 DEF Worker
<1>5. ASSUME NEW g \in Goal, CancelHandler(g) PROVE TypeOK'
  <2>1. CASE CancelLookup(g) BY <2>1 DEF CancelLookup
  <2>2. CASE CancelFlip(g)
    <3>1. tokenSet' \in [Goal -> BOOLEAN]
      BY <2>2, Zenon DEF CancelFlip
    <3> QED BY <2>2, <3>1 DEF CancelFlip
  <2>3. CASE CancelNotify(g) BY <2>3 DEF CancelNotify
  <2> QED BY <1>5, <2>1, <2>2, <2>3 DEF CancelHandler
<1> QED
  BY <1>1, <1>2, <1>3, <1>4, <1>5 DEF Next

\* Every variable keeps its type, for any number of goals and clients.
THEOREM TypeCorrect == Spec => []TypeOK
BY TypeInit, TypeStep, PTL DEF Spec

-----------------------------------------------------------------------------
(* The inductive invariant.                                                *)

\* The thread of a goal and its rclpy state agree, and the goal is CANCELING
\* only after a cancel request was handled.
GoalLife ==
  \A g \in Goal :
    /\ pc[g] = "idle" <=> goalState[g] \in {"none", "offered", "rejected"}
    /\ pc[g] = "done" <=> goalState[g] \in Terminal
    /\ goalState[g] \in {"canceling", "canceled"} => cancelPc[g] = "done"
    /\ pc[g] = "idle" => cancelPc[g] = "none"

\* The token of a goal is known to nobody before _execute_goal makes it.
FreshToken ==
  \A g \in Goal : pc[g] \in {"idle", "accepted", "begin"} =>
    ~tokenSet[g] /\ token # g /\ \A h \in Goal : cancelTok[h] # g

\* The last goal to begin is still in its section when the server is busy:
\* whoever leaves a section resets _busy, for the others too.
BusyHeld == busy => shown.subjob \in Goal /\ pc[shown.subjob] \in Section

\* What a client that awaits its answers makes true.
SerialLife ==
  /\ \A g, h \in Goal : Outstanding(g) /\ Outstanding(h) => g = h
  /\ SerialNeverRejected
  /\ TokenIsolation

IInv == /\ TypeOK
        /\ GoalLife
        /\ FreshToken
        /\ BusyHeld
        /\ StatusFollowsBusy
        /\ SerialClient => SerialLife

LEMMA InitIInv == Init => IInv
<1> SUFFICES ASSUME Init PROVE IInv
  OBVIOUS
<1>1. TypeOK
  BY TypeInit
<1>2. GoalLife
  BY DEF Init, GoalLife, Terminal
<1>3. FreshToken
  BY GoalAssumption DEF Init, FreshToken
<1>4. BusyHeld /\ StatusFollowsBusy
  BY DEF Init, BusyHeld, StatusFollowsBusy, Blank
<1>5. SerialLife
  BY DEF Init, SerialLife, Outstanding, Active, Handling, SerialNeverRejected,
         TokenIsolation
<1> QED
  BY <1>1, <1>2, <1>3, <1>4, <1>5 DEF IInv

\* A step leaves alone what it does not name, so each invariant is disturbed
\* by few actions; the others are covered by their UNCHANGED.
LEMMA LifeStep == IInv /\ [Next]_vars => GoalLife'
<1> SUFFICES ASSUME IInv, [Next]_vars PROVE GoalLife'
  OBVIOUS
<1> USE DEF IInv, TypeOK, GoalLife, Active, Terminal, Section, Reporting,
            Handling, Goto, execVars, cancelVars
<1>1. CASE UNCHANGED vars
  BY <1>1 DEF vars
<1>2. ASSUME NEW g \in Goal, Client(g) PROVE GoalLife'
  BY <1>2 DEF Client, Send, RequestCancel
<1>3. ASSUME NEW g \in Goal, Middleware(g) PROVE GoalLife'
  BY <1>3 DEF Middleware, GoalCallback, Execute
<1>4. ASSUME NEW g \in Goal, Worker(g) PROVE GoalLife'
  <2>1. CASE ReportSucceed(g) BY <2>1 DEF ReportSucceed
  <2>2. CASE ReportAbort(g) BY <2>2 DEF ReportAbort
  <2>3. CASE ReportCanceled(g) BY <2>3 DEF ReportCanceled
  <2>4. CASE Begin(g) \/ Build(g) \/ PublishSpec(g) \/ RunEnter(g) \/ RunStep(g)
    BY <2>4 DEF Begin, Build, BuildSubjob, PublishSpec, RunEnter, RunStep
  <2>5. CASE RunCancel(g) \/ RunEnd(g) \/ CancelledSection(g)
    BY <2>5 DEF RunCancel, RunEnd, CancelledSection
  <2>6. CASE FinishSection(g) \/ FinishRaises(g) \/ FailSection(g)
    BY <2>6 DEF FinishSection, FinishRaises, FailSection
  <2> QED
    BY <1>4, <2>1, <2>2, <2>3, <2>4, <2>5, <2>6 DEF Worker
<1>5. ASSUME NEW g \in Goal, CancelHandler(g) PROVE GoalLife'
  BY <1>5 DEF CancelHandler, CancelLookup, CancelFlip, CancelNotify
<1> QED
  BY <1>1, <1>2, <1>3, <1>4, <1>5 DEF Next

LEMMA TokenStep == IInv /\ [Next]_vars => FreshToken'
<1> SUFFICES ASSUME IInv, [Next]_vars PROVE FreshToken'
  OBVIOUS
<1> USE GoalAssumption
    DEF IInv, TypeOK, FreshToken, Section, Goto, execVars, cancelVars
<1>1. CASE UNCHANGED vars
  BY <1>1 DEF vars
<1>2. ASSUME NEW g \in Goal, Client(g) PROVE FreshToken'
  BY <1>2 DEF Client, Send, RequestCancel
<1>3. ASSUME NEW g \in Goal, Middleware(g) PROVE FreshToken'
  BY <1>3 DEF Middleware, GoalCallback, Execute
<1>4. ASSUME NEW g \in Goal, Worker(g) PROVE FreshToken'
  <2>1. CASE Begin(g) \/ Build(g) \/ PublishSpec(g) \/ RunEnter(g) \/ RunStep(g)
    BY <2>1 DEF Begin, Build, BuildSubjob, PublishSpec, RunEnter, RunStep
  <2>2. CASE RunCancel(g) \/ RunEnd(g) \/ CancelledSection(g)
    BY <2>2 DEF RunCancel, RunEnd, CancelledSection
  <2>3. CASE FinishSection(g) \/ FinishRaises(g) \/ FailSection(g)
    BY <2>3 DEF FinishSection, FinishRaises, FailSection
  <2>4. CASE ReportSucceed(g) \/ ReportAbort(g) \/ ReportCanceled(g)
    BY <2>4 DEF ReportSucceed, ReportAbort, ReportCanceled
  <2> QED
    BY <1>4, <2>1, <2>2, <2>3, <2>4 DEF Worker
<1>5. ASSUME NEW g \in Goal, CancelHandler(g) PROVE FreshToken'
  <2>1. CASE CancelLookup(g) BY <2>1 DEF CancelLookup
  <2>2. CASE CancelFlip(g) BY <2>2 DEF CancelFlip
  <2>3. CASE CancelNotify(g) BY <2>3 DEF CancelNotify
  <2> QED BY <1>5, <2>1, <2>2, <2>3 DEF CancelHandler
<1> QED
  BY <1>1, <1>2, <1>3, <1>4, <1>5 DEF Next

LEMMA BusyStep == IInv /\ [Next]_vars => BusyHeld' /\ StatusFollowsBusy'
<1> SUFFICES ASSUME IInv, [Next]_vars PROVE BusyHeld' /\ StatusFollowsBusy'
  OBVIOUS
<1> USE DEF IInv, TypeOK, Snapshot, BusyHeld, StatusFollowsBusy, Section, Goto,
            execVars, cancelVars
<1>1. CASE UNCHANGED vars
  BY <1>1 DEF vars
<1>2. ASSUME NEW g \in Goal, Client(g) PROVE BusyHeld' /\ StatusFollowsBusy'
  BY <1>2 DEF Client, Send, RequestCancel
<1>3. ASSUME NEW g \in Goal, Middleware(g) PROVE BusyHeld' /\ StatusFollowsBusy'
  BY <1>3 DEF Middleware, GoalCallback, Execute
<1>4. ASSUME NEW g \in Goal, Worker(g) PROVE BusyHeld' /\ StatusFollowsBusy'
  <2>1. CASE Begin(g) BY <2>1 DEF Begin
  <2>2. CASE Build(g) \/ PublishSpec(g) \/ RunEnter(g)
    BY <2>2 DEF Build, BuildSubjob, PublishSpec, RunEnter
  <2>3. CASE RunStep(g) \/ RunCancel(g) \/ RunEnd(g)
    BY <2>3 DEF RunStep, RunCancel, RunEnd
  <2>4. CASE CancelledSection(g) \/ FinishSection(g)
    BY <2>4 DEF CancelledSection, FinishSection
  <2>5. CASE FinishRaises(g) \/ FailSection(g)
    BY <2>5 DEF FinishRaises, FailSection
  <2>6. CASE ReportSucceed(g) \/ ReportAbort(g) \/ ReportCanceled(g)
    BY <2>6 DEF ReportSucceed, ReportAbort, ReportCanceled
  <2> QED
    BY <1>4, <2>1, <2>2, <2>3, <2>4, <2>5, <2>6 DEF Worker
<1>5. ASSUME NEW g \in Goal, CancelHandler(g) PROVE BusyHeld' /\ StatusFollowsBusy'
  BY <1>5 DEF CancelHandler, CancelLookup, CancelFlip, CancelNotify
<1> QED
  BY <1>1, <1>2, <1>3, <1>4, <1>5 DEF Next

\* The goals between the acceptance and the result are outstanding.
LEMMA InService ==
  ASSUME IInv, NEW g \in Goal, pc[g] \notin {"idle", "done"}
  PROVE  goalState[g] \in Active /\ Outstanding(g)
BY DEF IInv, TypeOK, GoalLife, Outstanding, Active

LEMMA SerialStep ==
  SerialClient /\ IInv /\ [Next]_vars => SerialLife'
<1> SUFFICES ASSUME SerialClient, IInv, [Next]_vars PROVE SerialLife'
  OBVIOUS
<1>0. SerialLife /\ TypeOK /\ GoalLife /\ FreshToken /\ BusyHeld
  BY DEF IInv
<1>1. \A g, h \in Goal : Outstanding(g) /\ Outstanding(h) => g = h
  BY <1>0 DEF SerialLife
<1>2. CASE UNCHANGED vars
  BY <1>0, <1>2 DEF vars, SerialLife, Outstanding, SerialNeverRejected, TokenIsolation
<1>3. ASSUME NEW g \in Goal, Client(g) PROVE SerialLife'
  BY <1>0, <1>3 DEF Client, Send, RequestCancel, SerialLife, Outstanding, TypeOK,
     SerialNeverRejected, TokenIsolation, execVars, cancelVars,
     Active, Handling, Section, GoalLife
<1>4. ASSUME NEW g \in Goal, Middleware(g) PROVE SerialLife'
  <2>1. CASE GoalCallback(g)
    <3>1. ~busy
      <4> SUFFICES ASSUME busy PROVE FALSE
        OBVIOUS
      <4>1. shown.subjob \in Goal /\ pc[shown.subjob] \in Section
        BY <1>0 DEF BusyHeld
      <4>2. Outstanding(shown.subjob)
        BY <4>1, InService DEF Section
      <4>3. Outstanding(g) /\ pc[g] = "idle"
        BY <2>1, <1>0 DEF GoalCallback, Outstanding, GoalLife
      <4> QED
        BY <1>1, <4>1, <4>2, <4>3 DEF Section
    <3> QED
      BY <1>0, <2>1, <3>1 DEF GoalCallback, SerialLife, Outstanding, TypeOK, Goto,
         SerialNeverRejected, TokenIsolation, execVars, cancelVars,
         Active, Section
  <2>2. CASE Execute(g)
    BY <1>0, <2>2 DEF Execute, SerialLife, Outstanding, TypeOK, Goto,
       SerialNeverRejected, TokenIsolation, execVars, cancelVars,
       Active, Section, GoalLife
  <2> QED
    BY <1>4, <2>1, <2>2 DEF Middleware
<1>5. ASSUME NEW g \in Goal, Worker(g) PROVE SerialLife'
  <2> USE <1>0 DEF SerialLife, Outstanding, TypeOK, Goto, SerialNeverRejected,
      TokenIsolation, execVars, cancelVars, Active, Section, Reporting
  <2>1. CASE Begin(g) BY <2>1 DEF Begin, FreshToken
  <2>2. CASE Build(g) \/ PublishSpec(g) \/ RunEnter(g)
    BY <2>2 DEF Build, BuildSubjob, PublishSpec, RunEnter
  <2>3. CASE RunStep(g) \/ RunCancel(g) \/ RunEnd(g)
    BY <2>3 DEF RunStep, RunCancel, RunEnd
  <2>4. CASE CancelledSection(g) \/ FinishSection(g)
    BY <2>4 DEF CancelledSection, FinishSection
  <2>5. CASE FinishRaises(g) \/ FailSection(g)
    BY <2>5 DEF FinishRaises, FailSection
  <2>6. CASE ReportSucceed(g) \/ ReportAbort(g)
    BY <2>6 DEF ReportSucceed, ReportAbort
  <2>7. CASE ReportCanceled(g) BY <2>7 DEF ReportCanceled
  <2> QED
    BY <1>5, <2>1, <2>2, <2>3, <2>4, <2>5, <2>6, <2>7 DEF Worker
<1>6. ASSUME NEW g \in Goal, CancelHandler(g) PROVE SerialLife'
  <2> USE <1>0 DEF SerialLife, Outstanding, TypeOK, SerialNeverRejected,
      TokenIsolation, execVars, cancelVars, Handling
  <2>1. CASE CancelLookup(g) BY <2>1 DEF CancelLookup
  <2>2. CASE CancelFlip(g)
    \* The token it flips is of a goal that ended, or its own.
    <3>1. ASSUME NEW h \in Goal, h = cancelTok[g], pc[h] \in Section PROVE h = g
      <4>1. Outstanding(h)
        BY <3>1, InService DEF Section
      <4>2. Outstanding(g)
        BY <2>2 DEF CancelFlip
      <4> QED BY <1>1, <4>1, <4>2
    <3>2. SerialNeverRejected' /\ \A h, i \in Goal : Outstanding(h)' /\ Outstanding(i)' => h = i
      BY <2>2 DEF CancelFlip
    <3>3. ASSUME NEW h \in Goal, pc'[h] \in Section, tokenSet'[h]
          PROVE  cancelPc'[h] \in {"notify", "done"}
      BY <2>2, <3>1, <3>3 DEF CancelFlip
    <3> QED BY <3>2, <3>3 DEF SerialLife, TokenIsolation
  <2>3. CASE CancelNotify(g) BY <2>3 DEF CancelNotify, Active
  <2> QED BY <1>6, <2>1, <2>2, <2>3 DEF CancelHandler
<1> QED
  BY <1>2, <1>3, <1>4, <1>5, <1>6 DEF Next

LEMMA StepIInv == IInv /\ [Next]_vars => IInv'
BY TypeStep, LifeStep, TokenStep, BusyStep, SerialStep DEF IInv

LEMMA Inductive == Spec => []IInv
BY InitIInv, StepIInv, PTL DEF Spec

-----------------------------------------------------------------------------
(* What follows from it.                                                   *)

\* The server turns goals away only while some goal is between its lock
\* sections, even when goals that overlap reset _busy for each other.
THEOREM BusyCorrect == Spec => []BusyJustified
<1>1. IInv => BusyJustified
  BY DEF IInv, BusyHeld, BusyJustified
<1> QED
  BY <1>1, Inductive, PTL

\* What it shows of its state follows _busy, set and reset in the same lock
\* sections.
THEOREM StatusShowsBusy == Spec => []StatusFollowsBusy
<1>1. IInv => StatusFollowsBusy
  BY DEF IInv
<1> QED
  BY <1>1, Inductive, PTL

\* A client that awaits the result of each goal and the answer to each cancel
\* request is never turned away, never has two SubJobs running, and never
\* has a SubJob stopped by a request for another one.
THEOREM SerialClientSafe ==
  Spec => [](SerialClient => OneAtATime /\ SerialNeverRejected /\ TokenIsolation)
<1>1. ASSUME IInv, SerialClient PROVE OneAtATime
  <2> SUFFICES ASSUME NEW g \in Goal, NEW h \in Goal,
                      pc[g] \in Section, pc[h] \in Section
               PROVE  g = h
    BY DEF OneAtATime
  <2>1. Outstanding(g) /\ Outstanding(h)
    BY <1>1, InService DEF Section
  <2> QED
    BY <1>1, <2>1 DEF IInv, SerialLife
<1>2. IInv => (SerialClient => OneAtATime /\ SerialNeverRejected /\ TokenIsolation)
  BY <1>1 DEF IInv, SerialLife
<1> QED
  BY <1>2, Inductive, PTL

-----------------------------------------------------------------------------
(* Refinement of SubJobService.                                            *)

\* Where a goal stands for its client follows from where its thread stands.
LEMMA PhaseOfThread ==
  ASSUME IInv, NEW g \in Goal
  PROVE  /\ goalState[g] \in {"none", "offered"} => Phase(g) = "new"
         /\ goalState[g] = "rejected" => Phase(g) = "rejected"
         /\ pc[g] \in {"accepted", "begin"} => Phase(g) = "accepted"
         /\ pc[g] \in Section => Phase(g) = "running"
         /\ pc[g] \in Reporting => Phase(g) = "ended"
         /\ pc[g] = "done" => Phase(g) = goalState[g]
BY DEF IInv, TypeOK, GoalLife, Phase, Active, Terminal, Section, Reporting

LEMMA RefineInit == Init => Service!Init
BY DEF Init, Service!Init, Phase, Terminal, Active

LEMMA RefineStep ==
  IInv /\ IInv' /\ [Next]_vars => [Service!Next]_Service!vars
<1> SUFFICES ASSUME IInv, IInv', [Next]_vars
             PROVE  [Service!Next]_Service!vars
  OBVIOUS
<1> DEFINE phase == [g \in Goal |-> Phase(g)]
           wanted == {g \in Goal : cancelPc[g] # "none"}
<1>0. TypeOK /\ GoalLife /\ TypeOK' /\ GoalLife'
  BY DEF IInv
\* A step that leaves the state and the thread of every goal is no step.
<1>1. ASSUME UNCHANGED <<goalState, pc>> PROVE phase' = phase
  BY <1>1 DEF Phase
<1>2. ASSUME UNCHANGED cancelPc PROVE wanted' = wanted
  BY <1>2
\* A step of one goal changes the phase of that goal only.
<1>3. ASSUME NEW g \in Goal,
             \A h \in Goal \ {g} : goalState'[h] = goalState[h] /\ pc'[h] = pc[h]
      PROVE  phase' = [phase EXCEPT ![g] = Phase(g)']
  <2>1. ASSUME NEW h \in Goal \ {g} PROVE Phase(h)' = Phase(h)
    BY <1>3, <2>1 DEF Phase
  <2>2. phase' = [h \in Goal |-> Phase(h)']
    OBVIOUS
  <2> QED BY <2>1, <2>2
<1>4. ASSUME NEW g \in Goal, Phase(g)' = Phase(g),
             \A h \in Goal \ {g} : goalState'[h] = goalState[h] /\ pc'[h] = pc[h]
      PROVE  phase' = phase
  <2>1. phase' = [phase EXCEPT ![g] = Phase(g)']
    BY <1>3, <1>4
  <2> QED BY <1>4, <2>1
<1>5. CASE UNCHANGED vars
  BY <1>1, <1>2, <1>5 DEF vars, Service!vars
<1>6. ASSUME NEW g \in Goal, Client(g) PROVE [Service!Next]_Service!vars
  <2>1. CASE Send(g)
    <3>1. Phase(g)' = Phase(g)
      BY <2>1, <1>0 DEF Send, Phase, TypeOK, Active, Terminal
    <3>2. phase' = phase /\ wanted' = wanted
      BY <2>1, <3>1, <1>0, <1>2, <1>4 DEF Send, TypeOK, cancelVars
    <3> QED BY <3>2 DEF Service!vars
  <2>2. CASE RequestCancel(g)
    <3>1. phase' = phase
      BY <2>2, <1>1 DEF RequestCancel
    <3>2. wanted' = wanted \cup {g}
      BY <2>2, <1>0 DEF RequestCancel, TypeOK
    <3>3. phase[g] \in {"accepted", "running", "ended"}
      BY <2>2 DEF RequestCancel, Phase, Active, Terminal
    <3>4. Service!Cancel(g)
      BY <3>1, <3>2, <3>3 DEF Service!Cancel
    <3> QED BY <3>4 DEF Service!Next
  <2> QED BY <1>6, <2>1, <2>2 DEF Client
<1>7. ASSUME NEW g \in Goal, Middleware(g) PROVE [Service!Next]_Service!vars
  <2>0. /\ \A h \in Goal \ {g} : goalState'[h] = goalState[h] /\ pc'[h] = pc[h]
        /\ wanted' = wanted
    BY <1>7, <1>0, <1>2 DEF Middleware, GoalCallback, Execute, Goto, TypeOK, cancelVars
  <2>1. CASE GoalCallback(g) /\ busy
    <3>1. phase[g] = "new" /\ phase' = [phase EXCEPT ![g] = "rejected"]
      <4>1. goalState[g] = "offered" /\ goalState'[g] = "rejected"
        BY <2>1, <1>0 DEF GoalCallback, TypeOK
      <4>2. Phase(g) = "new" /\ Phase(g)' = "rejected"
        BY <4>1 DEF Phase, Active, Terminal
      <4> QED BY <2>0, <4>2, <1>3
    <3>2. Service!Running # {}
      BY <2>1, PhaseOfThread DEF Service!Running, IInv, BusyHeld
    <3>3. Service!Reject(g)
      BY <3>1, <3>2, <2>0 DEF Service!Reject, Service!Move
    <3> QED BY <3>3 DEF Service!Next
  <2>2. CASE GoalCallback(g) /\ ~busy
    <3>1. phase[g] = "new" /\ phase' = [phase EXCEPT ![g] = "accepted"]
      <4>1. /\ goalState[g] = "offered" /\ goalState'[g] = "accepted"
            /\ pc'[g] \notin Section \cup Reporting
        BY <2>2, <1>0 DEF GoalCallback, Goto, TypeOK, Section, Reporting
      <4>2. Phase(g) = "new" /\ Phase(g)' = "accepted"
        BY <4>1 DEF Phase, Active, Terminal
      <4> QED BY <2>0, <4>2, <1>3
    <3>2. Service!Accept(g)
      BY <3>1, <2>0 DEF Service!Accept, Service!Move
    <3> QED BY <3>2 DEF Service!Next
  <2>3. CASE Execute(g)
    <3>1. Phase(g)' = Phase(g)
      BY <2>3, <1>0 DEF Execute, Goto, Phase, TypeOK, GoalLife, Active, Terminal,
         Section, Reporting
    <3>2. phase' = phase
      BY <3>1, <2>0, <1>4
    <3> QED BY <3>2, <2>0 DEF Service!vars
  <2> QED BY <1>7, <2>1, <2>2, <2>3 DEF Middleware
<1>8. ASSUME NEW g \in Goal, Worker(g) PROVE [Service!Next]_Service!vars
  <2>0. /\ \A h \in Goal \ {g} : goalState'[h] = goalState[h] /\ pc'[h] = pc[h]
        /\ wanted' = wanted
    BY <1>8, <1>0, <1>2 DEF Worker, Begin, Build, BuildSubjob, PublishSpec, RunEnter, RunStep,
       RunCancel, RunEnd, CancelledSection, FinishSection, FinishRaises, FailSection,
       ReportSucceed, ReportAbort, ReportCanceled, Goto, TypeOK, cancelVars
  <2> HIDE DEF phase, wanted
  <2>1. CASE Begin(g)
    <3>1. pc[g] = "begin" /\ pc'[g] \in Section
      BY <2>1, <1>0 DEF Begin, Goto, TypeOK, Section
    <3>2. phase[g] = "accepted" /\ phase' = [phase EXCEPT ![g] = "running"]
      <4>1. Phase(g)' = "running"
        BY <3>1 DEF Phase, IInv, TypeOK, GoalLife, Active, Terminal, Section
      <4> QED BY <2>0, <3>1, <4>1, <1>3, PhaseOfThread DEF phase
    <3>3. SerialClient => Service!Running = {}
      <4> SUFFICES ASSUME SerialClient, NEW h \in Goal, Phase(h) = "running"
                   PROVE  FALSE
        BY DEF Service!Running
      <4>1. pc[h] \in Section
        BY <1>0 DEF Phase, TypeOK, Active, Terminal
      <4>2. Outstanding(g) /\ Outstanding(h)
        BY <3>1, <4>1, InService DEF Section
      <4> QED BY <3>1, <4>1, <4>2 DEF IInv, SerialLife, Section
    <3>4. Service!Start(g)
      BY <3>2, <3>3, <2>0 DEF Service!Start, Service!Move, phase, wanted
    <3> QED BY <3>4 DEF Service!Next
  <2>2. CASE Build(g) \/ PublishSpec(g) \/ RunEnter(g) \/ RunStep(g)
             \/ RunCancel(g) \/ RunEnd(g)
    <3>1. pc[g] \in Section /\ pc'[g] \in Section /\ goalState' = goalState
      BY <2>2, <1>0 DEF Build, BuildSubjob, PublishSpec, RunEnter, RunStep, RunCancel, RunEnd,
         Goto, TypeOK, Section
    <3>2. Phase(g)' = Phase(g)
      BY <3>1, <1>0 DEF Phase, TypeOK, GoalLife, Active, Terminal, Section
    <3>3. phase' = phase
      BY <3>2, <2>0, <1>4
    <3> QED BY <3>3, <2>0 DEF Service!vars, phase, wanted
  <2>3. CASE CancelledSection(g) \/ FinishSection(g) \/ FinishRaises(g) \/ FailSection(g)
    <3>1. pc[g] \in Section /\ pc'[g] \in Reporting
      BY <2>3, <1>0 DEF CancelledSection, FinishSection, FinishRaises, FailSection,
         Goto, TypeOK, Section, Reporting
    <3>2. Phase(g)' = "ended"
      BY <3>1 DEF Phase, IInv, TypeOK, GoalLife, Active, Terminal, Section, Reporting
    <3>3. phase[g] = "running" /\ phase' = [phase EXCEPT ![g] = "ended"]
      BY <2>0, <3>1, <3>2, <1>3, PhaseOfThread DEF phase
    <3>4. Service!Stop(g)
      BY <3>3, <2>0 DEF Service!Stop, Service!Move, phase, wanted
    <3> QED BY <3>4 DEF Service!Next
  <2>4. CASE ReportSucceed(g) \/ ReportAbort(g) \/ ReportCanceled(g)
    <3>1. /\ pc[g] \in Reporting
          /\ goalState'[g] \in Terminal
          /\ goalState'[g] = "canceled" => g \in wanted
      BY <2>4, <1>0 DEF ReportSucceed, ReportAbort, ReportCanceled, Goto, TypeOK,
         GoalLife, Terminal, Reporting, wanted
    <3>2. Phase(g)' = goalState'[g]
      BY <3>1 DEF Phase, Active, Terminal
    <3>3. phase[g] = "ended" /\ phase' = [phase EXCEPT ![g] = goalState'[g]]
      BY <2>0, <3>1, <3>2, <1>3, PhaseOfThread DEF phase
    <3>4. Service!Report(g)
      BY <3>1, <3>3, <2>0 DEF Service!Report, Service!Move, Service!Result,
         Terminal, phase, wanted
    <3> QED BY <3>4 DEF Service!Next
  <2> QED BY <1>8, <2>1, <2>2, <2>3, <2>4 DEF Worker
<1>9. ASSUME NEW g \in Goal, CancelHandler(g) PROVE [Service!Next]_Service!vars
  <2>1. wanted' = wanted
    BY <1>9, <1>0 DEF CancelHandler, CancelLookup, CancelFlip, CancelNotify, TypeOK
  <2>2. CASE CancelLookup(g) \/ CancelFlip(g)
    BY <2>1, <2>2, <1>1 DEF CancelLookup, CancelFlip, Service!vars
  <2>3. CASE CancelNotify(g)
    <3>1. /\ Phase(g)' = Phase(g)
          /\ \A h \in Goal \ {g} : goalState'[h] = goalState[h] /\ pc'[h] = pc[h]
      BY <2>3, <1>0 DEF CancelNotify, Phase, TypeOK, Active, Terminal
    <3>2. phase' = phase
      BY <3>1, <1>4
    <3> QED BY <2>1, <3>2 DEF Service!vars
  <2> QED BY <1>9, <2>2, <2>3 DEF CancelHandler
<1> QED
  BY <1>5, <1>6, <1>7, <1>8, <1>9 DEF Next

\* Every behaviour of the server is one of SubJobService, in which a goal is
\* turned away only while a SubJob runs, results are final, given after the
\* run, and "canceled" only on request; SubJobs exclude each other when
\* clients await their results.
THEOREM Refinement == Spec => ImplementsService
<1>1. IInv /\ IInv' /\ [Next]_vars => [Service!Next]_Service!vars
  BY RefineStep
<1> QED
  BY RefineInit, <1>1, Inductive, PTL DEF Spec, ImplementsService, Service!Spec

-----------------------------------------------------------------------------
(* The status timer and the region threads.                                *)

\* The fields belong to one SubJob, that in its section if there is one.
OwnFields ==
  /\ {shown.spec, shown.userdata, shown.active} \subseteq {shown.subjob, NoGoal}
  /\ \A g \in Goal : pc[g] \in Section => shown.subjob = g

PubTypeOK == livePath \in Owner /\ published \in Snapshot

StatusInv == /\ IInv
             /\ PubTypeOK
             /\ SerialClient => OwnFields /\ PublishedCoherent

LEMMA StatusInitInv == StatusInit => StatusInv
<1> SUFFICES ASSUME StatusInit PROVE StatusInv
  OBVIOUS
<1>1. IInv
  BY InitIInv DEF StatusInit
<1>2. PubTypeOK
  BY DEF StatusInit, PubTypeOK, Snapshot, Blank, Owner
<1>3. OwnFields /\ PublishedCoherent
  BY DEF StatusInit, Init, OwnFields, PublishedCoherent, Blank, Section
<1> QED
  BY <1>1, <1>2, <1>3 DEF StatusInv

\* What the timer and the region threads leave alone.
LEMMA BesideStep ==
  ASSUME IInv, StatusNext, ~(Next /\ UNCHANGED <<regions, pubVars>>)
  PROVE  /\ UNCHANGED <<goalState, pc, execVars, tokenSet, cancelVars>>
         /\ globalPath' \in Owner
BY DEF IInv, TypeOK, StatusNext, StartRegions, RegionStep, PublishRead, PublishSend,
   vars, Owner, execVars, cancelVars

\* The invariant of the server does not depend on them.
LEMMA BesideIInv ==
  IInv /\ [StatusNext]_statusVars => IInv'
<1> SUFFICES ASSUME IInv, [StatusNext]_statusVars PROVE IInv'
  OBVIOUS
<1>1. CASE [Next]_vars
  BY <1>1, StepIInv
<1>2. CASE UNCHANGED <<goalState, pc, execVars, tokenSet, cancelVars>> /\ globalPath' \in Owner
  BY <1>2 DEF IInv, TypeOK, GoalLife, FreshToken, BusyHeld, StatusFollowsBusy, SerialLife,
     Outstanding, SerialNeverRejected, TokenIsolation, execVars, cancelVars
<1> QED
  BY <1>1, <1>2, BesideStep DEF statusVars

\* In a serial world the steps of the server keep its fields together.
LEMMA FieldsStep ==
  ASSUME SerialClient, IInv, OwnFields, [Next]_vars
  PROVE  OwnFields'
<1>0. /\ TypeOK /\ \A g, h \in Goal : pc[g] \in Section /\ pc[h] \notin {"idle", "done"} => g = h
  <2>1. TypeOK /\ \A g, h \in Goal : Outstanding(g) /\ Outstanding(h) => g = h
    BY DEF IInv, SerialLife
  <2> QED
    BY <2>1, InService DEF Section
<1> USE <1>0 DEF TypeOK, Snapshot, OwnFields, Section, Goto, execVars, cancelVars
<1>1. CASE UNCHANGED vars
  BY <1>1 DEF vars
<1>2. ASSUME NEW g \in Goal, Client(g) PROVE OwnFields'
  BY <1>2 DEF Client, Send, RequestCancel
<1>3. ASSUME NEW g \in Goal, Middleware(g) PROVE OwnFields'
  BY <1>3 DEF Middleware, GoalCallback, Execute
<1>4. ASSUME NEW g \in Goal, Worker(g) PROVE OwnFields'
  <2>1. CASE Begin(g) BY <2>1 DEF Begin
  <2>2. CASE Build(g) \/ RunEnter(g) BY <2>2 DEF Build, BuildSubjob, RunEnter
  <2>3. CASE PublishSpec(g) BY <2>3 DEF PublishSpec
  <2>4. CASE RunStep(g) \/ RunCancel(g) \/ RunEnd(g)
    BY <2>4 DEF RunStep, RunCancel, RunEnd
  <2>5. CASE CancelledSection(g) BY <2>5 DEF CancelledSection
  <2>6. CASE FinishSection(g) BY <2>6 DEF FinishSection
  <2>7. CASE FinishRaises(g)
    BY <2>7 DEF FinishRaises
  <2>8. CASE FailSection(g) BY <2>8 DEF FailSection
  <2>9. CASE ReportSucceed(g) \/ ReportAbort(g) \/ ReportCanceled(g)
    BY <2>9 DEF ReportSucceed, ReportAbort, ReportCanceled
  <2> QED
    BY <1>4, <2>1, <2>2, <2>3, <2>4, <2>5, <2>6, <2>7, <2>8, <2>9 DEF Worker
<1>5. ASSUME NEW g \in Goal, CancelHandler(g) PROVE OwnFields'
  BY <1>5 DEF CancelHandler, CancelLookup, CancelFlip, CancelNotify
<1> QED
  BY <1>1, <1>2, <1>3, <1>4, <1>5 DEF Next

\* A message is sent with the fields as they are under the lock, whatever path
\* was read before.
LEMMA StatusStepInv == StatusInv /\ [StatusNext]_statusVars => StatusInv'
<1> SUFFICES ASSUME StatusInv, [StatusNext]_statusVars PROVE StatusInv'
  OBVIOUS
<1>1. IInv /\ IInv'
  BY BesideIInv DEF StatusInv
<1>2. PubTypeOK'
  BY <1>1 DEF StatusInv, PubTypeOK, IInv, TypeOK, StatusNext, StartRegions, RegionStep,
     PublishRead, PublishSend, statusVars, pubVars, Snapshot, Owner
<1>3. ASSUME SerialClient PROVE OwnFields'
  <2>1. CASE [Next]_vars
    BY <1>1, <1>3, <2>1, FieldsStep DEF StatusInv
  <2>2. CASE UNCHANGED <<pc, shown>>
    BY <1>3, <2>2 DEF StatusInv, OwnFields
  <2> QED
    BY <1>1, <2>1, <2>2, BesideStep DEF statusVars, execVars
<1>4. ASSUME SerialClient PROVE PublishedCoherent'
  <2>1. CASE PublishSend
    BY <1>1, <1>3, <1>4, <2>1 DEF PublishSend, StatusInv, IInv, TypeOK, StatusFollowsBusy,
       OwnFields, PublishedCoherent, Snapshot
  <2>2. CASE UNCHANGED published
    BY <1>4, <2>2 DEF StatusInv, PublishedCoherent
  <2> QED
    BY <2>1, <2>2 DEF StatusNext, StartRegions, RegionStep, PublishRead, statusVars, pubVars
<1> QED
  BY <1>1, <1>2, <1>3, <1>4 DEF StatusInv

LEMMA StatusInductive == StatusSpec => []StatusInv
BY StatusInitInv, StatusStepInv, PTL DEF StatusSpec

\* With clients that await their answers no message shows the chart, the
\* userdata or the final path of another SubJob (_publish_status), whichever
\* region threads write the path.
THEOREM StatusCorrect ==
  StatusSpec => [](SerialClient => PublishedCoherent)
<1>1. StatusInv => (SerialClient => PublishedCoherent)
  BY DEF StatusInv
<1> QED
  BY <1>1, StatusInductive, PTL

\* Clients that await their answers are never turned away.
THEOREM NeverTurnedAway ==
  StatusSpec => [](SerialClient => SerialNeverRejected)
<1>1. StatusInv => (SerialClient => SerialNeverRejected)
  BY DEF StatusInv, IInv, SerialLife
<1> QED
  BY <1>1, StatusInductive, PTL

\* Nor does a cancel request for one of their SubJobs stop another one.
THEOREM CancelsTheirOwn ==
  StatusSpec => [](SerialClient => TokenIsolation)
<1>1. StatusInv => (SerialClient => TokenIsolation)
  BY DEF StatusInv, IInv, SerialLife
<1> QED
  BY <1>1, StatusInductive, PTL

\* Neither the timer nor a region thread shows at the action server: all of it
\* together implements SubJobService.
THEOREM StatusRefinement == StatusSpec => ImplementsService
<1>1. IInv /\ IInv' /\ [StatusNext]_statusVars => [Service!Next]_Service!vars
  <2> SUFFICES ASSUME IInv, IInv', [StatusNext]_statusVars
               PROVE  [Service!Next]_Service!vars
    OBVIOUS
  <2>1. CASE [Next]_vars
    BY <2>1, RefineStep
  <2>2. CASE UNCHANGED <<goalState, pc, cancelPc>>
    <3>1. \A g \in Goal : Phase(g)' = Phase(g)
      BY <2>2 DEF Phase
    <3> QED
      BY <2>2, <3>1 DEF Service!vars
  <2> QED
    BY <2>1, <2>2, BesideStep DEF statusVars, cancelVars
<1>2. StatusInv => IInv
  BY DEF StatusInv
<1> QED
  BY RefineInit, <1>1, <1>2, StatusInductive, PTL
     DEF StatusSpec, StatusInit, ImplementsService, Service!Spec

-----------------------------------------------------------------------------
(* The RCS bridge above the server.                                        *)

\* What comes to the server has left the bridge, which sends goals by number.
Sent ==
  /\ sent \in Nat
  /\ http.at = "dispatch" => http.goal = sent + 1
  /\ \A g \in Goal : goalState[g] # "none" => g <= sent
  /\ \A g \in Goal : cancelPc[g] # "none" => g \in asked

LEMMA BridgedNextIsNext == [BridgedNext]_bridgedVars => [Next]_vars
BY DEF BridgedNext, BridgeStep, ExecutorStep, Arrives, bridgedVars, Next, Client

LEMMA BridgedIInv == BridgedSpec => []IInv
<1>1. BridgedInit => Init
  BY DEF BridgedInit
<1> QED
  BY <1>1, InitIInv, StepIInv, BridgedNextIsNext, PTL DEF BridgedSpec

LEMMA SentInit == BridgedInit => Sent
BY DEF BridgedInit, Init, Bridge!Init, Bridge!Idle, Bridge!Request, Sent

\* The bridge forgets neither what it sent nor what it cancelled.
LEMMA SentGrows ==
  ASSUME Sent, BridgeStep
  PROVE  /\ sent' \in Nat /\ sent <= sent' /\ asked \subseteq asked'
         /\ http'.at = "dispatch" => http'.goal = sent' + 1
<1> USE DEF Sent, Bridge!Request, Bridge!Idle, Bridge!dispatchVars, Bridge!httpVars
<1>1. CASE Bridge!Receive \/ Bridge!OnStatus \/ Bridge!Restart \/ Bridge!Discover
  BY <1>1 DEF Bridge!Receive, Bridge!OnStatus, Bridge!Restart, Bridge!Discover
<1>2. CASE Bridge!Refuse \/ Bridge!Unavailable
  BY <1>2 DEF Bridge!Refuse, Bridge!Unavailable
<1>3. CASE Bridge!Dispatch
  BY <1>3 DEF Bridge!Dispatch
<1>4. CASE Bridge!Record
  BY <1>4 DEF Bridge!Record
<1>5. CASE Bridge!CancelRefused \/ Bridge!CancelSent
  BY <1>5 DEF Bridge!CancelRefused, Bridge!CancelSent
<1>6. ASSUME NEW o, Bridge!LookUp(o) \/ Bridge!ParseOrder(o)
      PROVE  /\ sent' = sent /\ asked' = asked
             /\ http'.at = "dispatch" => http'.goal = sent' + 1
  BY <1>6 DEF Bridge!LookUp, Bridge!ParseOrder
<1>7. ASSUME NEW g \in Goal, Bridge!AnswerArrives(g)
      PROVE  UNCHANGED <<http, sent, asked>>
  BY <1>7 DEF Bridge!AnswerArrives
<1> QED
  BY <1>1, <1>2, <1>3, <1>4, <1>5, <1>6, <1>7 DEF BridgeStep, Bridge!Serve

LEMMA SentStep ==
  ASSUME GoalsAreOrders, IInv, Sent, [BridgedNext]_bridgedVars
  PROVE  Sent'
<1>0. TypeOK /\ GoalLife /\ Goal \subseteq Int
  BY DEF IInv, GoalsAreOrders
<1>1. CASE BridgeStep
  <2>1. UNCHANGED <<goalState, cancelPc>>
    BY <1>1 DEF BridgeStep, vars, cancelVars
  <2> QED
    BY <1>0, <1>1, <2>1, SentGrows DEF Sent
<1>2. CASE UNCHANGED bridgedVars
  BY <1>2 DEF bridgedVars, bridgeVars, vars, cancelVars, Sent
<1>3. ASSUME NEW g \in Goal, UNCHANGED bridgeVars,
             Arrives(g) \/ Middleware(g) \/ Worker(g) \/ CancelHandler(g)
      PROVE  Sent'
  <2>1. UNCHANGED <<sent, http, asked>>
    BY <1>3 DEF bridgeVars
  <2>2. \A h \in Goal \ {g} : goalState'[h] = goalState[h] /\ cancelPc'[h] = cancelPc[h]
    BY <1>0, <1>3 DEF TypeOK, Arrives, Send, RequestCancel, Middleware, GoalCallback, Execute,
       Worker, Begin, Build, PublishSpec, RunEnter, RunStep, RunCancel, RunEnd,
       CancelledSection, FinishSection, FinishRaises, FailSection, ReportSucceed, ReportAbort,
       ReportCanceled, CancelHandler, CancelLookup, CancelFlip, CancelNotify, cancelVars
  <2>3. CASE Arrives(g)
    <3>1. goalState'[g] # "none" => g <= sent
      BY <2>3 DEF Arrives, Send, RequestCancel, Sent
    <3>2. cancelPc'[g] # "none" => g \in asked
      BY <2>3 DEF Arrives, Send, RequestCancel, cancelVars, Sent
    <3> QED
      BY <2>1, <2>2, <3>1, <3>2 DEF Sent
  <2>4. CASE Middleware(g) \/ Worker(g) \/ CancelHandler(g)
    <3>1. goalState[g] = "none" => goalState'[g] = "none"
      BY <1>0, <2>4 DEF GoalLife, Middleware, GoalCallback, Execute, Worker, Begin, Build,
         PublishSpec, RunEnter, RunStep, RunCancel, RunEnd, CancelledSection, FinishSection,
         FinishRaises, FailSection, ReportSucceed, ReportAbort, ReportCanceled, CancelHandler,
         CancelLookup, CancelFlip, CancelNotify, Goto
    <3>2. cancelPc[g] = "none" => cancelPc'[g] = "none"
      BY <2>4 DEF Middleware, GoalCallback, Execute, Worker, Begin, Build, PublishSpec,
         RunEnter, RunStep, RunCancel, RunEnd, CancelledSection, FinishSection, FinishRaises,
         FailSection, ReportSucceed, ReportAbort, ReportCanceled, CancelHandler, CancelLookup,
         CancelFlip, CancelNotify, cancelVars
    <3> QED
      BY <2>1, <2>2, <3>1, <3>2 DEF Sent
  <2> QED
    BY <1>3, <2>3, <2>4
<1> QED
  BY <1>1, <1>2, <1>3 DEF BridgedNext, ExecutorStep

LEMMA SentInductive == ASSUME GoalsAreOrders PROVE BridgedSpec => []Sent
BY BridgedIInv, SentInit, SentStep, PTL DEF BridgedSpec

\* A token that is set was read by a cancel handler which has flipped it.
FlippedByHandler ==
  \A g \in Goal : tokenSet[g] =>
    \E h \in Goal : cancelTok[h] = g /\ cancelPc[h] \in {"notify", "done"}

LEMMA FlippedInit == Init => FlippedByHandler
  BY DEF Init, FlippedByHandler

LEMMA FlippedStep == TypeOK /\ FlippedByHandler /\ [Next]_vars => FlippedByHandler'
<1> SUFFICES ASSUME TypeOK, FlippedByHandler, [Next]_vars PROVE FlippedByHandler'
  OBVIOUS
<1> USE DEF FlippedByHandler
<1>1. ASSUME UNCHANGED <<tokenSet, cancelTok, cancelPc>> PROVE FlippedByHandler'
  BY <1>1
<1>2. ASSUME NEW g \in Goal, Send(g) \/ Middleware(g) \/ Worker(g) PROVE FlippedByHandler'
  BY <1>1, <1>2 DEF Send, Middleware, GoalCallback, Execute, Worker, Begin, Build,
     PublishSpec, RunEnter, RunStep, RunCancel, RunEnd, CancelledSection, FinishSection,
     FinishRaises, FailSection, ReportSucceed, ReportAbort, ReportCanceled, cancelVars
\* Tokens are read, and requests come, before the handler flips.
<1>3. ASSUME NEW g \in Goal, RequestCancel(g) \/ CancelLookup(g) PROVE FlippedByHandler'
  <2>1. tokenSet' = tokenSet /\ cancelPc[g] \in {"none", "callback"}
    BY <1>3 DEF RequestCancel, CancelLookup
  <2>2. \A h \in Goal \ {g} : cancelTok'[h] = cancelTok[h] /\ cancelPc'[h] = cancelPc[h]
    BY <1>3 DEF RequestCancel, CancelLookup, TypeOK
  <2> QED
    BY <2>1, <2>2
<1>4. ASSUME NEW g \in Goal, CancelFlip(g) PROVE FlippedByHandler'
  <2>1. cancelTok' = cancelTok /\ cancelPc' = [cancelPc EXCEPT ![g] = "notify"]
    BY <1>4 DEF CancelFlip
  <2>2. \A h \in Goal : tokenSet'[h] => tokenSet[h] \/ h = cancelTok[g]
    BY <1>4, Zenon DEF CancelFlip
  <2> QED
    BY <2>1, <2>2 DEF TypeOK
<1>5. ASSUME NEW g \in Goal, CancelNotify(g) PROVE FlippedByHandler'
  BY <1>5 DEF CancelNotify, TypeOK
<1>6. CASE UNCHANGED vars
  BY <1>1, <1>6 DEF vars
<1> QED
  BY <1>2, <1>3, <1>4, <1>5, <1>6 DEF Next, Client, CancelHandler

LEMMA BridgedFlipped == BridgedSpec => []FlippedByHandler
<1>1. BridgedInit => FlippedByHandler
  BY FlippedInit DEF BridgedInit
<1>2. IInv /\ FlippedByHandler /\ [BridgedNext]_bridgedVars => FlippedByHandler'
  BY FlippedStep, BridgedNextIsNext DEF IInv
<1> QED
  BY <1>1, <1>2, BridgedIInv, PTL DEF BridgedSpec

\* Whatever RCS and whatever overlaps, a run is stopped only by a cancel that
\* was posted and passed on, of which each stops one run at most: from
\* POST /cancel (rcs_bridge_node.py:114-125) to the token of the run
\* (hfsm_executor_node.py:149-156).
THEOREM StopsArePosted ==
  ASSUME GoalsAreOrders
  PROVE  BridgedSpec => []StoppedByAnOrder
<1>1. FlippedByHandler /\ Sent => StoppedByAnOrder
  BY DEF FlippedByHandler, Sent, StoppedByAnOrder
<1> QED
  BY <1>1, BridgedFlipped, SentInductive, PTL

\* The id that is shown is that of the last goal to begin, and no goal comes
\* into its section otherwise.
LEMMA BeginShows ==
  ASSUME IInv, Next
  PROVE  \/ /\ shown'.subjob = shown.subjob
            /\ \A g \in Goal : pc'[g] \in Section => pc[g] \in Section
         \/ \E g \in Goal : Begin(g) /\ shown'.subjob = g
<1> USE DEF IInv, TypeOK, Snapshot, Section, Goto, execVars
<1>1. ASSUME NEW g \in Goal, Client(g) \/ Middleware(g) \/ CancelHandler(g)
      PROVE  /\ shown' = shown
             /\ \A h \in Goal : pc'[h] \in Section => pc[h] \in Section
  BY <1>1 DEF Client, Send, RequestCancel, Middleware, GoalCallback, Execute, CancelHandler,
     CancelLookup, CancelFlip, CancelNotify
<1>2. ASSUME NEW g \in Goal, Begin(g) PROVE shown'.subjob = g
  BY <1>2 DEF Begin
<1>3. ASSUME NEW g \in Goal, Worker(g), ~Begin(g)
      PROVE  /\ shown'.subjob = shown.subjob
             /\ \A h \in Goal : pc'[h] \in Section => pc[h] \in Section
  <2>1. shown'.subjob = shown.subjob
    BY <1>3 DEF Worker, Build, PublishSpec, RunEnter, RunStep, RunCancel, RunEnd,
       CancelledSection, FinishSection, FinishRaises, FailSection, ReportSucceed, ReportAbort,
       ReportCanceled
  <2>2. \A h \in Goal : pc'[h] \in Section => pc[h] \in Section
    BY <1>3 DEF Worker, Build, BuildSubjob, PublishSpec, RunEnter, RunStep, RunCancel, RunEnd,
       CancelledSection, FinishSection, FinishRaises, FailSection, ReportSucceed, ReportAbort,
       ReportCanceled
  <2> QED
    BY <2>1, <2>2
<1> QED
  BY <1>1, <1>2, <1>3 DEF Next

\* SubJobService is the same for the bridge, which is no serial client.
LEMMA SameService ==
  ASSUME GoalsAreOrders
  PROVE  /\ UNCHANGED Service!vars => UNCHANGED Bridge!Exec!vars
         /\ \A g \in Goal :
              /\ Service!Accept(g) => Bridge!Exec!Accept(g)
              /\ Service!Reject(g) => Bridge!Exec!Reject(g)
              /\ Service!Start(g) => Bridge!Exec!Start(g)
              /\ Service!Stop(g) => Bridge!Exec!Stop(g)
              /\ Service!Report(g) => Bridge!Exec!Report(g)
              /\ Service!Cancel(g) => Bridge!Exec!Cancel(g)
<1>1. Goal = Bridge!Goal
  BY DEF GoalsAreOrders, Bridge!Goal
<1>2. UNCHANGED Service!vars => UNCHANGED Bridge!Exec!vars
  BY DEF Service!vars, Bridge!Exec!vars
<1>3. ASSUME NEW g \in Goal
      PROVE  /\ Service!Accept(g) => Bridge!Exec!Accept(g)
             /\ Service!Stop(g) => Bridge!Exec!Stop(g)
             /\ Service!Cancel(g) => Bridge!Exec!Cancel(g)
  BY DEF Service!Accept, Service!Stop, Service!Cancel, Service!Move, Bridge!Exec!Accept,
     Bridge!Exec!Stop, Bridge!Exec!Cancel, Bridge!Exec!Move
<1>4. ASSUME NEW g \in Goal PROVE Service!Reject(g) => Bridge!Exec!Reject(g)
  BY <1>1 DEF Service!Reject, Service!Running, Service!Move, Bridge!Exec!Reject,
     Bridge!Exec!Running, Bridge!Exec!Move
<1>5. ASSUME NEW g \in Goal PROVE Service!Start(g) => Bridge!Exec!Start(g)
  BY DEF Service!Start, Service!Move, Bridge!Exec!Start, Bridge!Exec!Move
<1>6. ASSUME NEW g \in Goal PROVE Service!Report(g) => Bridge!Exec!Report(g)
  BY DEF Service!Report, Service!Result, Service!Move, Bridge!Exec!Report,
     Bridge!Exec!Result, Bridge!Exec!Move
<1> QED
  BY <1>2, <1>3, <1>4, <1>5, <1>6

\* A step of the server is one that RcsBridge lets the executor take.
LEMMA ExecutorRefines ==
  ASSUME GoalsAreOrders, IInv, IInv', Sent, Sent', ExecutorStep
  PROVE  [Bridge!Next]_(Bridge!vars)
<1> DEFINE phase == [g \in Goal |-> Phase(g)]
           wanted == {g \in Goal : cancelPc[g] # "none"}
<1>0. /\ Next /\ Goal = Bridge!Goal
      /\ UNCHANGED <<up, http, Bridge!nodeVars, Bridge!httpVars, Bridge!dispatchVars,
                     Bridge!lifeVars, sent, asked>>
      /\ TypeOK /\ TypeOK' /\ GoalLife /\ GoalLife'
  BY DEF ExecutorStep, Arrives, Next, Client, GoalsAreOrders, Bridge!Goal, bridgeVars,
     Bridge!nodeVars, Bridge!httpVars, Bridge!dispatchVars, Bridge!lifeVars, IInv
<1>1. [Service!Next]_Service!vars
  BY <1>0, RefineStep
<1>2. CASE UNCHANGED Service!vars /\ shown'.subjob = shown.subjob
  BY <1>0, <1>2 DEF Service!vars, Bridge!vars, Bridge!execVars
<1>3. ASSUME NEW g \in Goal, Begin(g), shown'.subjob = g
      PROVE  [Bridge!Next]_(Bridge!vars)
  <2>1. Phase(g) = "accepted" /\ Phase(g)' = "running"
    BY <1>0, <1>3 DEF Begin, Goto, Phase, GoalLife, TypeOK, Active, Terminal, Section, Reporting
  <2>2. phase[g] = "accepted" /\ phase'[g] = "running"
    BY <2>1
  <2>3. PICK h \in Goal : \/ Service!Accept(h) \/ Service!Reject(h) \/ Service!Start(h)
                          \/ Service!Stop(h) \/ Service!Report(h) \/ Service!Cancel(h)
    BY <1>1, <2>2 DEF Service!Next, Service!vars
  <2>4. Service!Start(g)
    <3>1. Service!Start(h) => h = g
      BY <2>2 DEF Service!Start, Service!Move
    <3>2. ~Service!Accept(h) /\ ~Service!Reject(h) /\ ~Service!Stop(h) /\ ~Service!Cancel(h)
      BY <2>2 DEF Service!Accept, Service!Reject, Service!Stop, Service!Cancel, Service!Move
    <3>3. ~Service!Report(h)
      BY <2>2 DEF Service!Report, Service!Result, Service!Move
    <3> QED
      BY <2>3, <3>1, <3>2, <3>3
  <2>5. Bridge!ExecStart(g)
    BY <1>0, <1>3, <2>4, SameService DEF Bridge!ExecStart
  <2> QED
    BY <1>0, <2>5 DEF Bridge!Next
<1>4. ASSUME Service!Next, shown'.subjob = shown.subjob,
             \A g \in Goal : pc'[g] \in Section => pc[g] \in Section
      PROVE  [Bridge!Next]_(Bridge!vars)
  <2>1. PICK g \in Goal : \/ Service!Accept(g) \/ Service!Reject(g) \/ Service!Start(g)
                          \/ Service!Stop(g) \/ Service!Report(g) \/ Service!Cancel(g)
    BY <1>4 DEF Service!Next
  <2>2. CASE Service!Accept(g) \/ Service!Reject(g)
    <3>1. Phase(g)' \in {"accepted", "rejected"}
      BY <2>2 DEF Service!Accept, Service!Reject, Service!Move
    <3>2. g <= sent
      BY <1>0, <3>1 DEF Phase, Active, Terminal, Sent
    <3>3. Bridge!ExecAnswer(g)
      BY <1>0, <1>4, <2>2, <3>2, SameService DEF Bridge!ExecAnswer
    <3> QED
      BY <1>0, <3>3 DEF Bridge!Next
  <2>3. CASE Service!Start(g)
    <3>1. Phase(g) = "accepted" /\ Phase(g)' = "running"
      BY <2>3 DEF Service!Start, Service!Move
    <3> QED
      BY <1>0, <1>4, <3>1 DEF Phase, TypeOK, Active, Terminal
  <2>4. CASE Service!Stop(g) \/ Service!Report(g)
    <3>1. Bridge!ExecEnd(g)
      BY <1>0, <1>4, <2>4, SameService DEF Bridge!ExecEnd
    <3> QED
      BY <1>0, <3>1 DEF Bridge!Next
  <2>5. CASE Service!Cancel(g)
    <3>1. cancelPc'[g] # "none"
      BY <2>5 DEF Service!Cancel
    <3>2. g \in asked
      BY <1>0, <3>1 DEF Sent
    <3>3. Bridge!ExecCancel(g)
      BY <1>0, <1>4, <2>5, <3>2, SameService DEF Bridge!ExecCancel
    <3> QED
      BY <1>0, <3>3 DEF Bridge!Next
  <2> QED
    BY <2>1, <2>2, <2>3, <2>4, <2>5
<1> QED
  BY <1>0, <1>1, <1>2, <1>3, <1>4, BeginShows

\* The server does above the bridge what RcsBridge allows the executor, so all
\* theorems about RcsBridge hold of the two nodes together.
THEOREM BridgeRefinement == ASSUME GoalsAreOrders PROVE BridgedSpec => ImplementsBridge
<1>1. BridgedInit => Bridge!Init
  BY DEF BridgedInit
<1>2. IInv /\ IInv' /\ Sent /\ Sent' /\ [BridgedNext]_bridgedVars => [Bridge!Next]_(Bridge!vars)
  <2> SUFFICES ASSUME IInv, IInv', Sent, Sent', [BridgedNext]_bridgedVars
               PROVE  [Bridge!Next]_(Bridge!vars)
    OBVIOUS
  <2>1. CASE BridgeStep
    BY <2>1 DEF BridgeStep, Bridge!Next, GoalsAreOrders, Bridge!Goal
  <2>2. CASE UNCHANGED bridgedVars
    BY <2>2 DEF bridgedVars, bridgeVars, vars, cancelVars, Phase, Bridge!vars, Bridge!execVars,
       Bridge!nodeVars, Bridge!httpVars, Bridge!dispatchVars, Bridge!lifeVars
  <2> QED
    BY <2>1, <2>2, ExecutorRefines DEF BridgedNext
<1> QED
  BY <1>1, <1>2, BridgedIInv, SentInductive, PTL DEF BridgedSpec, ImplementsBridge, Bridge!Spec
-----------------------------------------------------------------------------
(* What is proved of RcsBridge, of the bridge above the server.            *)

\* RcsBridge with its theorems, in the place of Bridge.
Proved == INSTANCE RcsBridgeProofs WITH
            Persistent <- {},
            phase <- [g \in Goal |-> Phase(g)],
            wanted <- {g \in Goal : cancelPc[g] # "none"},
            current <- shown.subjob

LEMMA SameBridge ==
  /\ Bridge!Init => Proved!Init
  /\ [Bridge!Next]_(Bridge!vars) => [Proved!Next]_(Proved!vars)
  /\ Proved!UncancelableExplained => Bridge!UncancelableExplained
  /\ Proved!SnapshotNotAhead => Bridge!SnapshotNotAhead
  /\ UNCHANGED Proved!vars => UNCHANGED Bridge!vars
BY DEF Bridge!Init, Bridge!Receive, Bridge!Refuse, Bridge!ParseOrder, Bridge!Unavailable,
   Bridge!OrderId, Bridge!Dispatch, Bridge!Record, Bridge!LookUp, Bridge!CancelRefused,
   Bridge!CancelSent, Bridge!OnStatus, Bridge!AnswerArrives, Bridge!Restart,
   Bridge!Discover, Bridge!ExecAnswer, Bridge!ExecStart, Bridge!ExecEnd,
   Bridge!ExecCancel, Bridge!Serve, Bridge!Next, Bridge!vars, Bridge!execVars,
   Bridge!nodeVars, Bridge!httpVars, Bridge!dispatchVars, Bridge!lifeVars, Bridge!Goal,
   Bridge!Id, Bridge!Request, Bridge!Idle, Bridge!Serving, Bridge!Snapshot,
   Bridge!Superseded, Bridge!UncancelableExplained, Bridge!SnapshotNotAhead,
   Bridge!Cancelable, Bridge!Exec!Init, Bridge!Exec!Accept, Bridge!Exec!Reject,
   Bridge!Exec!Start, Bridge!Exec!Stop, Bridge!Exec!Report, Bridge!Exec!Cancel,
   Bridge!Exec!Move, Bridge!Exec!Running, Bridge!Exec!Result, Proved!Init,
   Proved!Receive, Proved!Refuse, Proved!ParseOrder, Proved!Unavailable, Proved!OrderId,
   Proved!Dispatch, Proved!Record, Proved!LookUp, Proved!CancelRefused,
   Proved!CancelSent, Proved!OnStatus, Proved!AnswerArrives, Proved!Restart,
   Proved!Discover, Proved!ExecAnswer, Proved!ExecStart, Proved!ExecEnd,
   Proved!ExecCancel, Proved!Serve, Proved!Next, Proved!vars, Proved!execVars,
   Proved!nodeVars, Proved!httpVars, Proved!dispatchVars, Proved!lifeVars, Proved!Goal,
   Proved!Id, Proved!Request, Proved!Idle, Proved!Serving, Proved!Snapshot,
   Proved!Superseded, Proved!UncancelableExplained, Proved!SnapshotNotAhead,
   Proved!Cancelable, Proved!Exec!Init, Proved!Exec!Accept, Proved!Exec!Reject,
   Proved!Exec!Start, Proved!Exec!Stop, Proved!Exec!Report, Proved!Exec!Cancel,
   Proved!Exec!Move, Proved!Exec!Running, Proved!Exec!Result

\* An order above the real server can be cancelled by its id but for the reasons
\* that are named, a cancel is passed on for the goal of that id only, and a
\* snapshot is never ahead of the order it names (rcs_bridge_node.py).
THEOREM OrdersAboveServer ==
  ASSUME GoalsAreOrders
  PROVE  BridgedSpec => /\ [](Bridge!UncancelableExplained /\ Bridge!SnapshotNotAhead)
                        /\ Bridge!CancelHitsNamed
<1>1. BridgedSpec => Proved!Spec
  BY BridgeRefinement, SameBridge, PTL DEF ImplementsBridge, Bridge!Spec, Proved!Spec
<1>2. Proved!Spec => [](Bridge!UncancelableExplained /\ Bridge!SnapshotNotAhead)
  <2>1. Proved!Spec => []Proved!UncancelableExplained
    BY Proved!CancelableUnlessExplained DEF GoalsAreOrders
  <2>2. Proved!Spec => []Proved!SnapshotNotAhead
    BY Proved!SnapshotsLag DEF GoalsAreOrders
  <2> QED
    BY <2>1, <2>2, SameBridge, PTL
<1>3. Proved!Spec => Bridge!CancelHitsNamed
  <2> DEFINE Hits == \A g \in asked' \ asked : order[g] = http.id /\ ~Proved!Superseded(g)
             Named == \A g \in asked' \ asked : order[g] = http.id /\ ~Bridge!Superseded(g)
  <2>1. Proved!Spec => [][Hits]_(Proved!vars)
    BY Proved!CancelHitsNamedOnly DEF GoalsAreOrders, Proved!CancelHitsNamed
  <2>2. [Hits]_(Proved!vars) => [Named]_(Bridge!vars)
    BY SameBridge DEF Proved!Superseded, Bridge!Superseded
  <2> QED
    BY <2>1, <2>2, PTL DEF Bridge!CancelHitsNamed
<1> QED
  BY <1>1, <1>2, <1>3, PTL

-----------------------------------------------------------------------------
(* The interpreter inside the server.                                      *)

\* A step of execute() neither starts nor ends the run, and raises
\* CancelledError on a token that is set.
LEMMA InterpreterMoves ==
  ASSUME Interprets
  PROVE  /\ mode \notin {"idle", "ended"} /\ mode' \notin {"idle", "ended"}
         /\ mode' = "raise" /\ value' = "Cancelled"
              => tokenSet[Traced] \/ (mode = "raise" /\ value = "Cancelled")
<1> USE DEF Engine!Return, Engine!Raise
<1>1. CASE Engine!Visit
  BY <1>1, Zenon DEF Engine!Visit
<1>2. CASE Engine!Enter \/ Engine!Attempt \/ Engine!Unwind
  <2>1. CASE Engine!Enter BY <2>1 DEF Engine!Enter
  <2>2. CASE Engine!Attempt BY <2>2 DEF Engine!Attempt
  <2>3. CASE Engine!Unwind BY <2>3 DEF Engine!Unwind
  <2> QED BY <1>2, <2>1, <2>2, <2>3
<1>3. CASE Engine!LeafEnd \/ Engine!LeafCancel
  BY <1>3 DEF Engine!LeafEnd, Engine!LeafCancel
<1>4. CASE Engine!Follow
  BY <1>4 DEF Engine!Follow
<1>5. CASE Engine!Again
  BY <1>5 DEF Engine!Again
<1> QED
  BY <1>1, <1>2, <1>3, <1>4, <1>5 DEF Interprets

\* The other threads neither start nor end this run, and reset no token.
LEMMA BesideMoves ==
  ASSUME TypeOK, Traced \in Goal, NEW g \in Goal,
         Client(g) \/ Middleware(g) \/ OtherWorker(g) \/ CancelHandler(g)
  PROVE  /\ pc'[Traced] \in Early => pc[Traced] \in Early
         /\ pc'[Traced] = "running" <=> pc[Traced] = "running"
         /\ tokenSet[Traced] => tokenSet'[Traced]
<1> USE DEF TypeOK, Early, Goto, execVars, cancelVars
<1>1. CASE Client(g)
  BY <1>1 DEF Client, Send, RequestCancel
<1>2. CASE Middleware(g)
  BY <1>2 DEF Middleware, GoalCallback, Execute
<1>3. CASE CancelHandler(g)
  BY <1>3 DEF CancelHandler, CancelLookup, CancelFlip, CancelNotify
<1>4. CASE OtherWorker(g)
  <2> USE <1>4 DEF OtherWorker
  <2>1. CASE Begin(g) \/ Build(g) \/ PublishSpec(g)
    BY <2>1 DEF Begin, Build, BuildSubjob, PublishSpec
  <2>2. CASE RunEnter(g) \/ RunStep(g)
    BY <2>2 DEF RunEnter, RunStep
  <2>3. CASE RunCancel(g) \/ RunEnd(g)
    BY <2>3 DEF RunCancel, RunEnd
  <2>4. CASE CancelledSection(g) \/ FinishSection(g)
    BY <2>4 DEF CancelledSection, FinishSection
  <2>5. CASE FinishRaises(g) \/ FailSection(g)
    BY <2>5 DEF FinishRaises, FailSection
  <2>6. CASE ReportSucceed(g) \/ ReportAbort(g) \/ ReportCanceled(g)
    BY <2>6 DEF ReportSucceed, ReportAbort, ReportCanceled
  <2> QED
    BY <2>1, <2>2, <2>3, <2>4, <2>5, <2>6 DEF Worker
<1> QED
  BY <1>1, <1>2, <1>3, <1>4

\* Each step is one the server takes in HfsmExecutor, and one of the interpreter
\* or of the thread that sets its token.
LEMMA TracedStep ==
  ASSUME TracedIsBuilt, TypeOK, InStep, [TracedNext]_tracedVars
  PROVE  /\ [Next]_vars
         /\ [Engine!Next]_(Engine!vars)
         /\ InStep'
<1>0. /\ Traced \in Goal /\ tokenSet \in [Goal -> BOOLEAN]
      /\ pc \in [Goal -> {"idle", "accepted", "begin", "done"} \cup Section \cup Reporting]
  BY DEF TracedIsBuilt, TypeOK
<1>1. CASE UNCHANGED tracedVars
  BY <1>1 DEF tracedVars, vars, engineVars, Engine!vars, InStep
<1>2. CASE Enters
  <2>1. /\ pc[Traced] = "enter" /\ mode = "idle" /\ mode' \in {"ended", "exec"}
        /\ pc' = [pc EXCEPT ![Traced] = IF mode' = "ended" THEN "fail" ELSE "running"]
    BY <1>2 DEF Enters, Engine!Run, Goto
  <2>2. RunEnter(Traced)
    BY <1>2, <2>1 DEF Enters, RunEnter, Goto
  <2>3. InStep'
    BY <1>0, <2>1 DEF InStep, Early
  <2>4. Engine!Next
    BY <1>2 DEF Enters, Engine!Next, Engine!Step
  <2> QED
    BY <1>0, <2>2, <2>3, <2>4 DEF Next, Worker
<1>3. CASE Interprets
  <2>1. /\ mode \notin {"idle", "ended"} /\ mode' \notin {"idle", "ended"}
        /\ UNCHANGED <<pc, tokenSet>> /\ pc[Traced] = "running"
    BY <1>3, InterpreterMoves DEF InStep, Interprets
  <2>2. RunStep(Traced) \/ UNCHANGED vars
    BY <1>3, <2>1 DEF Interprets, RunStep, vars, execVars, cancelVars
  <2>3. InStep'
    BY <1>3, <2>1, InterpreterMoves DEF InStep, Early
  <2>4. Engine!Next
    BY <1>3 DEF Interprets, Engine!Next, Engine!Step
  <2> QED
    BY <1>0, <2>2, <2>3, <2>4 DEF Next, Worker
<1>4. CASE Ends
  <2>1. /\ pc[Traced] = "running" /\ mode \in {"return", "raise"} /\ mode' = "ended"
        /\ pc' = [pc EXCEPT ![Traced] = After]
        /\ After = "cancelled" => tokenSet[Traced]
        /\ After \in {"cancelled", "fail", "succeeded", "unsuccessful"}
    BY <1>4 DEF Ends, Engine!Finish, Goto, After, InStep
  <2>2. RunCancel(Traced) \/ RunEnd(Traced)
    BY <1>4, <2>1 DEF Ends, RunCancel, RunEnd, Goto
  <2>3. InStep'
    BY <1>0, <2>1 DEF InStep, Early
  <2>4. Engine!Next
    BY <1>4 DEF Ends, Engine!Next, Engine!Step
  <2> QED
    BY <1>0, <2>2, <2>3, <2>4 DEF Next, Worker
<1>5. CASE Beside
  <2> PICK g \in Goal : /\ Client(g) \/ Middleware(g) \/ OtherWorker(g) \/ CancelHandler(g)
                        /\ UNCHANGED engineVars
    BY <1>5 DEF Beside
  <2>0. UNCHANGED <<mode, value, stack, path>>
    BY DEF engineVars
  <2>1. Next
    BY DEF Next, OtherWorker
  <2>2. /\ pc'[Traced] \in Early => pc[Traced] \in Early
        /\ pc'[Traced] = "running" <=> pc[Traced] = "running"
        /\ tokenSet[Traced] => tokenSet'[Traced]
    BY <1>0, BesideMoves
  <2>3. InStep'
    BY <2>0, <2>2 DEF InStep
  <2>4. Engine!RequestCancel \/ UNCHANGED Engine!vars
    <3>1. tokenSet'[Traced] \in BOOLEAN
      BY <1>0, TypeStep, <2>1 DEF TypeOK
    <3> QED
      BY <1>0, <2>0, <2>2, <3>1 DEF Engine!RequestCancel, Engine!vars
  <2> QED
    BY <2>1, <2>3, <2>4 DEF Engine!Next
<1> QED
  BY <1>1, <1>2, <1>3, <1>4, <1>5 DEF TracedNext

LEMMA TracedStart == ASSUME TracedIsBuilt, TracedInit PROVE TypeOK /\ InStep
<1>1. Init /\ mode = "idle" /\ pc[Traced] = "idle"
  BY DEF TracedIsBuilt, TracedInit, Engine!Init, Init
<1>2. TypeOK
  BY <1>1, TypeInit
<1>3. InStep
  BY <1>1 DEF InStep
<1> QED
  BY <1>2, <1>3

LEMMA TracedInvariant == ASSUME TracedIsBuilt PROVE TracedSpec => [](TypeOK /\ InStep)
<1>1. TypeOK /\ InStep /\ [TracedNext]_tracedVars => (TypeOK /\ InStep)'
  BY TracedStep, TypeStep
<1> QED
  BY <1>1, TracedStart, PTL DEF TracedSpec

\* The server with the interpreter of HfsmEngine on the thread of any goal
\* keeps to HfsmExecutor, so every theorem about that holds with real SubJobs
\* in it (sm.run() in _execute_goal).
THEOREM TracedRefinesExecutor ==
  ASSUME TracedIsBuilt PROVE TracedSpec => ImplementsExecutor
<1>1. TypeOK /\ InStep /\ [TracedNext]_tracedVars => [Next]_vars
  BY TracedStep
<1>2. TracedInit => Init
  BY DEF TracedInit
<1> QED
  BY <1>1, <1>2, TracedInvariant, PTL DEF TracedSpec, ImplementsExecutor, Spec

\* And the interpreter meets there what HfsmEngine assumes of its surroundings:
\* its token is set from outside once, and nothing else of it is touched.
THEOREM TracedRefinesEngine ==
  ASSUME TracedIsBuilt PROVE TracedSpec => ImplementsEngine
<1>1. TypeOK /\ InStep /\ [TracedNext]_tracedVars => [Engine!Next]_(Engine!vars)
  BY TracedStep
<1>2. TracedInit => Engine!Init
  BY DEF TracedInit
<1> QED
  BY <1>1, <1>2, TracedInvariant, PTL DEF TracedSpec, ImplementsEngine, Engine!Spec

\* HfsmEngine with its theorems, in the place of Engine.
Interp == INSTANCE HfsmEngineProofs WITH token <- tokenSet[Traced], globalPath <- path

LEMMA SameEngine ==
  /\ Engine!Init => Interp!Init
  /\ [Engine!Next]_(Engine!vars) => [Interp!Next]_(Interp!vars)
  /\ Engine!WellBuilt => Interp!WellBuilt
  /\ Interp!PathIsStack => Engine!PathIsStack
  /\ UNCHANGED Engine!vars <=> UNCHANGED Interp!vars
<1> USE DEF Engine!vars, Interp!vars, Engine!Top, Interp!Top, Engine!Below, Interp!Below,
        Engine!InTop, Interp!InTop, Engine!SetPath, Interp!SetPath, Engine!Push, Interp!Push,
        Engine!Frame, Interp!Frame, Engine!Return, Interp!Return, Engine!Raise, Interp!Raise
<1>1. Engine!Init => Interp!Init
  BY DEF Engine!Init, Interp!Init
<1>2. Engine!WellBuilt => Interp!WellBuilt
  BY DEF Engine!WellBuilt, Interp!WellBuilt, Engine!Exception, Interp!Exception
<1>3. Engine!RequestCancel \/ Engine!Run \/ Engine!Finish
        => Interp!RequestCancel \/ Interp!Run \/ Interp!Finish
  BY DEF Engine!RequestCancel, Engine!Run, Engine!Finish,
         Interp!RequestCancel, Interp!Run, Interp!Finish
<1>4. Engine!Visit \/ Engine!Enter => Interp!Visit \/ Interp!Enter
  BY DEF Engine!Visit, Engine!Enter, Interp!Visit, Interp!Enter
<1>5. Engine!Attempt \/ Engine!Again => Interp!Attempt \/ Interp!Again
  BY DEF Engine!Attempt, Engine!Again, Interp!Attempt, Interp!Again
<1>6. Engine!LeafEnd \/ Engine!LeafCancel => Interp!LeafEnd \/ Interp!LeafCancel
  BY DEF Engine!LeafEnd, Engine!LeafCancel, Interp!LeafEnd, Interp!LeafCancel,
         Engine!Undeclared, Interp!Undeclared
<1>7. Engine!Follow => Interp!Follow
  BY DEF Engine!Follow, Interp!Follow, Engine!Targets, Interp!Targets,
         Engine!Children, Interp!Children
<1>8. Engine!Unwind => Interp!Unwind
  BY DEF Engine!Unwind, Interp!Unwind
<1>9. Interp!PathIsStack => Engine!PathIsStack
  <2>1. \A s, i : Engine!Named(s, i) = Interp!Named(s, i)
    BY DEF Engine!Named, Interp!Named
  <2>2. \A s, i : Engine!Rank(s, i) = Interp!Rank(s, i)
    BY <2>1, Zenon DEF Engine!Rank, Interp!Rank, Engine!Cardinality, Interp!Cardinality
  <2>3. Engine!Leaving = Interp!Leaving
    BY DEF Engine!Leaving, Interp!Leaving
  <2> QED
    BY <2>1, <2>2, <2>3 DEF Engine!PathIsStack, Interp!PathIsStack
<1>10. UNCHANGED Engine!vars <=> UNCHANGED Interp!vars
  OBVIOUS
<1> HIDE DEF Engine!vars, Interp!vars
<1> QED
  BY <1>1, <1>2, <1>3, <1>4, <1>5, <1>6, <1>7, <1>8, <1>9, <1>10
     DEF Engine!Next, Interp!Next, Engine!Step, Interp!Step

\* The hypothesis under which HfsmEngineProofs shows its theorems.
LEMMA TracedTree == ASSUME TracedIsBuilt PROVE Interp!WellBuilt
BY SameEngine DEF TracedIsBuilt

LEMMA TracedInterp ==
  ASSUME TracedIsBuilt
  PROVE  TracedSpec => /\ Interp!Spec
                       /\ []Interp!IInv
<1>1. TracedSpec => Interp!Spec
  BY TracedRefinesEngine, SameEngine, PTL DEF ImplementsEngine, Engine!Spec, Interp!Spec
<1>2. Interp!Spec => []Interp!IInv
  BY TracedTree, Interp!Inductive
<1> QED
  BY <1>1, <1>2, PTL

LEMMA SlotStep == IInv /\ SlotNamesRun /\ [Next]_vars => SlotNamesRun'
<1> SUFFICES ASSUME IInv, SlotNamesRun, [Next]_vars PROVE SlotNamesRun'
  OBVIOUS
<1>0. TypeOK /\ GoalAssumption
  BY GoalAssumption DEF IInv
<1>1. \A g, h \in Goal : SerialClient /\ pc[g] = "running" /\ pc[h] \in Section => g = h
  <2> SUFFICES ASSUME NEW g \in Goal, NEW h \in Goal, SerialClient,
                      pc[g] = "running", pc[h] \in Section
               PROVE  g = h
    OBVIOUS
  <2>1. Outstanding(g) /\ Outstanding(h)
    BY InService DEF Section
  <2> QED
    BY <2>1 DEF IInv, SerialLife
<1> USE <1>0 DEF SlotNamesRun, TypeOK, Goto, execVars, cancelVars
<1>2. CASE UNCHANGED vars
  BY <1>2 DEF vars
<1>3. ASSUME NEW g \in Goal, Client(g) \/ CancelHandler(g) PROVE SlotNamesRun'
  BY <1>3 DEF Client, Send, RequestCancel, CancelHandler, CancelLookup, CancelFlip, CancelNotify
<1>4. ASSUME NEW g \in Goal, Middleware(g) PROVE SlotNamesRun'
  BY <1>4 DEF Middleware, GoalCallback, Execute
<1>5. ASSUME NEW g \in Goal, Worker(g) PROVE SlotNamesRun'
  <2>1. CASE Begin(g) \/ Build(g) \/ PublishSpec(g)
    BY <2>1 DEF Begin, Build, BuildSubjob, PublishSpec
  <2>2. CASE RunEnter(g)
    BY <1>1, <2>2, GoalAssumption DEF RunEnter, Section
  <2>3. CASE RunStep(g)
    BY <1>1, <2>3 DEF RunStep, Section
  <2>4. CASE RunCancel(g) \/ RunEnd(g)
    BY <1>1, <2>4, GoalAssumption DEF RunCancel, RunEnd, Section
  <2>5. CASE CancelledSection(g) \/ FinishSection(g)
    BY <2>5 DEF CancelledSection, FinishSection
  <2>6. CASE FinishRaises(g) \/ FailSection(g)
    BY <2>6 DEF FinishRaises, FailSection
  <2>7. CASE ReportSucceed(g) \/ ReportAbort(g) \/ ReportCanceled(g)
    BY <2>7 DEF ReportSucceed, ReportAbort, ReportCanceled
  <2> QED
    BY <1>5, <2>1, <2>2, <2>3, <2>4, <2>5, <2>6, <2>7 DEF Worker
<1> QED
  BY <1>2, <1>3, <1>4, <1>5 DEF Next

\* Whatever overlaps, _GLOBAL_PATH never names a SubJob that is not running;
\* and "a single slot is sufficient" (observer.py:36) for clients that await
\* their results. SubJobs without a Parallel, that is: see HfsmStatus.
THEOREM SlotCorrect == Spec => []SlotNamesRun
<1>1. Init => SlotNamesRun
  BY GoalAssumption DEF Init, SlotNamesRun
<1> QED
  BY <1>1, SlotStep, Inductive, PTL DEF Spec

\* In the server as alone: what the status timer reads is the stack of calls
\* of the run that is under way (observer.py:49-56), and a token that is set
\* stops machines from entering children (state_machine.py:125-128), whoever
\* set it, and whatever other goals do.
THEOREM EngineInServer ==
  ASSUME TracedIsBuilt
  PROVE  TracedSpec => []ShownIsStack /\ TokenStopsEntering
<1> DEFINE Stops == tokenSet[Traced] /\ mode \notin {"idle", "enter"}
                      => mode' # "enter" /\ Len(path') <= Len(path)
<1>1. TracedSpec => []SlotNamesRun
  BY TracedRefinesExecutor, SlotCorrect, PTL DEF ImplementsExecutor
<1>2. Interp!Spec => []Interp!PathIsStack
  BY TracedTree, Interp!PathCorrect
<1>3. SlotNamesRun /\ InStep /\ Interp!IInv /\ Interp!PathIsStack => ShownIsStack
  <2> SUFFICES ASSUME SlotNamesRun, InStep, Interp!IInv, Interp!PathIsStack,
                      globalPath = Traced
               PROVE  mode \notin {"idle", "ended"} /\ path # <<>> /\ Engine!PathIsStack
    BY DEF ShownIsStack
  <2>1. pc[Traced] = "running"
    BY DEF SlotNamesRun, TracedIsBuilt
  <2>2. mode \in {"exec", "enter", "return", "raise"}
    BY <2>1 DEF InStep, Interp!IInv, Interp!ValueOK
  <2>3. path # <<>>
    BY <2>2, TracedTree, Interp!PathShown
  <2> QED
    BY <2>2, <2>3, SameEngine
<1>4. TracedSpec => []ShownIsStack
  BY <1>1, <1>2, <1>3, TracedInvariant, TracedInterp, PTL
<1>5. Interp!Spec => [][Stops]_(Interp!vars)
  BY TracedTree, Interp!CancelHolds DEF Interp!CancelStopsEntering
<1>6. Interp!IInv /\ [Stops]_(Interp!vars) => [Stops]_tracedVars
  <2> SUFFICES ASSUME Interp!IInv, UNCHANGED Interp!vars PROVE Stops
    OBVIOUS
  <2>1. UNCHANGED <<mode, path>> /\ Len(path) \in Nat
    BY TracedTree, Interp!PathTyped DEF Interp!vars
  <2> QED
    BY <2>1
<1>7. TracedSpec => TokenStopsEntering
  BY <1>5, <1>6, TracedInterp, PTL DEF TokenStopsEntering
<1> QED
  BY <1>4, <1>7

\* With a client that awaits its results and the answers to its cancel requests,
\* CancelledError is raised in a SubJob only for a request that names its own
\* goal: from the cancel callback over the token to the poll (hfsm_executor_node.py:144-152, cancel.py).
THEOREM CancelledOnlyByRequest ==
  ASSUME TracedIsBuilt PROVE TracedSpec => []CancelledByRequest
<1>1. IInv /\ InStep => CancelledByRequest
  BY DEF IInv, SerialLife, TokenIsolation, InStep, CancelledByRequest, TracedIsBuilt, Section
<1>2. TracedSpec => []IInv
  BY TracedRefinesExecutor, Inductive, PTL DEF ImplementsExecutor
<1> QED
  BY <1>1, <1>2, TracedInvariant, PTL

-----------------------------------------------------------------------------
(* What a client is told.                                                  *)

\* The last step of the interpreter decides which section follows, and the
\* section which report; nothing touches value in between.
Told ==
  /\ pc[Traced] \in {"succeeded", "reportSucceed"} \/ goalState[Traced] = "succeeded"
       => mode = "ended" /\ value \in Outcomes[Root] \cap Success
  /\ pc[Traced] \in {"cancelled", "reportCanceled"} \/ goalState[Traced] = "canceled"
       => mode = "ended" /\ value = "Cancelled" /\ tokenSet[Traced]

\* The other threads lead nobody to a report but through the sections.
LEMMA BesideTold ==
  ASSUME TypeOK, Traced \in Goal, NEW g \in Goal,
         Client(g) \/ Middleware(g) \/ OtherWorker(g) \/ CancelHandler(g)
  PROVE  /\ pc'[Traced] \in {"succeeded", "reportSucceed"} \/ goalState'[Traced] = "succeeded"
              => pc[Traced] \in {"succeeded", "reportSucceed"} \/ goalState[Traced] = "succeeded"
         /\ pc'[Traced] \in {"cancelled", "reportCanceled"} \/ goalState'[Traced] = "canceled"
              => pc[Traced] \in {"cancelled", "reportCanceled"} \/ goalState[Traced] = "canceled"
<1> USE DEF TypeOK, Goto, execVars, cancelVars
<1>1. CASE Client(g)
  BY <1>1 DEF Client, Send, RequestCancel
<1>2. CASE Middleware(g)
  BY <1>2 DEF Middleware, GoalCallback, Execute
<1>3. CASE CancelHandler(g)
  BY <1>3 DEF CancelHandler, CancelLookup, CancelFlip, CancelNotify
<1>4. CASE OtherWorker(g)
  <2> USE <1>4 DEF OtherWorker
  <2>1. CASE Begin(g) \/ Build(g) \/ PublishSpec(g)
    BY <2>1 DEF Begin, Build, BuildSubjob, PublishSpec
  <2>2. CASE RunEnter(g) \/ RunStep(g)
    BY <2>2 DEF RunEnter, RunStep
  <2>3. CASE RunCancel(g) \/ RunEnd(g)
    BY <2>3 DEF RunCancel, RunEnd
  <2>4. CASE CancelledSection(g) \/ FinishSection(g)
    BY <2>4 DEF CancelledSection, FinishSection
  <2>5. CASE FinishRaises(g) \/ FailSection(g)
    BY <2>5 DEF FinishRaises, FailSection
  <2>6. CASE ReportSucceed(g) \/ ReportAbort(g)
    BY <2>6 DEF ReportSucceed, ReportAbort
  <2>7. CASE ReportCanceled(g)
    BY <2>7 DEF ReportCanceled
  <2> QED
    BY <2>1, <2>2, <2>3, <2>4, <2>5, <2>6, <2>7 DEF Worker
<1> QED
  BY <1>1, <1>2, <1>3, <1>4

LEMMA ToldStep ==
  ASSUME TracedIsBuilt, IInv, InStep, Interp!IInv, Told, [TracedNext]_tracedVars
  PROVE  Told'
<1>0. TypeOK /\ Traced \in Goal
  BY DEF IInv, TracedIsBuilt
<1>1. CASE UNCHANGED tracedVars
  BY <1>1 DEF tracedVars, vars, engineVars, Told
<1>2. CASE Enters
  <2>1. /\ pc[Traced] = "enter" /\ UNCHANGED goalState
        /\ pc'[Traced] \in {"fail", "running"}
    BY <1>0, <1>2 DEF Enters, Goto, TypeOK
  <2>2. goalState[Traced] \notin {"succeeded", "canceled"}
    BY <1>0, <2>1 DEF IInv, GoalLife, Terminal
  <2> QED
    BY <2>1, <2>2 DEF Told
<1>3. CASE Interprets
  <2>1. pc[Traced] = "running" /\ UNCHANGED <<pc, goalState>>
    BY <1>3, InterpreterMoves DEF InStep, Interprets
  <2>2. goalState[Traced] \notin {"succeeded", "canceled"}
    BY <1>0, <2>1 DEF IInv, GoalLife, Terminal
  <2> QED
    BY <2>1, <2>2 DEF Told
<1>4. CASE Ends
  <2>1. /\ pc[Traced] = "running" /\ UNCHANGED <<goalState, tokenSet, value>>
        /\ pc'[Traced] = After /\ mode' = "ended"
        /\ mode \in {"return", "raise"} /\ stack = <<>>
    BY <1>0, <1>4 DEF Ends, Engine!Finish, Goto, TypeOK
  <2>2. goalState[Traced] \notin {"succeeded", "canceled"}
    BY <1>0, <2>1 DEF IInv, GoalLife, Terminal
  <2>3. After = "succeeded" => value \in Outcomes[Root] \cap Success
    BY <2>1 DEF After, Interp!IInv, Interp!ValueOK
  <2>4. After = "cancelled" => value = "Cancelled" /\ tokenSet[Traced]
    BY <2>1 DEF After, InStep
  <2>5. After \notin {"reportSucceed", "reportCanceled"}
    BY DEF After
  <2> QED
    BY <2>1, <2>2, <2>3, <2>4, <2>5 DEF Told
<1>5. CASE Beside
  <2>1. PICK g \in Goal : /\ Client(g) \/ Middleware(g) \/ OtherWorker(g) \/ CancelHandler(g)
                          /\ UNCHANGED engineVars
    BY <1>5 DEF Beside
  <2>2. UNCHANGED <<mode, value>> /\ (tokenSet[Traced] => tokenSet'[Traced])
    BY <1>0, <2>1, BesideMoves DEF engineVars
  <2> QED
    BY <1>0, <2>1, <2>2, BesideTold DEF Told
<1> QED
  BY <1>1, <1>2, <1>3, <1>4, <1>5 DEF TracedNext

\* A goal is reported as succeeded only if its SubJob returned a declared
\* outcome that counts as a success, and as canceled only if CancelledError
\* left its run with its own token set, whatever overlaps and interleaves
\* (hfsm_executor_node.py:202-261).
THEOREM ResultCorrect ==
  ASSUME TracedIsBuilt PROVE TracedSpec => []ResultFromRun
<1>1. TracedInit => Told
  <2> SUFFICES ASSUME TracedInit PROVE Told
    OBVIOUS
  <2>1. pc[Traced] = "idle" /\ goalState[Traced] = "none"
    BY DEF TracedIsBuilt, TracedInit, Init
  <2> QED
    BY <2>1 DEF Told
<1>2. TracedSpec => []IInv
  BY TracedRefinesExecutor, Inductive, PTL DEF ImplementsExecutor
<1>3. Told => ResultFromRun
  BY DEF Told, ResultFromRun
<1>4. IInv /\ InStep /\ Interp!IInv /\ Told /\ [TracedNext]_tracedVars => Told'
  BY ToldStep
<1> QED
  BY <1>1, <1>2, <1>3, <1>4, TracedInvariant, TracedInterp, PTL DEF TracedSpec

=============================================================================
