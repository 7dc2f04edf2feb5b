-------------------------- MODULE MoveMotorProofs --------------------------
(***************************************************************************)
(* Theorems about MoveMotor, for any goals, any range of the motor and any *)
(* number of faults, resets and deaths: types, and that a goal which has   *)
(* the motor to itself watches it move to its own target.                  *)
(***************************************************************************)
EXTENDS MoveMotor, SequenceTheorems, TLAPS

\* The queue of requests, as served, sent and cut by a death.
LEMMA QueueSteps ==
  ASSUME NEW q \in Seq(Goal)
  PROVE  /\ Len(q) \in Nat /\ \A i \in 1..Len(q) : q[i] \in Goal
         /\ \A g \in Goal : /\ Append(q, g) \in Seq(Goal)
                            /\ Len(Append(q, g)) = Len(q) + 1
                            /\ Append(q, g)[Len(q) + 1] = g
                            /\ \A i \in 1..Len(q) : Append(q, g)[i] = q[i]
         /\ q # << >> => /\ Len(q) > 0 /\ Head(q) = q[1] /\ Head(q) \in Goal
                         /\ Tail(q) \in Seq(Goal) /\ Len(Tail(q)) = Len(q) - 1
                         /\ \A i \in 1..Len(Tail(q)) : Tail(q)[i] = q[i + 1]
         /\ \A n \in 0..Len(q) : /\ SubSeq(q, 1, n) \in Seq(Goal)
                                 /\ Len(SubSeq(q, 1, n)) = n
                                 /\ \A i \in 1..n : SubSeq(q, 1, n)[i] = q[i]
<1>1. Len(q) \in Nat /\ \A i \in 1..Len(q) : q[i] \in Goal
  BY LenProperties, ElementOfSeq
<1>2. ASSUME NEW g \in Goal
      PROVE  /\ Append(q, g) \in Seq(Goal)
             /\ Len(Append(q, g)) = Len(q) + 1
             /\ Append(q, g)[Len(q) + 1] = g
             /\ \A i \in 1..Len(q) : Append(q, g)[i] = q[i]
  BY AppendProperties
<1>3. ASSUME q # << >>
      PROVE  /\ Len(q) > 0 /\ Head(q) = q[1] /\ Head(q) \in Goal
             /\ Tail(q) \in Seq(Goal) /\ Len(Tail(q)) = Len(q) - 1
             /\ \A i \in 1..Len(Tail(q)) : Tail(q)[i] = q[i + 1]
  BY <1>1, <1>3, EmptySeq, HeadTailProperties
<1>4. ASSUME NEW n \in 0..Len(q)
      PROVE  /\ SubSeq(q, 1, n) \in Seq(Goal)
             /\ Len(SubSeq(q, 1, n)) = n
             /\ \A i \in 1..n : SubSeq(q, 1, n)[i] = q[i]
  BY <1>1, SubSeqProperties
<1> QED
  BY <1>1, <1>2, <1>3, <1>4

-----------------------------------------------------------------------------
\* A goal that was not sent, or whose client has not asked, is in no queue.
Unsent ==
  \A g \in Goal : goalState[g] = "none" \/ pc[g] = "discover" =>
    \A i \in 1..Len(requests) : requests[i] # g

\* The sole goal is the only one alive, and the last in the queue.
Alone == sole # NoGoal => \A h \in Goal : pc[h] # "idle" => h = sole
SoleIsLast ==
  sole # NoGoal => \A i \in 1..Len(requests) : requests[i] = sole => i = Len(requests)

\* What it commits, nothing in the queue can undo.
Committed(g) == pc[g] \in Looping \/ goalState[g] = "succeeded" \/ answer[g] = "accepted"
Settled ==
  sole # NoGoal /\ Committed(sole) => requests = << >> /\ motor.target = Target[sole]

IInv == TypeOK /\ Unsent /\ Alone /\ SoleIsLast /\ Settled

LEMMA InitIInv == Init => IInv
<1> SUFFICES ASSUME Init PROVE IInv
  OBVIOUS
<1> USE MotorAssumption DEF Init
<1>1. TypeOK
  BY EmptySeq DEF TypeOK, GoalsOK, Motor, MotorStatus, Status, Active, Looping
<1>2. Len(requests) = 0
  BY EmptySeq
<1> QED
  BY <1>1, <1>2 DEF IInv, Unsent, Alone, SoleIsLast, Settled

-----------------------------------------------------------------------------
(* Steps that keep types.                                                  *)

LEMMA MessageTypes ==
  ASSUME NEW w \in Seq(MotorStatus), NEW m \in MotorStatus
  PROVE  /\ Len(w) \in Nat
         /\ Append(w, m) \in Seq(MotorStatus) /\ Len(Append(w, m)) = Len(w) + 1
         /\ w # << >> => /\ Tail(w) \in Seq(MotorStatus) /\ Len(Tail(w)) = Len(w) - 1
                         /\ <<Head(w)>> \in Seq(MotorStatus) /\ Len(<<Head(w)>>) = 1
BY LenProperties, AppendProperties, HeadTailProperties, EmptySeq

LEMMA MotorTypes ==
  ASSUME NEW m \in Motor
  PROVE  /\ m.position \in 0..Top /\ m.target \in 0..Top /\ m.status \in Status
         /\ [position |-> m.position, status |-> m.status] \in MotorStatus
         /\ \A p \in 0..Top : [m EXCEPT !.position = p] \in Motor
         /\ \A t \in 0..Top : /\ [m EXCEPT !.target = t] \in Motor
                              /\ [m EXCEPT !.target = t].target = t
         /\ \A s \in Status : /\ [m EXCEPT !.status = s] \in Motor
                              /\ [m EXCEPT !.status = s].target = m.target
         /\ \A p \in 0..Top : [m EXCEPT !.position = p].target = m.target
BY DEF Motor, MotorStatus

LEMMA GoalsStep ==
  ASSUME GoalsOK, NEW g \in Goal, Accept(g) \/ Cancel(g) \/ Thread(g)
  PROVE  GoalsOK'
<1> USE DEF GoalsOK, Active, Looping, Goto, skillVars, robotVars
<1>1. CASE Accept(g)
  BY <1>1 DEF Accept
<1>2. CASE Cancel(g)
  BY <1>2 DEF Cancel
<1>3. CASE SendTarget(g)
  BY <1>3 DEF SendTarget
<1>4. CASE CommitTimeOut(g)
  BY <1>4 DEF CommitTimeOut, DropAnswer, End
<1>5. CASE TakeAnswer(g)
  BY <1>5 DEF TakeAnswer, DropAnswer, End
<1>6. CASE Check(g)
  BY <1>6 DEF Check, End
<1>7. CASE Look(g)
  <2>1. /\ pc[g] = "look" /\ UNCHANGED answer
        /\ \/ End(g, "aborted") \/ End(g, "succeeded")
           \/ Goto(g, "look", "check") /\ UNCHANGED goalState
    BY <1>7 DEF Look
  <2>2. CASE End(g, "aborted") \/ End(g, "succeeded")
    BY <2>1, <2>2 DEF End
  <2>3. CASE Goto(g, "look", "check") /\ UNCHANGED goalState
    BY <2>1, <2>3
  <2> QED
    BY <2>1, <2>2, <2>3
<1> QED
  BY <1>1, <1>2, <1>3, <1>4, <1>5, <1>6, <1>7 DEF Thread

LEMMA TypeStep == TypeOK /\ [Next]_vars => TypeOK'
<1> SUFFICES ASSUME TypeOK, [Next]_vars PROVE TypeOK'
  OBVIOUS
<1> USE MotorAssumption DEF TypeOK, skillVars, robotVars
<1>0. CASE UNCHANGED vars
  BY <1>0 DEF vars, GoalsOK
<1>1. ASSUME NEW g \in Goal, Accept(g) \/ Cancel(g) PROVE TypeOK'
  BY <1>1, GoalsStep DEF Accept, Cancel
<1>2. ASSUME NEW g \in Goal, Tick(g) PROVE TypeOK'
  <2>1. clock[g] \in 0..2 /\ clock[g] < 2 /\ clock' = [clock EXCEPT ![g] = clock[g] + 1]
    BY <1>2 DEF Tick
  <2>2. clock[g] + 1 \in 0..2
    BY <2>1
  <2> QED
    BY <1>2, <2>1, <2>2 DEF Tick, GoalsOK
<1>3. ASSUME NEW g \in Goal, Thread(g) PROVE TypeOK'
  <2>1. GoalsOK'
    BY <1>3, GoalsStep
  <2>2. CASE SendTarget(g)
    BY <2>1, <2>2, QueueSteps DEF SendTarget, Restart
  <2>3. CASE CommitTimeOut(g)
    BY <2>1, <2>3 DEF CommitTimeOut, Restart
  <2>4. CASE TakeAnswer(g)
    BY <2>1, <2>4 DEF TakeAnswer, Restart
  <2>5. CASE Check(g) \/ Look(g)
    BY <2>1, <2>5 DEF Check, Look
  <2> QED
    BY <1>3, <2>2, <2>3, <2>4, <2>5 DEF Thread
<1>4. CASE OnStatus
  BY <1>4, MessageTypes DEF OnStatus, GoalsOK
<1>5. CASE SetTarget
  <2> DEFINE g == Head(requests)
  <2>1. g \in Goal /\ requests' \in Seq(Goal)
    BY <1>5, QueueSteps DEF SetTarget
  <2>2. motor' \in Motor
    BY <1>5, <2>1, MotorTypes DEF SetTarget
  <2>3. GoalsOK'
    BY <1>5, <2>1 DEF SetTarget, GoalsOK
  <2> QED
    BY <1>5, <2>1, <2>2, <2>3 DEF SetTarget
<1>6. CASE UpdatePhysics
  <2>1. PICK p \in (motor.position + 1)..motor.target \cup motor.target..(motor.position - 1) :
          motor' = [motor EXCEPT !.position = p]
    BY <1>6 DEF UpdatePhysics
  <2>2. p \in 0..Top
    <3>1. motor.position \in 0..Top /\ motor.target \in 0..Top
      BY MotorTypes
    <3> QED
      BY <2>1, <3>1
  <2>3. motor' \in Motor
    BY <2>1, <2>2, MotorTypes
  <2> QED
    BY <1>6, <2>3 DEF UpdatePhysics, GoalsOK
<1>7. CASE PublishStatus
  <2>1. [position |-> motor.position, status |-> motor.status] \in MotorStatus
    BY MotorTypes
  <2> QED
    BY <1>7, <2>1, MessageTypes DEF PublishStatus, GoalsOK
<1>8. CASE Event
  <2>1. CASE Reset
    BY <2>1 DEF Reset, Motor, Status, GoalsOK
  <2>2. CASE Crash
    <3>1. GoalsOK'
      BY <2>2 DEF Crash, GoalsOK, Active, Looping
    <3> QED
      BY <2>2, <3>1, QueueSteps, EmptySeq DEF Crash
  <2>3. ASSUME NEW kind \in Kinds, InjectFault(kind) PROVE TypeOK'
    <3>1. motor' \in Motor
      BY <2>3, MotorTypes DEF InjectFault
    <3> QED
      BY <2>3, <3>1 DEF InjectFault, GoalsOK
  <2> QED
    BY <1>8, <2>1, <2>2, <2>3 DEF Event
<1> QED
  BY <1>0, <1>1, <1>2, <1>3, <1>4, <1>5, <1>6, <1>7, <1>8 DEF Next, Robot
-----------------------------------------------------------------------------
(* The sole goal and the queue.                                            *)

\* Steps of goals: only a goal that is alive takes one, and only one that
\* asks for the motor for the first time is sent.
LEMMA SoleStep ==
  ASSUME IInv, NEW g \in Goal, Accept(g) \/ Cancel(g) \/ Thread(g)
  PROVE  (Unsent /\ Alone /\ SoleIsLast /\ Settled)'
<1> USE DEF IInv, TypeOK, GoalsOK, Active, Looping, Goto, skillVars, robotVars
<1>1. CASE Accept(g)
  <2>1. sole' \in {g, NoGoal} /\ (sole' = g => \A h \in Goal : pc[h] = "idle")
    BY <1>1, MotorAssumption DEF Accept
  <2>2. pc'[g] = "discover" /\ goalState'[g] = "executing" /\ answer'[g] = "none"
    BY <1>1 DEF Accept
  <2>3. \A i \in 1..Len(requests) : requests[i] # g
    BY <1>1 DEF Accept, Unsent
  <2>4. Unsent'
    BY <1>1, <2>3 DEF Accept, Unsent
  <2>5. Alone'
    BY <1>1, <2>1 DEF Accept, Alone
  <2>6. SoleIsLast' /\ Settled'
    BY <1>1, <2>1, <2>2, <2>3, MotorAssumption DEF Accept, SoleIsLast, Settled, Committed
  <2> QED
    BY <2>4, <2>5, <2>6
<1>2. CASE Cancel(g)
  BY <1>2 DEF Cancel, Unsent, Alone, SoleIsLast, Settled, Committed
<1>3. CASE SendTarget(g)
  <2>1. /\ Len(requests') = Len(requests) + 1 /\ requests'[Len(requests) + 1] = g
        /\ \A i \in 1..Len(requests) : requests'[i] = requests[i] /\ requests[i] # g
        /\ Len(requests) \in Nat
    BY <1>3, QueueSteps DEF SendTarget, Unsent
  <2>2. pc[g] = "discover" /\ pc' = [pc EXCEPT ![g] = "commit"]
    BY <1>3 DEF SendTarget
  <2>3. Unsent'
    BY <1>3, <2>1, <2>2 DEF SendTarget, Unsent
  <2>4. Alone' /\ (sole # NoGoal => g = sole)
    BY <1>3, <2>2 DEF SendTarget, Alone
  <2>5. SoleIsLast'
    BY <1>3, <2>1, <2>4 DEF SendTarget, SoleIsLast
  <2>6. Settled'
    BY <1>3, <2>2, <2>4 DEF SendTarget, Settled, Committed
  <2> QED
    BY <2>3, <2>4, <2>5, <2>6
<1>4. CASE CommitTimeOut(g) \/ TakeAnswer(g) \/ Check(g) \/ Look(g)
  <2>1. /\ UNCHANGED <<requests, motor, sole>>
        /\ \A h \in Goal : h # g => pc'[h] = pc[h] /\ goalState'[h] = goalState[h]
                                   /\ answer'[h] = answer[h]
    BY <1>4 DEF CommitTimeOut, TakeAnswer, Check, Look, End, DropAnswer
  <2>2. pc[g] # "idle" /\ pc'[g] # "discover" /\ goalState'[g] # "none"
    BY <1>4 DEF CommitTimeOut, TakeAnswer, Check, Look, End
  <2>3. Committed(g)' => Committed(g)
    BY <1>4 DEF CommitTimeOut, TakeAnswer, Check, Look, End, DropAnswer, Committed
  <2>4. Unsent'
    BY <2>1, <2>2 DEF Unsent
  <2>5. Alone'
    BY <2>1, <2>2 DEF Alone
  <2>6. SoleIsLast' /\ Settled'
    BY <2>1, <2>3 DEF SoleIsLast, Settled, Committed
  <2> QED
    BY <2>4, <2>5, <2>6
<1> QED
  BY <1>1, <1>2, <1>3, <1>4 DEF Thread

\* The robot serves the head of the queue; with the request of the sole goal
\* the queue is empty.
LEMMA SetTargetStep ==
  ASSUME IInv, SetTarget
  PROVE  (Unsent /\ Alone /\ SoleIsLast /\ Settled)'
<1> USE DEF IInv, TypeOK, GoalsOK, Active, Looping, skillVars
<1> DEFINE g == Head(requests)
<1>1. /\ g \in Goal /\ g = requests[1] /\ Len(requests) \in Nat /\ Len(requests) > 0
      /\ requests' \in Seq(Goal) /\ Len(requests') = Len(requests) - 1
      /\ \A i \in 1..Len(requests') : requests'[i] = requests[i + 1]
  BY QueueSteps DEF SetTarget
<1>2. UNCHANGED <<pc, goalState, sole>> /\ \A h \in Goal : h # g => answer'[h] = answer[h]
  BY DEF SetTarget
<1>3. Unsent' /\ Alone' /\ SoleIsLast'
  BY <1>1, <1>2 DEF Unsent, Alone, SoleIsLast
<1>4. ASSUME sole # NoGoal, Committed(sole)' PROVE requests' = << >> /\ motor'.target = Target[sole]
  <2>1. ~Committed(sole)
    BY <1>4, <1>1, EmptySeq DEF Settled
  <2>2. sole = g /\ answer'[g] = "accepted"
    BY <1>4, <1>2, <2>1 DEF Committed
  <2>3. motor.status # "DEAD" /\ motor' = [motor EXCEPT !.target = Target[g]]
    BY <1>1, <2>2 DEF SetTarget
  <2>4. motor'.target = Target[sole]
    BY <1>1, <2>2, <2>3, MotorTypes, MotorAssumption
  <2>5. Len(requests') = 0
    BY <1>1, <1>4, <2>2 DEF SoleIsLast
  <2> QED
    BY <1>1, <2>4, <2>5, EmptySeq
<1> QED
  BY <1>2, <1>3, <1>4 DEF Settled

LEMMA CrashStep ==
  ASSUME IInv, Crash
  PROVE  (Unsent /\ Alone /\ SoleIsLast /\ Settled)'
<1> USE DEF IInv, TypeOK, GoalsOK, Active, Looping, robotVars
<1>1. PICK n \in 0..Len(requests) : requests' = SubSeq(requests, 1, n)
  BY DEF Crash
<1>2. /\ Len(requests) \in Nat /\ Len(requests') = n /\ requests' \in Seq(Goal)
      /\ \A i \in 1..n : requests'[i] = requests[i]
  BY <1>1, QueueSteps
<1>3. /\ \A h \in Goal : pc'[h] = "idle" /\ answer'[h] = "none"
      /\ \A h \in Goal : goalState'[h] = "none" => goalState[h] = "none"
      /\ \A h \in Goal : goalState'[h] = "succeeded" => goalState[h] = "succeeded"
      /\ UNCHANGED <<motor, sole>>
  BY DEF Crash
<1>4. Unsent'
  <2>1. SUFFICES ASSUME NEW h \in Goal, goalState'[h] = "none" \/ pc'[h] = "discover",
                        NEW i \in 1..Len(requests')
                 PROVE  requests'[i] # h
    BY DEF Unsent
  <2>2. goalState[h] = "none" /\ requests'[i] = requests[i] /\ i \in 1..Len(requests)
    BY <1>2, <1>3, <2>1
  <2> QED
    BY <2>2 DEF Unsent
<1>5. Alone'
  BY <1>3 DEF Alone
<1>6. SoleIsLast'
  BY <1>2, <1>3 DEF SoleIsLast
<1>7. requests = << >> => requests' = << >>
  BY <1>2, EmptySeq
<1>8. sole # NoGoal /\ Committed(sole)' => Committed(sole)
  <2>1. SUFFICES ASSUME sole \in Goal, Committed(sole)' PROVE Committed(sole)
    OBVIOUS
  <2>2. sole' = sole /\ pc'[sole] = "idle" /\ answer'[sole] = "none"
    BY <1>3, <2>1
  <2>3. goalState'[sole] = "succeeded"
    BY <2>1, <2>2 DEF Committed
  <2> QED
    BY <1>3, <2>1, <2>3 DEF Committed
<1>9. Settled'
  BY <1>3, <1>7, <1>8 DEF Settled, Committed
<1> QED
  BY <1>4, <1>5, <1>6, <1>9

LEMMA IInvStep == IInv /\ [Next]_vars => IInv'
<1> SUFFICES ASSUME IInv, [Next]_vars PROVE (Unsent /\ Alone /\ SoleIsLast /\ Settled)'
  BY TypeStep DEF IInv
<1> USE DEF IInv, TypeOK, GoalsOK, Unsent, Alone, SoleIsLast, Settled, Committed, skillVars, robotVars
<1>1. CASE UNCHANGED vars
  BY <1>1 DEF vars
<1>2. ASSUME NEW g \in Goal, Accept(g) \/ Cancel(g) \/ Thread(g)
      PROVE  (Unsent /\ Alone /\ SoleIsLast /\ Settled)'
  BY <1>2, SoleStep
<1>3. ASSUME NEW g \in Goal, Tick(g) PROVE (Unsent /\ Alone /\ SoleIsLast /\ Settled)'
  BY <1>3 DEF Tick
<1>4. CASE OnStatus \/ PublishStatus
  BY <1>4 DEF OnStatus, PublishStatus
<1>5. CASE SetTarget
  BY <1>5, SetTargetStep
<1>6. CASE UpdatePhysics
  <2>1. motor'.target = motor.target
    <3>1. PICK p \in (motor.position + 1)..motor.target \cup motor.target..(motor.position - 1) :
            motor' = [motor EXCEPT !.position = p]
      BY <1>6 DEF UpdatePhysics
    <3> QED
      BY <3>1 DEF Motor
  <2> QED
    BY <1>6, <2>1 DEF UpdatePhysics
<1>7. CASE Event
  <2>1. CASE Reset
    BY <2>1 DEF Reset
  <2>2. CASE Crash
    BY <2>2, CrashStep
  <2>3. ASSUME NEW kind \in Kinds, InjectFault(kind)
        PROVE  (Unsent /\ Alone /\ SoleIsLast /\ Settled)'
    <3>1. motor'.target = motor.target
      BY <2>3 DEF InjectFault, Motor
    <3> QED
      BY <2>3, <3>1 DEF InjectFault
  <2> QED
    BY <1>7, <2>1, <2>2, <2>3 DEF Event
<1> QED
  BY <1>1, <1>2, <1>3, <1>4, <1>5, <1>6, <1>7 DEF Next, Robot

LEMMA Invariance == Spec => []IInv
<1> QED
  BY InitIInv, IInvStep, PTL DEF Spec

-----------------------------------------------------------------------------
\* Every variable of the skill and the motor keeps its type; a goal is alive
\* exactly while its thread runs, through any number of deaths.
THEOREM MotorTypeCorrect == Spec => []TypeOK
<1>1. IInv => TypeOK
  BY DEF IInv
<1> QED
  BY <1>1, Invariance, PTL

\* A goal that has the motor to itself watches, and at its success leaves, a
\* motor whose target is its own: no request that another goal gave up on, or
\* left behind when the process died, comes after its own.
THEOREM TargetStaysOwn == Spec => []TargetIsOwn
<1>1. IInv => TargetIsOwn
  BY DEF IInv, Settled, Committed, TargetIsOwn
<1> QED
  BY <1>1, Invariance, PTL
=============================================================================
