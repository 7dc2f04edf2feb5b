----------------------- MODULE LifecycleActionProofs -----------------------
(***************************************************************************)
(* Theorems about SkillSupervisor and LifecycleAction, for any number of   *)
(* call slots, crashes, late answers and executions: the types, that the   *)
(* in_flight flag covers the call under way but for as many others as      *)
(* answers were late, also beside the action State, and what the State     *)
(* reports of the goals it sends and leaves behind; and which transitions  *)
(* may race on a skill.                                                    *)
(***************************************************************************)
EXTENDS LifecycleAction, Integers, FiniteSetTheorems, TLAPS

-----------------------------------------------------------------------------
(* The types of a skill.                                                   *)

\* What the records of calls are.
LEMMA CallFacts ==
  /\ Free.owner = "none" /\ Free.stage = "free"
  /\ \A owner \in Owner, kind \in Kind :
       LET req == Request(owner, kind)
       IN  req \in CallRecord /\ req.owner = owner /\ req.stage = "request"
  BY DEF Free, Request, CallRecord, Owner

\* Filling one slot with a typed call leaves all of them typed.
LEMMA SlotTyped ==
  ASSUME NodeTypeOK, NEW c \in Slot, NEW call \in {Free} \cup CallRecord,
         calls' = [calls EXCEPT ![c] = call]
  PROVE  /\ calls' \in [Slot -> {Free} \cup CallRecord]
         /\ calls'[c] = call
         /\ \A d \in Slot \ {c} : calls'[d] = calls[d]
  BY DEF NodeTypeOK

\* A slot that is freed leaves the types.
LEMMA FreedTyped ==
  ASSUME NodeTypeOK, NEW c \in Slot, calls' = [calls EXCEPT ![c] = Free],
         UNCHANGED <<life, seen, crashes>>
  PROVE  NodeTypeOK'
  BY CallFacts, SlotTyped DEF NodeTypeOK, Up

\* A call leaves the types, whoever makes it.
LEMMA CallTyped ==
  ASSUME NodeTypeOK, NEW c \in Slot, NEW owner \in Owner, NEW kind \in Kind,
         Call(c, owner, kind), UNCHANGED <<life, seen, crashes>>
  PROVE  NodeTypeOK'
<1> DEFINE call == IF Up THEN Request(owner, kind) ELSE Free
<1>1. call \in {Free} \cup CallRecord /\ (call.stage = "request" => Up)
  BY CallFacts
<1>2. calls' = [calls EXCEPT ![c] = call]
  BY DEF Call
<1> HIDE DEF call
<1> QED
  BY <1>1, <1>2, SlotTyped DEF NodeTypeOK, Up

\* Serving a request leaves the types, and the owner of the call.
LEMMA AnswerTyped ==
  ASSUME NodeTypeOK, NEW c \in Slot, calls[c].stage = "request",
         NEW a, \/ calls[c].kind = "get" /\ a \in Life
                \/ calls[c].kind \in Change /\ a \in {"ok", "failed"},
         Answer(c, a), life' \in Life, UNCHANGED <<seen, crashes>>
  PROVE  NodeTypeOK' /\ \A d \in Slot : calls'[d].owner = calls[d].owner
<1> DEFINE call == [calls[c] EXCEPT !.stage = "answer", !.answer = a]
<1>1. calls[c] \in CallRecord
  BY CallFacts DEF NodeTypeOK
<1>2. call \in CallRecord /\ call.owner = calls[c].owner /\ call.stage = "answer"
  BY <1>1 DEF CallRecord
<1>3. calls' = [calls EXCEPT ![c] = call]
  BY DEF Answer
<1>4. Up'
  BY DEF Up, Life
<1> HIDE DEF call
<1> QED
  BY <1>1, <1>2, <1>3, <1>4, SlotTyped DEF NodeTypeOK

\* A step of the skill, its crash included, leaves the types.
LEMMA NodeTyped == NodeTypeOK /\ NodeNext => NodeTypeOK'
<1> SUFFICES ASSUME NodeTypeOK, NodeNext PROVE NodeTypeOK'
  OBVIOUS
<1>1. CASE Respawn
  BY <1>1 DEF Respawn, NodeTypeOK, Life, Up
<1>2. CASE Crash
  BY <1>2, CallFacts, CrashAssumption DEF Crash, NodeTypeOK
<1>3. CASE Discover
  BY <1>3 DEF Discover, NodeTypeOK, Up
<1>4. ASSUME NEW c \in Slot, ServeGet(c) PROVE NodeTypeOK'
  <2>1. life \in Life /\ UNCHANGED <<life, seen, crashes>>
    BY <1>4 DEF ServeGet, NodeTypeOK, Up
  <2>2. Answer(c, life) /\ calls[c].stage = "request" /\ calls[c].kind = "get"
    BY <1>4 DEF ServeGet
  <2> QED
    BY <2>1, <2>2, AnswerTyped
<1>5. ASSUME NEW c \in Slot, ServeChange(c) PROVE NodeTypeOK'
  <2>1. life' \in Life /\ UNCHANGED <<seen, crashes>>
    BY <1>5 DEF ServeChange, NodeTypeOK, Life, Up
  <2>2. PICK a \in {"ok", "failed"} : Answer(c, a)
    BY <1>5 DEF ServeChange
  <2>3. calls[c].stage = "request" /\ calls[c].kind \in Change
    BY <1>5 DEF ServeChange
  <2> QED
    BY <2>1, <2>2, <2>3, AnswerTyped
<1> QED
  BY <1>1, <1>2, <1>3, <1>4, <1>5 DEF NodeNext, Serve

-----------------------------------------------------------------------------
(* The types of the supervisor.                                            *)

LEMMA InitTypeOK == Init => TypeOK
<1> SUFFICES ASSUME Init PROVE TypeOK
  OBVIOUS
<1> USE DEF Init, NodeInit
<1>1. calls \in [Slot -> {Free} \cup CallRecord]
  OBVIOUS
<1>2. \A c \in Slot : calls[c].stage # "request"
  BY CallFacts
<1>3. crashes \in 0..MaxCrashes /\ late \in 0..MaxLate
  BY CrashAssumption, LateAssumption
<1>4. seen \in BOOLEAN /\ inFlight \in BOOLEAN /\ expired \in BOOLEAN
  OBVIOUS
<1> QED
  BY <1>1, <1>2, <1>3, <1>4 DEF TypeOK, NodeTypeOK

LEMMA NextTypeOK == TypeOK /\ [Next]_vars => TypeOK'
<1> SUFFICES ASSUME TypeOK, [Next]_vars PROVE TypeOK'
  OBVIOUS
<1> USE LateAssumption DEF TypeOK
<1>1. CASE NodeNext /\ UNCHANGED supVars
  BY <1>1, NodeTyped DEF supVars
<1>2. CASE Expire
  BY <1>2 DEF Expire, nodeVars, NodeTypeOK, Up
<1>3. CASE Kick
  <2>1. "get" \in Kind /\ "supervisor" \in Owner
    BY DEF Kind, Owner
  <2>2. NodeTypeOK'
    BY <1>3, <2>1, CallTyped DEF Kick, NodeTypeOK, Up, NextSlot
  <2> QED
    BY <1>3, <2>2 DEF Kick
<1>4. ASSUME NEW c \in Slot, OnState(c) PROVE TypeOK'
  <2>1. Wanted(calls[c].answer) \subseteq Kind /\ "supervisor" \in Owner
    BY DEF Wanted, Kind, Owner
  <2>2. NodeTypeOK'
    BY <1>4, <2>1, CallTyped, FreedTyped DEF OnState
  <2> QED
    BY <1>4, <2>2 DEF OnState
<1>5. ASSUME NEW c \in Slot, OnTransitionDone(c) PROVE TypeOK'
  BY <1>5, FreedTyped DEF OnTransitionDone
<1>6. CASE UNCHANGED vars
  BY <1>6 DEF vars, nodeVars, supVars, NodeTypeOK, Up
<1> QED
  BY <1>1, <1>2, <1>3, <1>4, <1>5, <1>6 DEF Next, Supervisor, Done

-----------------------------------------------------------------------------
(* The calls under way.                                                    *)

\* The calls are finitely many, and their number follows what is added to and
\* removed from them.
LEMMA PendingCount ==
  /\ IsFiniteSet(Pending) /\ Cardinality(Pending) \in Nat
  /\ IsFiniteSet(Pending') /\ Cardinality(Pending') \in Nat
  /\ Pending' \subseteq Pending => Cardinality(Pending') <= Cardinality(Pending)
  /\ \A c \in Slot : Pending' \subseteq Pending \cup {c} =>
       Cardinality(Pending') <= Cardinality(Pending) + 1
  /\ \A c \in Pending : Pending' \subseteq Pending \ {c} =>
       Cardinality(Pending') <= Cardinality(Pending) - 1
<1>1. IsFiniteSet(Pending) /\ IsFiniteSet(Pending')
  BY SlotAssumption, FS_Subset DEF Pending, Outstanding
<1>2. Cardinality(Pending) \in Nat /\ Cardinality(Pending') \in Nat
  BY <1>1, FS_CardinalityType
<1>3. ASSUME Pending' \subseteq Pending PROVE Cardinality(Pending') <= Cardinality(Pending)
  BY <1>1, <1>3, FS_Subset
<1>4. ASSUME NEW c \in Slot, Pending' \subseteq Pending \cup {c}
      PROVE  Cardinality(Pending') <= Cardinality(Pending) + 1
  <2> DEFINE more == Pending \cup {c}
  <2>1. /\ IsFiniteSet(more)
        /\ Cardinality(more) = IF c \in Pending THEN Cardinality(Pending)
                                                ELSE Cardinality(Pending) + 1
    BY <1>1, FS_AddElement
  <2> HIDE DEF more
  <2>2. Cardinality(Pending') <= Cardinality(more)
    BY <1>4, <2>1, FS_Subset DEF more
  <2> QED
    BY <1>2, <2>1, <2>2
<1>5. ASSUME NEW c \in Pending, Pending' \subseteq Pending \ {c}
      PROVE  Cardinality(Pending') <= Cardinality(Pending) - 1
  <2>1. /\ IsFiniteSet(Pending \ {c})
        /\ Cardinality(Pending \ {c}) = Cardinality(Pending) - 1
    BY <1>1, FS_RemoveElement
  <2> QED
    BY <1>5, <2>1, FS_Subset
<1> QED
  BY <1>1, <1>2, <1>3, <1>4, <1>5

LEMMA InitCovers == Init => FlagCovers
<1> SUFFICES ASSUME Init PROVE FlagCovers
  OBVIOUS
<1>1. Pending = {}
  BY CallFacts DEF Init, NodeInit, Pending, Outstanding
<1> QED
  BY <1>1, FS_EmptySet DEF Init, FlagCovers

\* FlagCovers is inductive, given the types.
LEMMA NextCovers ==
  ASSUME TypeOK, FlagCovers, [Next]_vars
  PROVE  FlagCovers'
<1> USE PendingCount, LateAssumption DEF FlagCovers, TypeOK
<1>1. CASE NodeNext /\ UNCHANGED supVars
  <2>1. Pending' \subseteq Pending
    <3>1. ASSUME NEW c \in Slot, Serve(c) PROVE Pending' \subseteq Pending
      <4>1. calls[c] \in CallRecord
        <5>1. calls[c].stage = "request"
          BY <3>1 DEF Serve, ServeGet, ServeChange
        <5> QED
          BY <5>1, CallFacts DEF NodeTypeOK
      <4>2. PICK a : Answer(c, a)
        BY <3>1 DEF Serve, ServeGet, ServeChange
      <4>3. \A d \in Slot : calls'[d].owner = calls[d].owner
        BY <4>1, <4>2 DEF Answer, NodeTypeOK, CallRecord
      <4> QED
        BY <4>3 DEF Pending, Outstanding
    <3>2. CASE Crash
      BY <3>2, CallFacts DEF Crash, Pending, Outstanding
    <3>3. CASE Respawn \/ Discover
      BY <3>3 DEF Respawn, Discover, Pending, Outstanding
    <3> QED
      BY <1>1, <3>1, <3>2, <3>3 DEF NodeNext
  <2> QED
    BY <1>1, <2>1 DEF supVars
\* An overdue call is counted as the flag gives it up.
<1>2. CASE Expire
  <2>1. Pending' = Pending
    BY <1>2 DEF Expire, nodeVars, Pending, Outstanding
  <2>2. Pending = {} => Cardinality(Pending) = 0
    BY FS_EmptySet
  <2> QED
    BY <1>2, <2>1, <2>2 DEF Expire
\* The poll starts one call, when the flag covers none.
<1>3. CASE Kick
  <2>1. CASE ~seen
    BY <1>3, <2>1 DEF Kick, Pending, Outstanding
  <2>2. CASE seen
    <3>1. PICK c \in Slot : calls[c] = Free /\ Call(c, "supervisor", "get")
      BY <1>3, <2>2 DEF Kick, NextSlot
    <3>2. Pending' \subseteq Pending \cup {c}
      BY <3>1 DEF Call, Pending, Outstanding, NodeTypeOK
    <3> QED
      BY <1>3, <2>2, <3>2 DEF Kick
  <2> QED
    BY <2>1, <2>2
\* A transition takes the place of the answer it follows from.
<1>4. ASSUME NEW c \in Slot, OnState(c) PROVE FlagCovers'
  <2>1. c \in Pending
    BY <1>4 DEF OnState, Answered, Pending, Outstanding
  <2>2. CASE \E kind \in Wanted(calls[c].answer) :
               Call(c, "supervisor", kind) /\ expired' = FALSE /\ UNCHANGED inFlight
    <3>1. Pending' \subseteq Pending
      BY <2>1, <2>2 DEF Call, Pending, Outstanding, NodeTypeOK
    <3> QED
      BY <1>4, <2>2, <3>1 DEF OnState
  <2>3. CASE calls' = [calls EXCEPT ![c] = Free] /\ inFlight' = FALSE
    <3>1. Pending' \subseteq Pending \ {c}
      BY <2>3, CallFacts DEF Pending, Outstanding, NodeTypeOK
    <3> QED
      BY <1>4, <2>1, <2>3, <3>1 DEF OnState
  <2> QED
    BY <1>4, <2>2, <2>3 DEF OnState
<1>5. ASSUME NEW c \in Slot, OnTransitionDone(c) PROVE FlagCovers'
  <2>1. c \in Pending
    BY <1>5 DEF OnTransitionDone, Answered, Pending, Outstanding
  <2>2. Pending' \subseteq Pending \ {c}
    BY <1>5, CallFacts DEF OnTransitionDone, Pending, Outstanding, NodeTypeOK
  <2> QED
    BY <1>5, <2>1, <2>2 DEF OnTransitionDone
<1>6. CASE UNCHANGED vars
  BY <1>6 DEF vars, nodeVars, supVars, Pending, Outstanding
<1> QED
  BY <1>1, <1>2, <1>3, <1>4, <1>5, <1>6 DEF Next, Supervisor, Done

-----------------------------------------------------------------------------
\* The types hold in every reachable state (supervisor_node.py:34-76).
THEOREM SupervisorTypeCorrect == Spec => []TypeOK
  BY InitTypeOK, NextTypeOK, PTL DEF Spec

\* The flag covers the call under way but for those whose answers are late
\* (supervisor_node.py:12), whatever crashes and is lost.
THEOREM OneCallUnderWay == Spec => []FlagCovers
  BY InitCovers, InitTypeOK, NextTypeOK, NextCovers, PTL DEF Spec

-----------------------------------------------------------------------------
(* The action State beside them.                                           *)

\* The goal of an execution is sent in its last two waits; an execution that
\* has not begun has neither goal nor outcome, and the one under way has no
\* outcome yet.
GoalLife ==
  /\ step # "idle" => execs \in Exec /\ outcome[execs] = "none"
  /\ step \in {"service", "server"} \cup Waits => goals[execs] = "none"
  /\ \A e \in Exec : e > execs => goals[e] = "none" /\ outcome[e] = "none"

\* The types of what the State itself keeps.
StateTypeOK ==
  /\ step \in {"idle", "service", "server", "accept", "result"} \cup Waits
  /\ mine \subseteq Slot /\ (mine # {} <=> step \in Waits)
  /\ execs \in 0..MaxExecs /\ token \in BOOLEAN
  /\ goals \in [Exec -> GoalState]
  /\ outcome \in [Exec -> Outcome \cup {"none"}]

Reports == GoalLife /\ OutcomeHonest /\ OrphansExplained

ActionInv == TypeOK /\ FlagCovers /\ StateTypeOK /\ Reports

LEMMA ActionInitInv == ActionInit => ActionInv
<1> SUFFICES ASSUME ActionInit PROVE ActionInv
  OBVIOUS
<1>1. TypeOK /\ FlagCovers
  BY InitTypeOK, InitCovers DEF ActionInit
<1>2. step = "idle" /\ mine = {} /\ execs \in 0..MaxExecs /\ token \in BOOLEAN
  <2>1. token \in BOOLEAN
    BY Zenon DEF ActionInit
  <2> QED
    BY <2>1, ExecsAssumption DEF ActionInit
<1>3. goals \in [Exec -> GoalState] /\ outcome \in [Exec -> Outcome \cup {"none"}]
  BY DEF ActionInit, GoalState
<1>4. StateTypeOK
  BY <1>2, <1>3 DEF StateTypeOK, Waits
<1>5. Reports
  BY DEF ActionInit, Reports, GoalLife, Waits, OutcomeHonest, OrphansExplained
<1> QED
  BY <1>1, <1>4, <1>5 DEF ActionInv

\* What the State does to the calls: it makes one in a free slot or in one of
\* its own, or frees one of its own.
StateCall ==
  \E c \in Slot :
    /\ calls[c].owner # "supervisor"
    /\ \/ calls' = [calls EXCEPT ![c] = Free]
       \/ \E kind \in Kind : Call(c, "state", kind)

StateStep == \/ Enter \/ RequestCancel \/ Thread
             \/ \E c \in Slot : Forget(c)
             \/ \E e \in Exec : TakeGoal(e) \/ EndGoal(e)

LEMMA StateFrame ==
  ASSUME StateStep
  PROVE  UNCHANGED <<life, seen, crashes, supVars>> /\ (UNCHANGED calls \/ StateCall)
<1>1. CASE Enter \/ RequestCancel \/ SendGoal \/ Accepted \/ GotResult \/ TimeOut \/ Cancelled
  BY <1>1 DEF Enter, RequestCancel, SendGoal, Accepted, GotResult, TimeOut, Cancelled, vars,
     nodeVars, goalVars
<1>2. CASE FindService
  <2>1. \A c \in NextSlot : c \in Slot /\ calls[c].owner # "supervisor"
    BY CallFacts DEF NextSlot
  <2> QED
    BY <1>2, <2>1 DEF FindService, StateCall, Kind
<1>3. ASSUME NEW c \in Slot, Reply(c) \/ Forget(c)
      PROVE  UNCHANGED <<life, seen, crashes, supVars>> /\ StateCall
  <2>1. calls[c].owner # "supervisor"
    BY <1>3 DEF Reply, Forget, Answered
  <2>2. \A t : KindOf(t) \in Kind
    BY DEF KindOf, Kind, Change
  <2> QED
    BY <1>3, <2>1, <2>2 DEF Reply, Forget, StateCall, stateVars
<1>4. ASSUME NEW e \in Exec, TakeGoal(e) \/ EndGoal(e)
      PROVE  UNCHANGED <<life, seen, crashes, supVars, calls>>
  BY <1>4 DEF TakeGoal, EndGoal, vars, nodeVars
<1> QED
  BY <1>1, <1>2, <1>3, <1>4 DEF StateStep, Thread

\* So types and flag are the supervisor's own affair.
LEMMA StateStepSafe ==
  ASSUME TypeOK, FlagCovers, StateStep
  PROVE  TypeOK' /\ FlagCovers'
<1>1. UNCHANGED <<life, seen, crashes, supVars>>
  BY StateFrame
<1>2. NodeTypeOK' /\ Pending' \subseteq Pending
  <2>1. CASE UNCHANGED calls
    BY <1>1, <2>1 DEF TypeOK, NodeTypeOK, Up, Pending, Outstanding
  <2>2. CASE StateCall
    <3>1. PICK c \in Slot : /\ calls[c].owner # "supervisor"
                            /\ \/ calls' = [calls EXCEPT ![c] = Free]
                               \/ \E kind \in Kind : Call(c, "state", kind)
      BY <2>2 DEF StateCall
    <3>2. NodeTypeOK'
      BY <1>1, <3>1, CallTyped, FreedTyped DEF TypeOK, Owner
    <3>3. PICK call \in {Free} \cup CallRecord :
            call.owner # "supervisor" /\ calls' = [calls EXCEPT ![c] = call]
      BY <3>1, CallFacts DEF Call, Owner
    <3>4. Pending' \subseteq Pending
      BY <3>3, SlotTyped DEF TypeOK, Pending, Outstanding
    <3> QED
      BY <3>2, <3>4
  <2> QED
    BY <2>1, <2>2, StateFrame
<1> QED
  BY <1>1, <1>2, PendingCount, LateAssumption DEF TypeOK, FlagCovers, supVars

\* The steps of the execution: what it reports agrees with its goal.
LEMMA StateStepReports ==
  ASSUME StateTypeOK, Reports, StateStep
  PROVE  StateTypeOK' /\ Reports'
<1> USE ExecsAssumption
    DEF StateTypeOK, Reports, GoalLife, OutcomeHonest, OrphansExplained, Exec, GoalState,
        Alive, Outcome, Waits, goalVars, stateVars
<1>1. CASE Enter
  <2>1. token' \in BOOLEAN
    BY <1>1, Zenon DEF Enter
  <2>2. execs + 1 \in Exec /\ execs' = execs + 1 /\ step' = "service"
    BY <1>1 DEF Enter
  <2>3. UNCHANGED <<mine, goals, outcome>> /\ mine = {}
    BY <1>1 DEF Enter
  <2> QED
    BY <2>1, <2>2, <2>3
<1>2. CASE RequestCancel
  BY <1>2 DEF RequestCancel
<1>3. CASE FindService
  BY <1>3 DEF FindService, End, Goto, NextSlot
<1>4. ASSUME NEW c \in Slot, Reply(c) PROVE StateTypeOK' /\ Reports'
  <2>1. step \in Waits
    BY <1>4 DEF Reply
  <2>2. CASE \E to \in Waits : Goto(to) /\ UNCHANGED mine
    BY <1>4, <2>1, <2>2 DEF Reply, Goto
  <2>3. CASE Goto("server") /\ mine' = {}
    BY <1>4, <2>1, <2>3 DEF Reply, Goto
  <2>4. CASE End("lifecycle_error")
    BY <1>4, <2>1, <2>4 DEF Reply, End
  <2> QED
    BY <1>4, <2>2, <2>3, <2>4 DEF Reply
<1>5. ASSUME NEW c \in Slot, Forget(c) PROVE StateTypeOK' /\ Reports'
  BY <1>5 DEF Forget
<1>6. CASE SendGoal
  BY <1>6 DEF SendGoal, End, Goto
<1>7. CASE Accepted
  BY <1>7 DEF Accepted, End, Goto
<1>8. CASE GotResult
  BY <1>8 DEF GotResult, End, Finished
<1>9. CASE TimeOut
  BY <1>9 DEF TimeOut, NotDone, End
<1>10. CASE Cancelled
  BY <1>10 DEF Cancelled, NotDone, End
<1>11. ASSUME NEW e \in Exec, TakeGoal(e) \/ EndGoal(e) PROVE StateTypeOK' /\ Reports'
  BY <1>11 DEF TakeGoal, EndGoal
<1> QED
  BY <1>1, <1>2, <1>3, <1>4, <1>5, <1>6, <1>7, <1>8, <1>9, <1>10, <1>11 DEF StateStep, Thread

\* A death of the process loses its goals, and decides none.
LEMMA LostReports ==
  ASSUME StateTypeOK, Reports, LoseGoals, UNCHANGED stateVars
  PROVE  StateTypeOK' /\ Reports'
BY DEF StateTypeOK, Reports, GoalLife, OutcomeHonest, OrphansExplained, GoalState, Alive,
   LoseGoals, stateVars, Waits

LEMMA ActionStepInv == ActionInv /\ [ActionNext]_actionVars => ActionInv'
<1> SUFFICES ASSUME ActionInv, [ActionNext]_actionVars PROVE ActionInv'
  OBVIOUS
<1>1. CASE Next /\ LoseGoals /\ UNCHANGED stateVars
  BY <1>1, NextTypeOK, NextCovers, LostReports DEF ActionInv
<1>2. CASE StateStep
  BY <1>2, StateStepSafe, StateStepReports DEF ActionInv
<1>3. CASE UNCHANGED actionVars
  <2>1. TypeOK' /\ FlagCovers'
    BY <1>3, NextTypeOK, NextCovers DEF ActionInv, actionVars
  <2>2. StateTypeOK' /\ Reports'
    BY <1>3 DEF ActionInv, actionVars, goalVars, stateVars, StateTypeOK, Reports, GoalLife,
       OutcomeHonest, OrphansExplained, Waits
  <2> QED
    BY <2>1, <2>2 DEF ActionInv
<1> QED
  BY <1>1, <1>2, <1>3 DEF ActionNext, StateStep

LEMMA ActionInductive == ActionSpec => []ActionInv
  BY ActionInitInv, ActionStepInv, PTL DEF ActionSpec

\* Types of skill, calls and State, whatever crashes and whoever calls.
THEOREM ActionTypeCorrect == ActionSpec => []ActionTypeOK
<1>1. ActionInv => ActionTypeOK
  BY DEF ActionInv, TypeOK, StateTypeOK, ActionTypeOK
<1> QED
  BY <1>1, ActionInductive, PTL

\* The flag of the supervisor covers its calls although the State calls the
\* same services on its own.
THEOREM FlagCoversBesideState == ActionSpec => []FlagCovers
<1>1. ActionInv => FlagCovers
  BY DEF ActionInv
<1> QED
  BY <1>1, ActionInductive, PTL

\* execute() reports of its goal what became of that goal, for any number of
\* executions, and of goals that earlier ones left behind.
THEOREM ReportsHonestly == ActionSpec => []OutcomeHonest
<1>1. ActionInv => OutcomeHonest
  BY DEF ActionInv, Reports
<1> QED
  BY <1>1, ActionInductive, PTL

\* A goal outlives its execution only after a timeout or a cancel.
THEOREM OrphansOnlyGivenUp == ActionSpec => []OrphansExplained
<1>1. ActionInv => OrphansExplained
  BY DEF ActionInv, Reports
<1> QED
  BY <1>1, ActionInductive, PTL

-----------------------------------------------------------------------------
(* Racing transitions.                                                     *)

\* The State has no call under way but the one it waits for, unless it gave
\* up on one.
OwnCall ==
  /\ \A c, d \in mine : c = d
  /\ GaveUp \/ Outstanding("state") \subseteq mine

\* Neither skill nor supervisor makes a call for the State.
LEMMA NextKeepsState ==
  ASSUME TypeOK, Next
  PROVE  Outstanding("state")' \subseteq Outstanding("state")
<1> USE DEF Outstanding
<1>1. ASSUME NEW c \in Slot, Serve(c) PROVE Outstanding("state")' \subseteq Outstanding("state")
  <2>1. calls[c].stage = "request"
    BY <1>1 DEF Serve, ServeGet, ServeChange
  <2>2. calls[c] \in CallRecord
    BY <2>1, CallFacts DEF TypeOK, NodeTypeOK
  <2>3. PICK a : Answer(c, a)
    BY <1>1 DEF Serve, ServeGet, ServeChange
  <2> QED
    BY <2>2, <2>3 DEF Answer, TypeOK, NodeTypeOK, CallRecord
<1>2. CASE Crash
  BY <1>2, CallFacts DEF Crash
<1>3. CASE Respawn \/ Discover \/ Expire
  BY <1>3 DEF Respawn, Discover, Expire, nodeVars
<1>4. CASE Supervisor
  <2>1. ASSUME NEW c \in Slot, NEW kind \in Kind, Call(c, "supervisor", kind)
        PROVE  Outstanding("state")' \subseteq Outstanding("state")
    <3>1. PICK call : call.owner # "state" /\ calls' = [calls EXCEPT ![c] = call]
      BY <2>1, CallFacts DEF Call, Owner
    <3> QED
      BY <3>1 DEF TypeOK, NodeTypeOK
  <2>2. ASSUME NEW c \in Slot, calls' = [calls EXCEPT ![c] = Free]
        PROVE  Outstanding("state")' \subseteq Outstanding("state")
    BY <2>2, CallFacts DEF TypeOK, NodeTypeOK
  <2>3. CASE Kick
    BY <2>1, <2>3 DEF Kick, NextSlot, Kind
  <2>4. ASSUME NEW c \in Slot, Done(c)
        PROVE  Outstanding("state")' \subseteq Outstanding("state")
    BY <2>1, <2>2, <2>4 DEF Done, OnState, OnTransitionDone, Wanted, Kind
  <2> QED
    BY <1>4, <2>3, <2>4 DEF Supervisor
<1> QED
  BY <1>1, <1>2, <1>3, <1>4 DEF Next, NodeNext

\* What an execution gave up is never taken back: it had reported nothing.
LEMMA GaveUpStays ==
  ASSUME StateTypeOK, Reports, StateStep, GaveUp
  PROVE  GaveUp'
<1>1. ASSUME NEW o, End(o), step # "idle" PROVE GaveUp'
  BY <1>1 DEF End, GaveUp, StateTypeOK, Reports, GoalLife
<1>2. ASSUME UNCHANGED outcome PROVE GaveUp'
  BY <1>2 DEF GaveUp
<1>3. CASE Enter \/ RequestCancel \/ \E e \in Exec : TakeGoal(e) \/ EndGoal(e)
  BY <1>2, <1>3 DEF Enter, RequestCancel, TakeGoal, EndGoal, stateVars
<1>4. CASE FindService \/ SendGoal \/ Accepted \/ GotResult
  BY <1>1, <1>2, <1>4 DEF FindService, SendGoal, Accepted, GotResult, Goto
<1>5. CASE TimeOut \/ Cancelled
  <2>1. step # "idle"
    BY <1>5 DEF TimeOut, Cancelled, NotDone, Waits
  <2> QED
    BY <1>1, <1>5, <2>1 DEF TimeOut, Cancelled
<1>6. ASSUME NEW c \in Slot, Reply(c) \/ Forget(c) PROVE GaveUp'
  <2>1. CASE Forget(c)
    BY <1>2, <2>1 DEF Forget, stateVars
  <2>2. CASE Reply(c)
    <3>1. step # "idle"
      BY <2>2 DEF Reply, StateTypeOK, Waits
    <3> QED
      BY <1>1, <1>2, <2>2, <3>1 DEF Reply, Goto
  <2> QED
    BY <1>6, <2>1, <2>2
<1> QED
  BY <1>3, <1>4, <1>5, <1>6 DEF StateStep, Thread

\* An execution that ends so has given up.
LEMMA EndGivesUp ==
  ASSUME StateTypeOK, Reports, step # "idle",
         NEW o \in {"lifecycle_error", "cancelled"}, End(o)
  PROVE  GaveUp' /\ mine' = {}
  BY DEF End, GaveUp, StateTypeOK, Reports, GoalLife

LEMMA StateStepOwn ==
  ASSUME ActionInv, OwnCall, StateStep
  PROVE  OwnCall'
<1>0. StateTypeOK /\ Reports /\ NodeTypeOK /\ (GaveUp => GaveUp')
  BY GaveUpStays DEF ActionInv, TypeOK
<1> DEFINE Calls == Outstanding("state")
<1>1. ASSUME UNCHANGED calls, UNCHANGED mine PROVE OwnCall'
  BY <1>0, <1>1 DEF OwnCall, Outstanding
\* It waited for none, and ends.
<1>2. ASSUME UNCHANGED calls, step \notin Waits, mine' = {} PROVE OwnCall'
  <2>1. mine = {}
    BY <1>0, <1>2 DEF StateTypeOK
  <2> QED
    BY <1>0, <1>2, <2>1 DEF OwnCall, Outstanding
<1>3. ASSUME GaveUp', mine' = {} PROVE OwnCall'
  BY <1>3 DEF OwnCall
<1>4. CASE Enter \/ RequestCancel \/ \E e \in Exec : TakeGoal(e) \/ EndGoal(e)
  BY <1>1, <1>4 DEF Enter, RequestCancel, TakeGoal, EndGoal, vars, nodeVars, stateVars
<1>5. CASE SendGoal \/ Accepted \/ GotResult
  <2>1. step \notin Waits /\ UNCHANGED calls
    BY <1>5 DEF SendGoal, Accepted, GotResult, Waits, vars, nodeVars
  <2>2. UNCHANGED mine \/ mine' = {}
    BY <1>5 DEF SendGoal, Accepted, GotResult, End
  <2> QED
    BY <1>1, <1>2, <2>1, <2>2
<1>6. CASE TimeOut \/ Cancelled
  <2>1. step # "idle" /\ UNCHANGED calls
    BY <1>6 DEF TimeOut, Cancelled, NotDone, Waits, vars, nodeVars
  <2>2. CASE step \in Waits \/ Cancelled
    <3>1. \E o \in {"lifecycle_error", "cancelled"} : End(o)
      BY <1>6, <2>2 DEF TimeOut, Cancelled
    <3> QED
      BY <1>0, <1>3, <2>1, <3>1, EndGivesUp
  <2>3. CASE step \notin Waits /\ TimeOut
    BY <1>2, <2>1, <2>3 DEF TimeOut, End
  <2> QED
    BY <1>6, <2>2, <2>3
<1>7. CASE FindService
  <2>0. step \notin Waits /\ step # "idle" /\ mine = {}
    BY <1>0, <1>7 DEF FindService, Waits, StateTypeOK
  <2>1. CASE End("lifecycle_error")
    BY <1>0, <1>3, <2>0, <2>1, EndGivesUp
  <2>2. CASE \E c \in NextSlot : Call(c, "state", "get") /\ mine' = {c}
    <3>1. PICK c \in Slot : Call(c, "state", "get") /\ mine' = {c}
      BY <2>2 DEF NextSlot
    <3>2. Calls' \subseteq Calls \cup {c}
      BY <1>0, <3>1 DEF Call, NodeTypeOK, Outstanding
    <3> QED
      BY <1>0, <2>0, <3>1, <3>2 DEF OwnCall
  <2> QED
    BY <1>7, <2>1, <2>2 DEF FindService
<1>8. ASSUME NEW c \in Slot, Reply(c) PROVE OwnCall'
  <2>0. c \in mine /\ step # "idle" /\ mine = {c}
    BY <1>0, <1>8 DEF Reply, OwnCall, StateTypeOK, Waits
  <2>1. CASE End("lifecycle_error")
    BY <1>0, <1>3, <2>0, <2>1, EndGivesUp
  <2>2. CASE UNCHANGED mine /\ \E kind \in Kind : Call(c, "state", kind)
    <3>1. Calls' \subseteq Calls \cup {c}
      BY <1>0, <2>2 DEF Call, NodeTypeOK, Outstanding
    <3> QED
      BY <1>0, <2>0, <2>2, <3>1 DEF OwnCall
  <2>3. CASE mine' = {} /\ calls' = [calls EXCEPT ![c] = Free]
    <3>1. Calls' \subseteq Calls \ {c}
      BY <1>0, <2>3, CallFacts DEF NodeTypeOK, Outstanding
    <3> QED
      BY <1>0, <2>0, <2>3, <3>1 DEF OwnCall
  <2>4. \A t : KindOf(t) \in Kind
    BY DEF KindOf, Kind, Change
  <2> QED
    BY <1>8, <2>1, <2>2, <2>3, <2>4 DEF Reply
<1>9. ASSUME NEW c \in Slot, Forget(c) PROVE OwnCall'
  <2>1. Calls' \subseteq Calls /\ UNCHANGED mine
    BY <1>0, <1>9, CallFacts DEF Forget, stateVars, NodeTypeOK, Outstanding
  <2> QED
    BY <1>0, <2>1 DEF OwnCall
<1> QED
  BY <1>4, <1>5, <1>6, <1>7, <1>8, <1>9 DEF StateStep, Thread

LEMMA OwnStep == ActionInv /\ OwnCall /\ [ActionNext]_actionVars => OwnCall'
<1> SUFFICES ASSUME ActionInv, OwnCall, [ActionNext]_actionVars PROVE OwnCall'
  OBVIOUS
<1>1. CASE Next /\ UNCHANGED stateVars
  BY <1>1, NextKeepsState DEF ActionInv, OwnCall, GaveUp, stateVars
<1>2. CASE StateStep
  BY <1>2, StateStepOwn
<1>3. CASE UNCHANGED actionVars
  BY <1>3 DEF actionVars, vars, nodeVars, stateVars, OwnCall, GaveUp, Outstanding
<1> QED
  BY <1>1, <1>2, <1>3 DEF ActionNext, StateStep

LEMMA OwnInit == ActionInit => OwnCall
  BY CallFacts DEF ActionInit, Init, NodeInit, OwnCall, Outstanding

\* Which transitions may race on a skill (supervisor_node.py:12, :87), for any
\* number of late answers, crashes and executions of the State beside it.
THEOREM RacesAreExplained == ActionSpec => []RacesExplained
<1>1. ActionInv /\ OwnCall => RacesExplained
  <2> SUFFICES ASSUME ActionInv, OwnCall PROVE RacesExplained
    OBVIOUS
  <2>1. Cardinality(Transitions("supervisor")) <= Cardinality(Pending)
    BY PendingCount, FS_Subset DEF Transitions, Pending
  <2>2. Cardinality(Pending) <= late + 1
    BY PendingCount, LateAssumption DEF ActionInv, TypeOK, FlagCovers
  <2>3. Cardinality(Transitions("supervisor")) \in Nat
    BY PendingCount, FS_Subset, FS_CardinalityType DEF Transitions, Pending
  <2>4. \A c, d \in Transitions("state") : c # d => GaveUp
    BY DEF OwnCall, Transitions
  <2> QED
    BY <2>1, <2>2, <2>3, <2>4, PendingCount, LateAssumption
       DEF RacesExplained, ActionInv, TypeOK
<1> QED
  BY <1>1, OwnInit, OwnStep, ActionInductive, PTL DEF ActionSpec
=============================================================================
