----------------------- MODULE ParallelCompositeProofs -----------------------
(***************************************************************************)
(* Theorems about ParallelComposite, for any regions and mappings: a       *)
(* winner is final and is the mapped outcome of a region, an error means   *)
(* that every region failed, and the last raise of the code is out of      *)
(* reach.                                                                  *)
(***************************************************************************)
EXTENDS ParallelComposite, Integers, SequenceTheorems, TLAPS

\* Appending keeps what a sequence holds and adds one element.
LEMMA AppendHolds ==
  ASSUME NEW S, NEW s \in Seq(S), NEW x \in S
  PROVE  /\ Append(s, x) \in Seq(S)
         /\ \E i \in DOMAIN Append(s, x) : Append(s, x)[i] = x
         /\ \A i \in DOMAIN s : i \in DOMAIN Append(s, x) /\ Append(s, x)[i] = s[i]
<1>1. /\ Append(s, x) \in Seq(S)
      /\ Len(Append(s, x)) = Len(s) + 1
      /\ \A i \in 1..Len(s) : Append(s, x)[i] = s[i]
      /\ Append(s, x)[Len(s) + 1] = x
  BY AppendProperties
<1>2. DOMAIN s = 1..Len(s) /\ DOMAIN Append(s, x) = 1..(Len(s) + 1) /\ Len(s) \in Nat
  BY <1>1, LenProperties
<1> QED
  BY <1>1, <1>2

\* A region that left its lock section without a winner there reported.
Reported ==
  \A r \in Region : pc[r] \in {"leaving", "dead"} /\ winner = Unmapped => Failed(r)

\* The winner is what some region behind its lock section stands for.
WinnerFromRegion ==
  winner # Unmapped =>
    \E r \in Recorded : raw[r] \in Raw /\ Mapping[r][raw[r]] = winner

\* What the caller has found out stays true.
CallerKnows ==
  /\ pc[Caller] # "starting" => NotStarted = {}
  /\ pc[Caller] = "last" => \A r \in Region : pc[r] = "dead"
  /\ result.kind = "outcome" => winner # Unmapped /\ result.of = winner
  /\ result.kind = "error" => winner = Unmapped /\ \A r \in Region : pc[r] = "dead"
  /\ result.kind # "nothing"

IInv == TypeOK /\ Reported /\ WinnerFromRegion /\ CallerKnows

LEMMA InitIInv == Init => IInv
<1> SUFFICES ASSUME Init PROVE IInv
  OBVIOUS
<1> USE RegionAssumption, MappingAssumption DEF Init
<1>1. TypeOK
  <2>1. context \in [Thread -> BOOLEAN]
    BY Zenon
  <2>2. errors \in Seq(Region)
    BY EmptySeq
  <2>3. pc \in [Thread -> {"starting", "new"}] /\ pc[Caller] = "starting"
        /\ \A r \in Region : pc[r] = "new"
    BY DEF Thread
  <2> QED
    BY <2>1, <2>2, <2>3 DEF TypeOK, Ending
<1>2. Reported /\ WinnerFromRegion
  BY DEF Reported, WinnerFromRegion, Thread
<1>3. CallerKnows
  BY DEF CallerKnows, Thread, Ending
<1> QED
  BY <1>1, <1>2, <1>3 DEF IInv

LEMMA TypeStep == TypeOK /\ [Next]_vars => TypeOK'
<1> SUFFICES ASSUME TypeOK, [Next]_vars PROVE TypeOK'
  OBVIOUS
<1> USE RegionAssumption, MappingAssumption DEF TypeOK, Thread, Goto, Ending
<1>1. CASE UNCHANGED vars
  BY <1>1 DEF vars
<1>2. CASE Request
  BY <1>2 DEF Request
<1>3. CASE CallerStep
  <2>1. CASE StartedAll BY <2>1 DEF StartedAll
  <2>2. CASE PollWinner
    <3>1. CASE winner # Unmapped BY <2>2, <3>1 DEF PollWinner, Finish
    <3>2. CASE winner = Unmapped BY <2>2, <3>2 DEF PollWinner
    <3> QED BY <3>1, <3>2
  <2>3. CASE PollAlive BY <2>3 DEF PollAlive
  <2>4. CASE PollCancel BY <2>4 DEF PollCancel, Finish
  <2>5. CASE LastLook
    <3>1. errors # << >> => errors[1] \in Region
      OBVIOUS
    <3> QED BY <2>5, <3>1 DEF LastLook, Finish
  <2> QED BY <1>3, <2>1, <2>2, <2>3, <2>4, <2>5 DEF CallerStep
<1>4. ASSUME NEW r \in Region, RegionStep(r) PROVE TypeOK'
  <2>1. CASE Start(r) BY <2>1 DEF Start
  <2>2. CASE Return(r) BY <2>2 DEF Return
  <2>6. CASE Raise(r) BY <2>6 DEF Raise
  <2>3. CASE RecordError(r) BY <2>3 DEF RecordError
  <2>4. CASE RecordOutcome(r)
    <3>1. raw[r] \in Raw /\ Mapping[r][raw[r]] \in Target \cup {Unmapped}
      BY <2>4 DEF RecordOutcome
    <3>2. winner' \in Target \cup {Unmapped}
      BY <2>4, <3>1 DEF RecordOutcome
    <3>3. errors' \in Seq(Region)
      <4>1. errors' \in {errors, Append(errors, r)}
        BY <2>4 DEF RecordOutcome
      <4>2. errors \in Seq(Region)
        OBVIOUS
      <4> HIDE DEF IInv, TypeOK
      <4> QED BY <4>1, <4>2, AppendHolds
    <3>4. /\ pc[r] = "returned" /\ pc' = [pc EXCEPT ![r] = "leaving"]
          /\ UNCHANGED <<raw, context, cancelled, result>>
      BY <2>4 DEF RecordOutcome
    <3> QED BY <3>2, <3>3, <3>4
  <2>5. CASE Exit(r) BY <2>5 DEF Exit
  <2> QED BY <1>4, <2>1, <2>2, <2>3, <2>4, <2>5, <2>6 DEF RegionStep
<1> QED
  BY <1>1, <1>2, <1>3, <1>4 DEF Next

\* A region reports or finds a winner in its lock section; a winner is never
\* taken back.
LEMMA ReportStep == IInv /\ [Next]_vars => Reported' /\ WinnerFromRegion'
<1> SUFFICES ASSUME IInv, [Next]_vars PROVE Reported' /\ WinnerFromRegion'
  OBVIOUS
<1> USE RegionAssumption, MappingAssumption
    DEF IInv, TypeOK, Thread, Goto, Reported, WinnerFromRegion, Recorded, Failed
<1>1. CASE UNCHANGED vars
  BY <1>1 DEF vars
<1>2. CASE Request
  BY <1>2 DEF Request
<1>3. CASE CallerStep
  <2>1. /\ \A r \in Region : pc'[r] = pc[r]
        /\ UNCHANGED <<raw, winner, errors>>
    BY <1>3 DEF CallerStep, StartedAll, PollWinner, PollAlive, PollCancel, LastLook,
       Finish
  <2> QED BY <2>1
<1>4. ASSUME NEW r \in Region, RegionStep(r) PROVE Reported' /\ WinnerFromRegion'
  <2>1. CASE Start(r) BY <2>1 DEF Start
  <2>2. CASE Return(r) BY <2>2 DEF Return
  <2>3. CASE Raise(r) BY <2>3 DEF Raise
  <2>4. CASE RecordError(r)
    <3>1. /\ \E i \in DOMAIN errors' : errors'[i] = r
          /\ \A q \in Region : Failed(q) => Failed(q)'
      BY <2>4, AppendHolds DEF RecordError
    <3>2. /\ pc[r] = "raised" /\ pc' = [pc EXCEPT ![r] = "leaving"]
          /\ UNCHANGED <<raw, winner>>
      BY <2>4 DEF RecordError
    <3> QED BY <3>1, <3>2
  <2>5. CASE RecordOutcome(r)
    <3>1. raw[r] \in Raw
      BY <2>5 DEF RecordOutcome
    <3>2. \A q \in Region : Failed(q) => Failed(q)'
      <4>1. errors' \in {errors, Append(errors, r)}
        BY <2>5 DEF RecordOutcome
      <4>2. errors \in Seq(Region)
        OBVIOUS
      <4> HIDE DEF IInv, TypeOK
      <4> QED BY <4>1, <4>2, AppendHolds
    <3>3. winner' = Unmapped => \E i \in DOMAIN errors' : errors'[i] = r
      <4>1. winner' = Unmapped => errors' = Append(errors, r)
        <5>1. CASE winner # Unmapped BY <2>5, <5>1 DEF RecordOutcome
        <5>2. CASE winner = Unmapped /\ Mapping[r][raw[r]] = Unmapped
          BY <2>5, <5>2 DEF RecordOutcome
        <5>3. CASE winner = Unmapped /\ Mapping[r][raw[r]] # Unmapped
          BY <2>5, <5>3 DEF RecordOutcome
        <5> QED BY <5>1, <5>2, <5>3
      <4>2. errors \in Seq(Region)
        OBVIOUS
      <4> HIDE DEF IInv, TypeOK
      <4> QED BY <4>1, <4>2, AppendHolds
    <3>4. /\ pc[r] = "returned" /\ pc' = [pc EXCEPT ![r] = "leaving"]
          /\ raw' = raw
      BY <2>5 DEF RecordOutcome
    <3>5. winner # Unmapped => winner' = winner
      BY <2>5 DEF RecordOutcome
    <3>6. winner = Unmapped /\ winner' # Unmapped => winner' = Mapping[r][raw[r]]
      BY <2>5 DEF RecordOutcome
    <3>7. Reported'
      BY <3>2, <3>3, <3>4, <3>5
    <3>8. WinnerFromRegion'
      <4>1. CASE winner # Unmapped
        BY <3>4, <3>5, <4>1
      <4>2. CASE winner = Unmapped
        BY <3>1, <3>4, <3>6, <4>2
      <4> QED BY <4>1, <4>2
    <3> QED BY <3>7, <3>8
  <2>6. CASE Exit(r) BY <2>6 DEF Exit
  <2> QED BY <1>4, <2>1, <2>2, <2>3, <2>4, <2>5, <2>6 DEF RegionStep
<1> QED
  BY <1>1, <1>2, <1>3, <1>4 DEF Next

\* When all regions are dead and none won, every one of them has reported.
LEMMA AllReported ==
  ASSUME IInv, pc[Caller] = "last", winner = Unmapped
  PROVE  errors # << >>
<1>1. PICK r \in Region : TRUE
  BY RegionAssumption
<1>2. Failed(r)
  BY <1>1 DEF IInv, CallerKnows, Reported
<1> QED
  BY <1>2 DEF Failed

LEMMA CallerStepKnows == IInv /\ [Next]_vars => CallerKnows'
<1> SUFFICES ASSUME IInv, [Next]_vars PROVE CallerKnows'
  OBVIOUS
<1> USE RegionAssumption, MappingAssumption
    DEF IInv, TypeOK, Thread, Goto, CallerKnows, NotStarted, Ending
<1>1. CASE UNCHANGED vars
  BY <1>1 DEF vars
<1>2. CASE Request
  BY <1>2 DEF Request
<1>3. CASE CallerStep
  <2>1. CASE StartedAll BY <2>1 DEF StartedAll
  <2>2. CASE PollWinner BY <2>2 DEF PollWinner, Finish
  <2>3. CASE PollAlive BY <2>3 DEF PollAlive, Alive
  <2>4. CASE PollCancel BY <2>4 DEF PollCancel, Finish
  <2>5. CASE LastLook BY <2>5, AllReported DEF LastLook, Finish
  <2> QED BY <1>3, <2>1, <2>2, <2>3, <2>4, <2>5 DEF CallerStep
<1>4. ASSUME NEW r \in Region, RegionStep(r) PROVE CallerKnows'
  <2>1. CASE Start(r) BY <2>1 DEF Start
  <2>2. CASE Return(r) BY <2>2 DEF Return
  <2>3. CASE Raise(r) BY <2>3 DEF Raise
  <2>4. CASE RecordError(r) BY <2>4 DEF RecordError
  <2>5. CASE RecordOutcome(r) BY <2>5 DEF RecordOutcome
  <2>6. CASE Exit(r) BY <2>6 DEF Exit
  <2> QED BY <1>4, <2>1, <2>2, <2>3, <2>4, <2>5, <2>6 DEF RegionStep
<1> QED
  BY <1>1, <1>2, <1>3, <1>4 DEF Next

LEMMA Inductive == Spec => []IInv
<1>1. IInv /\ [Next]_vars => IInv'
  BY TypeStep, ReportStep, CallerStepKnows DEF IInv
<1> QED
  BY InitIInv, <1>1, PTL DEF Spec

-----------------------------------------------------------------------------
(* What follows from it.                                                   *)

\* The types hold for any number of regions, whatever they return or raise.
THEOREM TypeCorrect == Spec => []TypeOK
<1>1. IInv => TypeOK
  BY DEF IInv
<1> QED
  BY <1>1, Inductive, PTL

\* An outcome of the Parallel is that of a region; it raises only when every
\* region is over and failed; and it never ends without an explanation.
THEOREM EndingsJustified == Spec => []ResultJustified
<1>1. IInv => ResultJustified
  BY MappingAssumption DEF IInv, TypeOK, OutcomeFromRegion, ErrorOnlyIfAllFailed,
     NeverNothing, ResultJustified, CallerKnows, Reported, WinnerFromRegion
<1> QED
  BY <1>1, Inductive, PTL

\* The first region to win is the winner for good.
THEOREM FirstWins == Spec => WinnerFinal
<1>1. [Next]_vars => [winner # Unmapped => winner' = winner]_vars
  BY DEF Next, vars, Request, CallerStep, StartedAll, PollWinner, PollAlive, PollCancel,
     LastLook, Finish, RegionStep, Start, Return, Raise, RecordError, RecordOutcome, Exit
<1> QED
  BY <1>1, PTL DEF Spec, WinnerFinal
=============================================================================
