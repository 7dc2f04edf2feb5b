-------------------------- MODULE ParallelComposite --------------------------
(***************************************************************************)
(* One execution of a Parallel state with the first_wins policy            *)
(* (mw_hfsm_engine/parallel.py): a thread per region, a winner and a list  *)
(* of errors shared under a lock, and the calling thread, which polls for  *)
(* a winner, for the end of the region threads and for a cancel request.   *)
(*                                                                         *)
(* What a region's state computes is left open: it returns some outcome,   *)
(* raises, or never returns.  The cancel token travels in a contextvar     *)
(* (cancel.py): context[t] says whether thread t has it installed.         *)
(***************************************************************************)
EXTENDS Sequences

CONSTANTS Region,    \* names of the regions
          Raw,       \* outcomes their states may return
          Target,    \* outcomes of the Parallel itself
          Unmapped,  \* "not in region.outcomes"
          Mapping,   \* Region.outcomes of every region
          Caller     \* the thread that executes the Parallel

ASSUME RegionAssumption == Region # {} /\ Caller \notin Region
ASSUME MappingAssumption ==
  Unmapped \notin Target \cup Raw /\ Mapping \in [Region -> [Raw -> Target \cup {Unmapped}]]

VARIABLES
  pc,        \* where each thread stands
  raw,       \* what region.state.execute returned
  winner,    \* winner['value'], Unmapped while the dict is empty
  errors,    \* the regions that reported an error, in order
  context,   \* whether the cancel token is installed in a thread's context
  cancelled, \* whether the token is set
  result     \* how the execution ended

vars == <<pc, raw, winner, errors, context, cancelled, result>>

Thread == Region \cup {Caller}
NotStarted == {r \in Region : pc[r] = "new"}
\* t.is_alive()
Alive == {r \in Region : pc[r] \in {"running", "returned", "raised", "leaving"}}

\* How an execution ends: with an outcome of the Parallel, the error of a
\* region, CancelledError, or the TransitionError that closes the code.
Ending(kind, of) == [kind |-> kind, of |-> of]

\* The token is absent from the caller's context when the Parallel runs
\* inside a region of another one, or without a dispatcher.
Init ==
  /\ pc = [t \in Thread |-> IF t = Caller THEN "starting" ELSE "new"]
  /\ raw = [r \in Region |-> Unmapped]
  /\ winner = Unmapped
  /\ errors = << >>
  /\ \E installed \in BOOLEAN :
       context = [t \in Thread |-> t = Caller /\ installed]
  /\ cancelled = FALSE
  /\ result = Ending("pending", Unmapped)

Goto(t, from, to) == pc[t] = from /\ pc' = [pc EXCEPT ![t] = to]

\* The dispatcher sets the token, from a thread of its own.
Request ==
  /\ ~cancelled
  /\ cancelled' = TRUE
  /\ UNCHANGED <<pc, raw, winner, errors, context, result>>

-----------------------------------------------------------------------------
(* The region threads.                                                     *)

\* t.start(): the thread begins with an empty context.
Start(r) ==
  /\ pc[Caller] = "starting"
  /\ Goto(r, "new", "running")
  /\ context' = [context EXCEPT ![r] = FALSE]
  /\ UNCHANGED <<raw, winner, errors, cancelled, result>>

\* region.state.execute returns.
Return(r) ==
  /\ Goto(r, "running", "returned")
  /\ \E o \in Raw : raw' = [raw EXCEPT ![r] = o]
  /\ UNCHANGED <<winner, errors, context, cancelled, result>>

\* It raises, CancelledError included.
Raise(r) ==
  /\ Goto(r, "running", "raised")
  /\ UNCHANGED <<raw, winner, errors, context, cancelled, result>>

\* The except clause.
RecordError(r) ==
  /\ Goto(r, "raised", "leaving")
  /\ errors' = Append(errors, r)
  /\ UNCHANGED <<raw, winner, context, cancelled, result>>

\* Mutant: the winner is not looked at again under the lock.
RecordOutcome_Overwrites(r) ==
  /\ Goto(r, "returned", "leaving")
  /\ IF Mapping[r][raw[r]] = Unmapped
       THEN errors' = Append(errors, r) /\ UNCHANGED winner
       ELSE winner' = Mapping[r][raw[r]] /\ UNCHANGED errors
  /\ UNCHANGED <<raw, context, cancelled, result>>

\* Mutant: the mapping is forgotten.
RecordOutcome_Raw(r) ==
  /\ Goto(r, "returned", "leaving")
  /\ winner' = IF winner = Unmapped THEN raw[r] ELSE winner
  /\ UNCHANGED <<raw, errors, context, cancelled, result>>

\* The lock section after a return: too late, an unmapped outcome, or won.
RecordOutcome(r) ==
  /\ Goto(r, "returned", "leaving")
  /\ IF winner # Unmapped
       THEN UNCHANGED <<winner, errors>>
       ELSE IF Mapping[r][raw[r]] = Unmapped
         THEN errors' = Append(errors, r) /\ UNCHANGED winner
         ELSE winner' = Mapping[r][raw[r]] /\ UNCHANGED errors
  /\ UNCHANGED <<raw, context, cancelled, result>>

\* The thread is alive until its function has returned.
Exit(r) ==
  /\ Goto(r, "leaving", "dead")
  /\ UNCHANGED <<raw, winner, errors, context, cancelled, result>>

RegionStep(r) == \/ Start(r) \/ Return(r) \/ Raise(r) \/ RecordError(r)
                 \/ RecordOutcome(r) \/ Exit(r)

-----------------------------------------------------------------------------
(* The calling thread.                                                     *)

Finish(with) ==
  /\ pc' = [pc EXCEPT ![Caller] = "done"]
  /\ result' = with

StartedAll ==
  /\ NotStarted = {}
  /\ Goto(Caller, "starting", "poll")
  /\ UNCHANGED <<raw, winner, errors, context, cancelled, result>>

\* The top of the loop, under the lock.
PollWinner ==
  /\ pc[Caller] = "poll"
  /\ IF winner # Unmapped
       THEN Finish(Ending("outcome", winner))
       ELSE Goto(Caller, "poll", "alive") /\ UNCHANGED result
  /\ UNCHANGED <<raw, winner, errors, context, cancelled>>

\* all(not t.is_alive() for t in threads); a dead thread stays dead, so the
\* reads need not be atomic.
PollAlive ==
  /\ \/ Alive = {} /\ Goto(Caller, "alive", "last")
     \/ Alive # {} /\ Goto(Caller, "alive", "cancel")
  /\ UNCHANGED <<raw, winner, errors, context, cancelled, result>>

\* Mutant: sleeps on without a look at the token.
PollCancel_Ignored ==
  /\ Goto(Caller, "cancel", "poll")
  /\ UNCHANGED <<raw, winner, errors, context, cancelled, result>>

\* raise_if_cancelled(), then the sleep.
PollCancel ==
  /\ pc[Caller] = "cancel"
  /\ IF context[Caller] /\ cancelled
       THEN Finish(Ending("cancelled", Unmapped))
       ELSE Goto(Caller, "cancel", "poll") /\ UNCHANGED result
  /\ UNCHANGED <<raw, winner, errors, context, cancelled>>

\* Mutant: relies on the look at the winner that opened the iteration.
LastLook_NoRecheck ==
  /\ pc[Caller] = "last"
  /\ Finish(IF errors # << >> THEN Ending("error", errors[1])
            ELSE Ending("nothing", Unmapped))
  /\ UNCHANGED <<raw, winner, errors, context, cancelled>>

\* All regions are dead: the winner is looked at once more.
LastLook ==
  /\ pc[Caller] = "last"
  /\ Finish(IF winner # Unmapped THEN Ending("outcome", winner)
            ELSE IF errors # << >> THEN Ending("error", errors[1])
            ELSE Ending("nothing", Unmapped))
  /\ UNCHANGED <<raw, winner, errors, context, cancelled>>

CallerStep == StartedAll \/ PollWinner \/ PollAlive \/ PollCancel \/ LastLook

-----------------------------------------------------------------------------
Next == Request \/ CallerStep \/ \E r \in Region : RegionStep(r)

Spec == Init /\ [][Next]_vars

\* Threads that can run do.  A region whose state ends by itself is not
\* assumed; one that polls a token it can see, and finds it set, raises.
PollRaises(r) == context[r] /\ cancelled /\ Raise(r)
Fairness == /\ WF_vars(CallerStep)
            /\ \A r \in Region :
                 /\ WF_vars(Start(r)) /\ WF_vars(RecordError(r))
                 /\ WF_vars(RecordOutcome(r)) /\ WF_vars(Exit(r))
                 /\ WF_vars(PollRaises(r))
FairSpec == Spec /\ Fairness

-----------------------------------------------------------------------------
(* Properties.                                                             *)

TypeOK ==
  /\ pc \in [Thread -> {"starting", "poll", "alive", "cancel", "last", "done", "new",
                        "running", "returned", "raised", "leaving", "dead"}]
  /\ pc[Caller] \in {"starting", "poll", "alive", "cancel", "last", "done"}
  /\ \A r \in Region : pc[r] \in {"new", "running", "returned", "raised", "leaving",
                                  "dead"}
  /\ raw \in [Region -> Raw \cup {Unmapped}]
  /\ \A r \in Region : pc[r] = "returned" => raw[r] \in Raw
  /\ winner \in Target \cup {Unmapped}
  /\ errors \in Seq(Region)
  /\ context \in [Thread -> BOOLEAN]
  /\ cancelled \in BOOLEAN
  /\ result \in [kind : {"pending", "outcome", "error", "cancelled", "nothing"},
                 of : Target \cup Region \cup {Unmapped}]

\* Regions whose lock section is behind them, and those of them whose
\* outcome is mapped.
Recorded == {r \in Region : pc[r] \in {"leaving", "dead"}}
Failed(r) == \E i \in DOMAIN errors : errors[i] = r

\* An outcome of the Parallel is the mapped outcome of one of its regions.
OutcomeFromRegion ==
  result.kind = "outcome" =>
    \E r \in Recorded : raw[r] # Unmapped /\ Mapping[r][raw[r]] = result.of

\* The Parallel raises only when every region is over and none of them won,
\* though the winner may be declared at any point of the caller's loop.
ErrorOnlyIfAllFailed ==
  result.kind = "error" =>
    /\ winner = Unmapped
    /\ \A r \in Region : pc[r] = "dead" /\ Failed(r)

\* The last raise of the code is out of reach: a region that is over has
\* won, has been beaten, or has reported an error.
NeverNothing == result.kind # "nothing"

\* What the Parallel returns or raises is what its regions came to.
ResultJustified == OutcomeFromRegion /\ ErrorOnlyIfAllFailed /\ NeverNothing

\* The first region to win is the winner for good.
WinnerFinal == [][winner # Unmapped => winner' = winner]_vars

\* Whatever the regions do, a winner, the end of every region and, if the
\* token is in its context, a cancel request each release the caller.
MustRelease == \/ winner # Unmapped
               \/ \A r \in Region : pc[r] = "dead"
               \/ cancelled /\ context[Caller]
CallerReleased == MustRelease ~> pc[Caller] = "done"

\* A cancel request stops the regions too: "every descendant State can poll"
\* the token (behavior_sm.py:71-72).  A thread does not inherit its
\* creator's context, so the states of a region never see it.
CancelStopsRegions ==
  (cancelled /\ context[Caller]) ~> (\A r \in Region : pc[r] \in {"new", "dead"})
=============================================================================
