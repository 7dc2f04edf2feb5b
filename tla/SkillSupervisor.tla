--------------------------- MODULE SkillSupervisor ---------------------------
(***************************************************************************)
(* The skill supervisor (mw_skill_supervisor/supervisor_node.py) and one   *)
(* of the skills it manages; it treats each skill alone.  Its executor is  *)
(* single threaded: the poll timer and the done callbacks of its calls are *)
(* atomic, and anything may happen between them.                           *)
(***************************************************************************)
EXTENDS SkillNode

CONSTANT MaxLate  \* how often an answer takes longer than the deadline

ASSUME LateAssumption == MaxLate \in Nat

VARIABLES
  inFlight,  \* in_flight
  expired,   \* time.monotonic() > in_flight_deadline
  late       \* how often the deadline passed on a call that was not lost

supVars == <<inFlight, expired, late>>
vars == <<nodeVars, supVars>>

Init ==
  /\ NodeInit
  /\ inFlight = FALSE
  /\ expired = FALSE
  /\ late = 0

Pending == Outstanding("supervisor")

\* IN_FLIGHT_TIMEOUT_SEC pass, on a lost call or on one that is just late.
Expire ==
  /\ inFlight /\ ~expired
  /\ expired' = TRUE
  /\ \/ Pending = {} /\ UNCHANGED late
     \/ Pending # {} /\ late < MaxLate /\ late' = late + 1
  /\ UNCHANGED <<nodeVars, inFlight>>

\* Mutant: polls whatever is in flight.
Kick_NoFlag ==
  /\ seen
  /\ inFlight' = TRUE /\ expired' = FALSE
  /\ \E c \in NextSlot : Call(c, "supervisor", "get")
  /\ UNCHANGED <<life, seen, crashes, late>>

\* _kick: skip while a call is in flight and in time; else ask for the state.
Kick ==
  /\ inFlight => expired
  /\ \/ /\ ~seen /\ inFlight
        /\ inFlight' = FALSE /\ expired' = FALSE
        /\ UNCHANGED calls
     \/ /\ seen
        /\ inFlight' = TRUE /\ expired' = FALSE
        /\ \E c \in NextSlot : Call(c, "supervisor", "get")
  /\ UNCHANGED <<life, seen, crashes, late>>

\* Mutant: only configures.
Wanted_Configure(state) == IF state = "unconfigured" THEN {"configure"} ELSE {}

\* The transition towards ACTIVE, if there is one.
Wanted(state) == CASE state = "unconfigured" -> {"configure"}
                   [] state = "inactive" -> {"activate"}
                   [] OTHER -> {}

\* _on_state and _fire_transition, which restarts the deadline but does not
\* set the flag.
OnState(c) ==
  /\ Answered(c, "supervisor") /\ calls[c].kind = "get"
  /\ \/ \E kind \in Wanted(calls[c].answer) :
          /\ seen
          /\ Call(c, "supervisor", kind)
          /\ expired' = FALSE
          /\ UNCHANGED inFlight
     \/ /\ ~seen \/ Wanted(calls[c].answer) = {}
        /\ calls' = [calls EXCEPT ![c] = Free]
        /\ inFlight' = FALSE /\ expired' = FALSE
  /\ UNCHANGED <<life, seen, crashes, late>>

\* _on_transition_done.
OnTransitionDone(c) ==
  /\ Answered(c, "supervisor") /\ calls[c].kind \in Change
  /\ calls' = [calls EXCEPT ![c] = Free]
  /\ inFlight' = FALSE /\ expired' = FALSE
  /\ UNCHANGED <<life, seen, crashes, late>>

Done(c) == OnState(c) \/ OnTransitionDone(c)
Supervisor == Kick \/ \E c \in Slot : Done(c)

Next == \/ NodeNext /\ UNCHANGED supVars
        \/ Expire
        \/ Supervisor

Spec == Init /\ [][Next]_vars

\* The launch file restarts what died, discovery catches up, requests are
\* served, callbacks run, the timer ticks and time passes.
Fairness ==
  /\ WF_vars(Respawn /\ UNCHANGED supVars)
  /\ WF_vars(Discover /\ UNCHANGED supVars)
  /\ WF_vars(Expire)
  /\ WF_vars(Kick)
  /\ \A c \in Slot : WF_vars(Serve(c) /\ UNCHANGED supVars) /\ WF_vars(Done(c))
FairSpec == Spec /\ Fairness

-----------------------------------------------------------------------------
(* Properties.                                                             *)

TypeOK ==
  /\ NodeTypeOK
  /\ inFlight \in BOOLEAN /\ expired \in BOOLEAN
  /\ late \in 0..MaxLate

\* Through crashes, lost calls and deadlines the flag covers the call under
\* way: the only other ones are those whose answers are overdue.
FlagCovers ==
  Cardinality(Pending) <= late + IF inFlight /\ ~expired THEN 1 ELSE 0

\* After every crash and however late the answers are, a skill that stays up
\* is brought to ACTIVE for good, unless a transition callback of it raised.
BringsUp == <>[](life = "active") \/ <>[](life = "finalized")
=============================================================================
