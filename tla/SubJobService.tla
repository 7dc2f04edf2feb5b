--------------------------- MODULE SubJobService ---------------------------
(***************************************************************************)
(* What the ExecuteSubJob server promises, whatever its threads do: a goal *)
(* is turned away only while a SubJob runs, an accepted goal runs at most  *)
(* once, its result is given after the run has ended and never changes,    *)
(* and the result is "canceled" only if a cancel request was made.  With   *)
(* Exclusive, two SubJobs never run at the same time.                      *)
(***************************************************************************)
CONSTANTS Goal, Exclusive

VARIABLES phase,   \* how far each goal has come
          wanted   \* the goals a cancel request was made for

vars == <<phase, wanted>>

Result == {"succeeded", "aborted", "canceled"}
Phase == {"new", "accepted", "rejected", "running", "ended"} \cup Result

Running == {g \in Goal : phase[g] = "running"}

Init ==
  /\ phase = [g \in Goal |-> "new"]
  /\ wanted = {}

Move(g, from, to) ==
  /\ phase[g] = from
  /\ phase' = [phase EXCEPT ![g] = to]
  /\ UNCHANGED wanted

Accept(g) == Move(g, "new", "accepted")
Reject(g) == Running # {} /\ Move(g, "new", "rejected")
Start(g) == (Exclusive => Running = {}) /\ Move(g, "accepted", "running")
Stop(g) == Move(g, "running", "ended")
Report(g) == \E r \in Result : /\ r = "canceled" => g \in wanted
                               /\ Move(g, "ended", r)

Cancel(g) ==
  /\ phase[g] \in {"accepted", "running", "ended"}
  /\ wanted' = wanted \cup {g}
  /\ UNCHANGED phase

Next == \E g \in Goal : \/ Accept(g) \/ Reject(g) \/ Start(g) \/ Stop(g)
                        \/ Report(g) \/ Cancel(g)

Spec == Init /\ [][Next]_vars

\* A SubJob may run for ever, but an accepted goal is started and a SubJob
\* that stopped is reported.
FairSpec == Spec /\ \A g \in Goal : WF_vars(Start(g)) /\ WF_vars(Report(g))
=============================================================================
