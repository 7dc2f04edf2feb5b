----------------------------- MODULE SubJobRun -----------------------------
(***************************************************************************)
(* What BehaviorSM.run promises to the executor that calls it, whatever    *)
(* tree of states it runs: one declared outcome or one exception, a cancel *)
(* only on request, and a published path that exists exactly while it      *)
(* runs.  HfsmExecutor rests on it (RunEnter, RunStep, RunCancel, RunEnd). *)
(***************************************************************************)
CONSTANT Declared  \* the outcomes of the SubJob

VARIABLES run,     \* "idle", "running" or what came out of it
          wanted,  \* a cancel was requested
          shown    \* a path is published

vars == <<run, wanted, shown>>

Result == Declared \cup {"error", "Cancelled"}

Init == run = "idle" /\ wanted = FALSE /\ shown = FALSE

\* A run may fail before anything is published.
Start == \/ run = "idle" /\ run' = "running" /\ shown' = TRUE /\ UNCHANGED wanted
         \/ run = "idle" /\ run' = "error" /\ UNCHANGED <<wanted, shown>>

Want == wanted' = TRUE /\ UNCHANGED <<run, shown>>

Finish == /\ run = "running"
          /\ run' \in Result
          /\ run' = "Cancelled" => wanted
          /\ shown' = FALSE
          /\ UNCHANGED wanted

Next == Start \/ Want \/ Finish
Spec == Init /\ [][Next]_vars
=============================================================================
