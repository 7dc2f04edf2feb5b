---------------------------- MODULE SpecDispatch ----------------------------
(***************************************************************************)
(* How the executor gets the SubJob it is asked to run: _build_subjob and  *)
(* _load_spec_from_repository of hfsm_executor_node.py, with the task      *)
(* repository they ask.  The bodies that clients save are names of         *)
(* documents; what they and the classes of the registry build is given     *)
(* (SpecCharts takes it from the spec loader).                             *)
(***************************************************************************)
EXTENDS TaskRepository

CONSTANTS Class,     \* the ids that are registered
          ClassTree, \* the SubJob a registered id constructs, or NoTree
          BodyTree,  \* the SubJob a savable body builds, or NoTree
          NoTree     \* no SubJob

VARIABLES
  job,    \* the dispatch under way: its stage, its id, the file it got
  tree,   \* the SubJob built last
  expect  \* the body acknowledged for job.id when it was dispatched; None
          \* if there was none or another save of it began before the answer

dispatchVars == <<job, tree, expect>>
allVars == <<vars, dispatchVars>>

Job(stage, i, got) == [at |-> stage, id |-> i, got |-> got]
NoJob == Job("idle", RetryId, None)  \* any id

DispatchInit ==
  /\ Init
  /\ job = NoJob
  /\ tree = NoTree
  /\ expect = None

\* A class of the registry goes before a file of the repository.
BuildClass(i) ==
  /\ job.at = "idle"
  /\ i \in Class
  /\ tree' = ClassTree[i]
  /\ job' = Job("done", i, None)
  /\ expect' = None
  /\ UNCHANGED vars

AskRepository(i) ==
  /\ job.at = "idle"
  /\ i \notin Class
  /\ job' = Job("asked", i, None)
  /\ expect' = acked[i]
  /\ UNCHANGED <<vars, tree>>

\* The repository serves the request between two others.
Answer ==
  /\ job.at = "asked"
  /\ at = "idle"
  /\ job' = Job("answered", job.id, Load(job.id))
  /\ UNCHANGED <<vars, tree, expect>>

\* No service within 2 s, or no answer within 3 s; a later one is dropped.
NoAnswer ==
  /\ job.at = "asked"
  /\ tree' = NoTree
  /\ job' = Job("done", job.id, None)
  /\ UNCHANGED <<vars, expect>>

\* Nothing found, no JSON, no spec, or not that of a BehaviorSM: no SubJob.
BuildAnswer ==
  /\ job.at = "answered"
  /\ tree' = IF job.got \in Savable THEN BodyTree[job.got] ELSE NoTree
  /\ job' = [job EXCEPT !.at = "done"]
  /\ UNCHANGED <<vars, expect>>

Finish ==
  /\ job.at = "done"
  /\ job' = NoJob
  /\ tree' = NoTree
  /\ expect' = None
  /\ UNCHANGED vars

DispatchStep == \/ Answer \/ NoAnswer \/ BuildAnswer \/ Finish
                \/ \E i \in Id \cup Class : BuildClass(i) \/ AskRepository(i)

RepositoryStep ==
  /\ Next
  /\ expect' = IF job.at = "asked" /\ acked'[job.id] # expect THEN None ELSE expect
  /\ UNCHANGED <<job, tree>>

DispatchSpec == DispatchInit /\ [][DispatchStep \/ RepositoryStep]_allVars
FairDispatchSpec == DispatchSpec /\ Fairness

-----------------------------------------------------------------------------
(* Properties.                                                             *)

\* A dispatch that follows an acknowledged save, with no other save of that
\* id begun before the repository answers, gets the document that was saved:
\* no torn file, no older one, no legacy one.  If it does not run, then the
\* answer was too late or the document builds no BehaviorSM.
DispatchSeesSave ==
  /\ job.at = "answered" /\ expect # None => job.got = expect
  /\ job.at = "done" /\ expect # None /\ tree # NoTree
       => tree = BodyTree[expect]
=============================================================================
