----------------------------- MODULE HfsmStatus -----------------------------
(***************************************************************************)
(* The status timer of the hfsm_executor node, beside the goals and cancel *)
(* requests of HfsmExecutor: _publish_status copies the fields kept under  *)
(* _status_lock, and the active path kept by the engine under a lock of    *)
(* its own, into one HfsmExecutionStatus message.  The region threads of a *)
(* Parallel write that path as well, during the run and after it.          *)
(***************************************************************************)
EXTENDS HfsmExecutor

CONSTANT ParallelGoal  \* goals whose SubJob runs regions on own threads

ASSUME ParallelAssumption == ParallelGoal \subseteq Goal

VARIABLES
  regions,    \* SubJobs with live region threads
  livePath,   \* the path _publish_status read before it took the lock
  pubPc,      \* whether _publish_status has read it
  published   \* the last HfsmExecutionStatus message

pubVars == <<livePath, pubPc, published>>
statusVars == <<vars, regions, pubVars>>

StatusInit ==
  /\ Init
  /\ regions = {}
  /\ livePath = NoGoal
  /\ pubPc = "waiting"
  /\ published = Blank

\* A child that is a Parallel is executed.
StartRegions(g) ==
  /\ pc[g] = "running" /\ g \in ParallelGoal
  /\ regions' = regions \cup {g}
  /\ UNCHANGED <<vars, pubVars>>

\* A region thread enters or leaves a child, or ends.  It inherits no path,
\* so the one it leaves is empty, and it may outlive the run.
RegionStep(g) ==
  /\ g \in regions
  /\ regions' \in {regions, regions \ {g}}
  /\ globalPath' \in {g, NoGoal}
  /\ UNCHANGED <<goalState, pc, execVars, tokenSet, cancelVars, pubVars>>

\* active_path(), read before the lock is taken.
PublishRead ==
  /\ pubPc = "waiting"
  /\ pubPc' = "read"
  /\ livePath' = globalPath
  /\ UNCHANGED <<vars, regions, published>>

\* The lock section and the publication.
PublishSend ==
  /\ pubPc = "read"
  /\ pubPc' = "waiting"
  /\ livePath' = NoGoal
  /\ published' = [shown EXCEPT !.active = IF busy THEN livePath ELSE @]
  /\ UNCHANGED <<vars, regions>>

StatusNext == \/ Next /\ UNCHANGED <<regions, pubVars>>
              \/ \E g \in Goal : StartRegions(g) \/ RegionStep(g)
              \/ PublishRead
              \/ PublishSend

StatusSpec == StatusInit /\ [][StatusNext]_statusVars

-----------------------------------------------------------------------------
\* A published chart or userdata snapshot is of the SubJob it is published
\* with, and so is the path of a SubJob that ended.
PublishedCoherent ==
  LET own == {published.subjob, NoGoal}
  IN  /\ published.spec \in own /\ published.userdata \in own
      /\ published.status # "RUNNING" => published.active \in own
=============================================================================
