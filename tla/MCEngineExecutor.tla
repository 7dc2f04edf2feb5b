-------------------------- MODULE MCEngineExecutor --------------------------
(***************************************************************************)
(* A small SubJob for TLC: a leaf that may be revisited, a retried machine *)
(* and a leaf in it.                                                       *)
(***************************************************************************)
EXTENDS EngineExecutor

MCNode == {"job", "move", "again", "grasp", "close"}
MCKind == [n \in MCNode |-> CASE n \in {"job", "grasp"} -> "machine"
                              [] n = "again" -> "retry"
                              [] OTHER -> "leaf"]
MCOutcomes == [n \in MCNode |-> CASE n = "job" -> {"done", "aborted"}
                                  [] n \in {"again", "grasp"} -> {"held", "failed"}
                                  [] OTHER -> {"ok", "failed"}]
MCInitial == [job |-> "move", again |-> "grasp", grasp |-> "close"]
MCTransitions ==
  [job |-> {<<"move", "ok", "again">>, <<"move", "failed", "move">>,
            <<"again", "held", "done">>, <<"again", "failed", "aborted">>},
   grasp |-> {<<"close", "ok", "held">>, <<"close", "failed", "failed">>}]
MCRetryOn == [again |-> "failed"]
=============================================================================
