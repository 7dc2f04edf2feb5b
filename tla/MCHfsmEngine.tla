---------------------------- MODULE MCHfsmEngine ----------------------------
(***************************************************************************)
(* A SubJob for TLC: a leaf that may be revisited for ever, a retry of a   *)
(* machine that lacks a transition, a leaf retried inside it, a child      *)
(* whose name is also a terminal outcome, and a target that is no child.   *)
(***************************************************************************)
EXTENDS HfsmEngine

MCNode == {"job", "move", "again", "grasp", "close", "probe", "look", "aborted"}
MCKind == [n \in MCNode |-> CASE n \in {"job", "grasp"} -> "machine"
                              [] n \in {"again", "probe"} -> "retry"
                              [] OTHER -> "leaf"]
MCOutcomes == [n \in MCNode |->
                 CASE n = "job" -> {"done", "aborted"}
                   [] n \in {"again", "grasp"} -> {"held", "failed"}
                   [] OTHER -> {"ok", "failed"}]
MCInitial == [job |-> "move", again |-> "grasp", grasp |-> "close", probe |-> "look"]
MCTransitions ==
  [job |-> {<<"move", "ok", "again">>, <<"move", "failed", "move">>,
            <<"again", "held", "done">>, <<"again", "failed", "aborted">>,
            <<"aborted", "ok", "done">>},
   grasp |-> {<<"close", "ok", "probe">>,
              <<"probe", "ok", "held">>, <<"probe", "failed", "nowhere">>,
              <<"close", "failed", "failed">>}]
MCRetryOn == [again |-> "failed", probe |-> "failed"]
=============================================================================
