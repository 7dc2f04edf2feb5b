----------------------------- MODULE HfsmEngine -----------------------------
(***************************************************************************)
(* The interpreter of mw_hfsm_engine: BehaviorSM.run on a tree of          *)
(* StateMachines, RetryDecorators and leaf States, the call stack it       *)
(* builds, the path it shows to other threads through the observer, and    *)
(* the cancel token it polls, which another thread sets at any time.       *)
(*                                                                         *)
(* A child is named by its node.  Leaves are free to return any outcome,   *)
(* raise, poll the token or never end.  A Parallel is a leaf here; see     *)
(* ParallelComposite.                                                      *)
(***************************************************************************)
EXTENDS Naturals, Sequences, FiniteSets

CONSTANTS Node,        \* the states of the tree
          Root,        \* the BehaviorSM that is run
          Kind,        \* "machine", "retry" or "leaf"
          Outcomes,    \* the outcomes each state declares
          Initial,     \* the initial child of a machine, the inner of a retry
          Transitions, \* of a machine: triples <<child, outcome, target>>
          RetryOn,     \* the retry_outcome of a retry
          MaxRetries,  \* its max_retries
          VisitCap     \* visit_cap

VARIABLES
  mode,       \* what the thread is about to do
  value,      \* the outcome it returns or the exception it raises
  stack,      \* the calls of execute() under way
  path,       \* observer._ACTIVE_PATH
  globalPath, \* observer._GLOBAL_PATH
  token       \* whether the cancel token is set

vars == <<mode, value, stack, path, globalPath, token>>

Exception == {"HfsmError", "TransitionError", "LeafError", "Cancelled"}
Undeclared == "undeclared"

\* What the constructors let through.  Outcomes are returned and exceptions
\* raised: here their names tell them apart.
WellBuilt ==
  /\ Root \in Node /\ Kind \in [Node -> {"machine", "retry", "leaf"}]
  /\ Kind[Root] = "machine"
  /\ \A n \in Node : Kind[n] # "leaf" => Initial[n] \in Node
  /\ \A n \in Node : Kind[n] = "retry" => /\ Outcomes[n] = Outcomes[Initial[n]]
                                          /\ RetryOn[n] \in Outcomes[n]
  /\ \A n \in Node : Kind[n] = "machine" => \A t \in Transitions[n] : t[1] \in Node
  /\ \A n \in Node : Outcomes[n] \cap Exception = {}
  /\ VisitCap \in Nat /\ MaxRetries \in Nat

ASSUME TreeAssumption == WellBuilt

Name == {Undeclared} \cup UNION {Outcomes[n] : n \in Node}

\* at: the child a machine is at; count: visits of a machine, attempts of a
\* retry; parent: what enter() returned for the child that is executing.
Frame(n) == [node |-> n, at |-> IF Kind[n] = "leaf" THEN n ELSE Initial[n],
             count |-> 0, parent |-> <<>>]

Top == stack[Len(stack)]
Below == SubSeq(stack, 1, Len(stack) - 1)
InTop(kind) == stack # <<>> /\ Kind[Top.node] = kind

Init ==
  /\ mode = "idle" /\ value = "none"
  /\ stack = <<>> /\ path = <<>> /\ globalPath = <<>>
  /\ token = FALSE

SetPath(p) == path' = p /\ globalPath' = p
Push(frames, n) == stack' = Append(frames, Frame(n))
Return(o) == mode' = "return" /\ value' = o
Raise(e) == mode' = "raise" /\ value' = e

-----------------------------------------------------------------------------
\* token.request(), on the thread of the cancel callback.
RequestCancel ==
  /\ ~token /\ token' = TRUE
  /\ UNCHANGED <<mode, value, stack, path, globalPath>>

\* run(): a behavior_parameter is missing, or the root is entered.
Run ==
  /\ mode = "idle"
  /\ \/ mode' = "ended" /\ value' = "HfsmError" /\ UNCHANGED <<stack, path, globalPath>>
     \/ mode' = "exec" /\ Push(<<>>, Root) /\ SetPath(<<Root>>) /\ UNCHANGED value
  /\ UNCHANGED token

\* Mutant: the token is left to the leaves.
Visit_NoPoll ==
  /\ mode = "exec" /\ InTop("machine")
  /\ LET visits == Top.count + 1
     IN  IF visits > VisitCap
           THEN Raise("HfsmError") /\ stack' = Below
           ELSE mode' = "enter" /\ stack' = [stack EXCEPT ![Len(stack)].count = visits]
                /\ UNCHANGED value
  /\ UNCHANGED <<path, globalPath, token>>

\* Mutant: revisits are not counted.
Visit_NoCap ==
  /\ mode = "exec" /\ InTop("machine")
  /\ IF token THEN Raise("Cancelled") /\ stack' = Below
              ELSE mode' = "enter" /\ UNCHANGED <<stack, value>>
  /\ UNCHANGED <<path, globalPath, token>>

\* The head of the loop of StateMachine.execute: the cap, then the token.
Visit ==
  /\ mode = "exec" /\ InTop("machine")
  /\ LET visits == Top.count + 1
     IN  \/ visits > VisitCap /\ Raise("HfsmError") /\ stack' = Below
         \/ visits <= VisitCap /\ token /\ Raise("Cancelled") /\ stack' = Below
         \/ /\ visits <= VisitCap /\ ~token
            /\ mode' = "enter" /\ stack' = [stack EXCEPT ![Len(stack)].count = visits]
            /\ UNCHANGED value
  /\ UNCHANGED <<path, globalPath, token>>

\* observer.enter(current) and child.execute().
Enter ==
  /\ mode = "enter"
  /\ Push([stack EXCEPT ![Len(stack)].parent = path], Top.at)
  /\ SetPath(Append(path, Top.at))
  /\ mode' = "exec"
  /\ UNCHANGED <<value, token>>

\* RetryDecorator calls its inner state; neither token nor observer is asked.
Attempt ==
  /\ mode = "exec" /\ InTop("retry")
  /\ Push([stack EXCEPT ![Len(stack)].count = @ + 1], Top.at)
  /\ UNCHANGED <<mode, value, path, globalPath, token>>

\* A leaf returns an outcome, declared or not, or raises.
LeafEnd ==
  /\ mode = "exec" /\ InTop("leaf")
  /\ \/ \E o \in Outcomes[Top.node] \cup {Undeclared} : Return(o)
     \/ Raise("LeafError")
  /\ stack' = Below
  /\ UNCHANGED <<path, globalPath, token>>

\* A leaf polls the token and finds it set.
LeafCancel ==
  /\ mode = "exec" /\ InTop("leaf")
  /\ token /\ Raise("Cancelled") /\ stack' = Below
  /\ UNCHANGED <<path, globalPath, token>>

\* Where a machine goes from a child's outcome; terminal outcomes come first.
Targets(n, child, o) == {t[3] : t \in {x \in Transitions[n] : x[1] = child /\ x[2] = o}}
Children(n) == {t[1] : t \in Transitions[n]} \cup {Initial[n]}

\* Mutant: the outcome of a child is passed on without a look at the
\* declarations.
Follow_Unchecked ==
  /\ mode = "return" /\ InTop("machine")
  /\ SetPath(Top.parent)
  /\ LET to == Targets(Top.node, Top.at, value)
     IN  \/ \E t \in to \cap Children(Top.node) :
              /\ mode' = "exec" /\ stack' = [stack EXCEPT ![Len(stack)].at = t]
              /\ UNCHANGED value
         \/ to \cap Children(Top.node) = {} /\ stack' = Below
            /\ Return(IF to = {} THEN value ELSE CHOOSE t \in to : TRUE)
  /\ UNCHANGED token

\* A child returned to its machine: observer.exit, and the transition.
Follow ==
  /\ mode = "return" /\ InTop("machine")
  /\ SetPath(Top.parent)
  /\ LET legal == value \in Outcomes[Top.at]
         to == IF legal THEN Targets(Top.node, Top.at, value) ELSE {}
     IN  \/ \E t \in to \cap Outcomes[Top.node] : Return(t) /\ stack' = Below
         \/ \E t \in (to \cap Children(Top.node)) \ Outcomes[Top.node] :
              /\ mode' = "exec" /\ stack' = [stack EXCEPT ![Len(stack)].at = t]
              /\ UNCHANGED value
         \/ /\ to \cap (Outcomes[Top.node] \cup Children(Top.node)) = {}
            /\ Raise("TransitionError") /\ stack' = Below
  /\ UNCHANGED token

\* Mutant: one attempt too many.
Again_OneMore ==
  /\ mode = "return" /\ InTop("retry")
  /\ \/ /\ value = RetryOn[Top.node] /\ Top.count <= MaxRetries + 1
        /\ mode' = "exec" /\ UNCHANGED <<value, stack>>
     \/ /\ value # RetryOn[Top.node] \/ Top.count > MaxRetries + 1
        /\ stack' = Below /\ UNCHANGED <<mode, value>>
  /\ UNCHANGED <<path, globalPath, token>>

\* The inner state returned to its RetryDecorator.
Again ==
  /\ mode = "return" /\ InTop("retry")
  /\ \/ /\ value = RetryOn[Top.node] /\ Top.count <= MaxRetries
        /\ mode' = "exec" /\ UNCHANGED <<value, stack>>
     \/ /\ value # RetryOn[Top.node] \/ Top.count > MaxRetries
        /\ stack' = Below /\ UNCHANGED <<mode, value>>
  /\ UNCHANGED <<path, globalPath, token>>

\* Mutant: no finally, the path of the child that raised stays.
Unwind_KeepsPath ==
  /\ mode = "raise" /\ stack # <<>>
  /\ stack' = Below
  /\ UNCHANGED <<mode, value, path, globalPath, token>>

\* Mutant: a retry takes an exception for a failed attempt, and starts over.
Unwind_Retried ==
  /\ mode = "raise" /\ stack # <<>>
  /\ \/ /\ InTop("retry") /\ mode' = "exec"
        /\ stack' = [stack EXCEPT ![Len(stack)].count = 0]
        /\ UNCHANGED <<path, globalPath>>
     \/ InTop("machine") /\ SetPath(Top.parent) /\ stack' = Below /\ UNCHANGED mode
  /\ UNCHANGED <<value, token>>

\* An exception leaves a child: observer.exit in the finally clause of a
\* machine; a retry has none.
Unwind ==
  /\ mode = "raise" /\ stack # <<>>
  /\ IF InTop("machine") THEN SetPath(Top.parent) ELSE UNCHANGED <<path, globalPath>>
  /\ stack' = Below
  /\ UNCHANGED <<mode, value, token>>

\* The finally clause of run().
Finish ==
  /\ mode \in {"return", "raise"} /\ stack = <<>>
  /\ mode' = "ended"
  /\ SetPath(<<>>)
  /\ UNCHANGED <<value, stack, token>>

Step == \/ Run \/ Visit \/ Enter \/ Attempt \/ LeafCancel
        \/ Follow \/ Again \/ Unwind \/ Finish

Next == RequestCancel \/ Step \/ LeafEnd

Spec == Init /\ [][Next]_vars

\* The thread runs on; leaves poll the token (CancelToken asks them to), but
\* need not end by themselves.
FairSpec == Spec /\ WF_vars(Step)

-----------------------------------------------------------------------------
(* Properties.                                                             *)

TypeOK ==
  /\ mode \in {"idle", "exec", "enter", "return", "raise", "ended"}
  /\ value \in Name \cup Exception \cup {"none"}
  /\ \A i \in 1..Len(stack) :
       /\ stack[i].node \in Node /\ stack[i].at \in Node
       /\ stack[i].count \in 0..(IF Kind[stack[i].node] = "retry" THEN MaxRetries + 1
                                                                  ELSE VisitCap)
  /\ token \in BOOLEAN

\* The path a status message shows names exactly the children of machines
\* that are executing or just being left, through exceptions, retries and
\* revisits.
Named(s, i) == {j \in 1..i : j > 1 => Kind[s[j - 1].node] = "machine"}
Rank(s, i) == Cardinality(Named(s, i))
Leaving == IF mode \notin {"return", "raise"} \/ InTop("retry") THEN <<>>
           ELSE IF stack = <<>> THEN <<Root>> ELSE <<Top.at>>
PathIsStack ==
  /\ mode \notin {"idle", "ended"} =>
       /\ Len(path) = Rank(stack, Len(stack)) + Len(Leaving)
       /\ \A i \in Named(stack, Len(stack)) : path[Rank(stack, i)] = stack[i].node
       /\ Leaving # <<>> => path[Len(path)] = Leaving[1]
  /\ globalPath = path
  /\ mode = "ended" => path = <<>>

\* Once the token is set no machine enters another child, but for the one it
\* was about to enter; only a retry may start its inner state again.
CancelStopsEntering ==
  [][token /\ mode \notin {"idle", "enter"} => mode' # "enter" /\ Len(path') <= Len(path)]_vars

\* A run that is cancelled ends if leaves poll the token, however the tree is
\* nested, retried or looped.
CancelEnds == (token /\ mode # "idle") ~> (mode = "ended")

\* If leaves end by themselves every run ends, though its transitions may go
\* round in circles: the visit cap bounds each machine, retries are bounded.
RunEnds == WF_vars(LeafEnd) => (mode # "idle" ~> mode = "ended")

\* run() keeps the promise of SubJobRun: a declared outcome or an exception,
\* Cancelled only on request, the path gone when it returns.
RunState == CASE mode = "idle" -> "idle"
              [] mode = "ended" -> IF value \in Exception \ {"Cancelled"} THEN "error" ELSE value
              [] OTHER -> "running"
SubJob == INSTANCE SubJobRun WITH
  Declared <- Outcomes[Root], run <- RunState, wanted <- token, shown <- globalPath # <<>>
ImplementsRun == SubJob!Spec
=============================================================================
