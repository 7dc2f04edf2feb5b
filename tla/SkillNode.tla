------------------------------ MODULE SkillNode ------------------------------
(***************************************************************************)
(* A skill server process (mw_skill_library): an rclcpp LifecycleNode with *)
(* its get_state and change_state services, started again by the launch    *)
(* file (respawn=True) when the process dies.  Its executor is single      *)
(* threaded, so it serves one request at a time.                           *)
(*                                                                         *)
(* Clients call it asynchronously.  A call lives in a slot from the        *)
(* request until its answer is taken; a request that finds no process, or  *)
(* whose process dies before it is served, is lost and its future never    *)
(* completes.  An answer on its way survives its process.                  *)
(***************************************************************************)
EXTENDS Naturals, FiniteSets

CONSTANTS Slot,        \* slots for the calls under way at any one time
          MaxCrashes,  \* how often the process dies
          MayError     \* TRUE: a transition callback may raise

ASSUME SlotAssumption == IsFiniteSet(Slot)
ASSUME CrashAssumption == MaxCrashes \in Nat /\ MayError \in BOOLEAN

VARIABLES
  life,    \* lifecycle state of the skill, or "down"
  seen,    \* what service_is_ready() answers: the graph as clients know it
  calls,   \* the calls under way
  crashes  \* how often the process has died

nodeVars == <<life, seen, calls, crashes>>

Life == {"unconfigured", "inactive", "active", "finalized"}
Up == life # "down"

Owner == {"supervisor", "state"}
Kind == {"get", "configure", "activate"}
Change == {"configure", "activate"}

\* owner: who called; answer: the state for "get", "ok" or "failed" else.
Request(owner, kind) ==
  [owner |-> owner, kind |-> kind, stage |-> "request", answer |-> "none"]
Free == [owner |-> "none", kind |-> "none", stage |-> "free", answer |-> "none"]

Outstanding(owner) == {c \in Slot : calls[c].owner = owner}
Answered(c, owner) == calls[c].owner = owner /\ calls[c].stage = "answer"

\* The slot of the next call, if one is free: any will do.
NextSlot == LET vacant == {c \in Slot : calls[c] = Free}
            IN  {c \in vacant : c = CHOOSE d \in vacant : TRUE}

NodeInit ==
  /\ life = "down"
  /\ seen = FALSE
  /\ calls = [c \in Slot |-> Free]
  /\ crashes = 0

\* call_async into slot c: delivered to the process, if there is one.
Call(c, owner, kind) ==
  calls' = [calls EXCEPT ![c] = IF Up THEN Request(owner, kind) ELSE Free]

\* The launch file starts the process, for the first time or again.
Respawn ==
  /\ ~Up
  /\ life' = "unconfigured"
  /\ UNCHANGED <<seen, calls, crashes>>

\* The process dies, and with it the requests it has not served.
Crash ==
  /\ Up /\ crashes < MaxCrashes
  /\ life' = "down"
  /\ calls' = [c \in Slot |-> IF calls[c].stage = "request" THEN Free ELSE calls[c]]
  /\ crashes' = crashes + 1
  /\ UNCHANGED seen

\* The clients' view of the graph catches up.
Discover ==
  /\ seen # Up
  /\ seen' = Up
  /\ UNCHANGED <<life, calls, crashes>>

Answer(c, answer) ==
  calls' = [calls EXCEPT ![c].stage = "answer", ![c].answer = answer]

ServeGet(c) ==
  /\ Up /\ calls[c].stage = "request" /\ calls[c].kind = "get"
  /\ Answer(c, life)
  /\ UNCHANGED <<life, seen, crashes>>

\* on_configure and on_activate succeed; a request out of place is refused; a
\* callback that raises ends in on_error, whose default finalizes the node.
ServeChange(c) ==
  /\ Up /\ calls[c].stage = "request" /\ calls[c].kind \in Change
  /\ LET from == IF calls[c].kind = "configure" THEN "unconfigured" ELSE "inactive"
         to == IF calls[c].kind = "configure" THEN "inactive" ELSE "active"
     IN  \/ life = from /\ life' = to /\ Answer(c, "ok")
         \/ life # from /\ life' = life /\ Answer(c, "failed")
         \/ MayError /\ life = from /\ life' = "finalized" /\ Answer(c, "failed")
  /\ UNCHANGED <<seen, crashes>>

Serve(c) == ServeGet(c) \/ ServeChange(c)

NodeNext == Respawn \/ Crash \/ Discover \/ \E c \in Slot : Serve(c)

CallRecord ==
  [owner : Owner, kind : Kind, stage : {"request"}, answer : {"none"}]
  \cup [owner : Owner, kind : {"get"}, stage : {"answer"}, answer : Life]
  \cup [owner : Owner, kind : Change, stage : {"answer"}, answer : {"ok", "failed"}]

\* An answer fits its request, and a request has a process to serve it.
NodeTypeOK ==
  /\ life \in Life \cup {"down"}
  /\ seen \in BOOLEAN
  /\ calls \in [Slot -> {Free} \cup CallRecord]
  /\ \A c \in Slot : calls[c].stage = "request" => Up
  /\ crashes \in 0..MaxCrashes
=============================================================================
