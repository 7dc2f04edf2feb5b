--------------------------- MODULE TaskRepository ---------------------------
(***************************************************************************)
(* The task repository (mw_task_repository/repo_node.py): one JSON file    *)
(* per SubJob in a git work tree.  rclpy.spin runs one callback at a time; *)
(* save_task truncates and writes the file, adds it and commits, and each  *)
(* of these can fail or be the last thing the process does.  The files,    *)
(* the index, the history and the set-up of the work tree survive it, and  *)
(* so does the lock file of a git that was killed.  Rejecting an id that   *)
(* is no file name is left out: ids are file names.                        *)
(***************************************************************************)
EXTENDS Naturals

CONSTANTS Id,        \* SubJob ids
          Legacy,    \* those with a file of the old .xml format
          Content,   \* the bodies clients save
          Savable,   \* those that are JSON objects with a "kind"
          None,      \* no file, nothing staged, nothing committed
          Torn,      \* a file that was not written to its end
          Xml,       \* what a legacy file holds
          RetryId, RetryContent,  \* a save that its client repeats
          MaxFaults  \* how many steps fail, crashes included

ASSUME ContentAssumption ==
  /\ Savable \subseteq Content
  /\ None \notin Content /\ Torn \notin Content /\ Xml \notin Content
  /\ None # Torn /\ None # Xml /\ Torn # Xml
ASSUME IdAssumption == Legacy \subseteq Id
ASSUME RetryAssumption == RetryId \in Id /\ RetryContent \in Savable

VARIABLES
  setup,   \* how much of _ensure_repo the work tree has
  lock,    \* what a killed git left locked: no code removes its lock file
  at,      \* where the node stands
  req,     \* the save request under way
  file,    \* <id>.json
  index,   \* what is staged
  head,    \* what is committed
  acked,   \* the body whose save was acknowledged last, None while it is
           \* being replaced
  faults

vars == <<setup, lock, at, req, file, index, head, acked, faults>>
gitVars == <<index, head, lock>>
storeVars == <<setup, gitVars, file, acked>>

Stage == {"down", "starting", "email", "name", "idle",
          "check", "write", "add", "commit", "reply"}
Stored == Content \cup {None, Torn}
Empty == [i \in Id |-> None]

Init ==
  /\ setup = "none" /\ lock = "none"
  /\ at = "down"
  /\ req = [id |-> RetryId, body |-> RetryContent]  \* none yet: any value
  /\ file = Empty /\ index = Empty /\ head = Empty /\ acked = Empty
  /\ faults = 0

Goto(from, to) == at = from /\ at' = to

-----------------------------------------------------------------------------
(* Start-up.                                                               *)

Start ==
  /\ Goto("down", "starting")
  /\ UNCHANGED <<storeVars, req, faults>>

\* A work tree with a .git directory is taken to be complete.
FindRepo ==
  /\ setup # "none"
  /\ Goto("starting", "idle")
  /\ UNCHANGED <<storeVars, req, faults>>

InitRepo ==
  /\ setup = "none"
  /\ Goto("starting", "email")
  /\ setup' = "init"
  /\ UNCHANGED <<gitVars, file, acked, req, faults>>

ConfigEmail ==
  /\ Goto("email", "name")
  /\ setup' = "email"
  /\ UNCHANGED <<gitVars, file, acked, req, faults>>

ConfigName ==
  /\ Goto("name", "idle")
  /\ setup' = "ready"
  /\ UNCHANGED <<gitVars, file, acked, req, faults>>

-----------------------------------------------------------------------------
(* save_task.                                                              *)

Receive(i, c) ==
  /\ Goto("idle", "check")
  /\ req' = [id |-> i, body |-> c]
  /\ UNCHANGED <<storeVars, faults>>

\* Empty, no JSON, or no object with a "kind".
Refuse ==
  /\ req.body \notin Savable
  /\ Goto("check", "idle")
  /\ UNCHANGED <<storeVars, req, faults>>

\* write_text truncates the file before it writes.
Truncate ==
  /\ req.body \in Savable
  /\ Goto("check", "write")
  /\ file' = [file EXCEPT ![req.id] = Torn]
  /\ acked' = [acked EXCEPT ![req.id] = None]
  /\ UNCHANGED <<gitVars, setup, req, faults>>

Write ==
  /\ Goto("write", "add")
  /\ file' = [file EXCEPT ![req.id] = req.body]
  /\ UNCHANGED <<gitVars, setup, acked, req, faults>>

\* git add takes the lock of the index, git commit that and the one of the
\* branch; each refuses at once if it is there already.
Locked == \/ at = "add" /\ lock = "index"
          \/ at = "commit" /\ lock # "none"

GitRefuses ==
  /\ Locked
  /\ at' = "idle"
  /\ UNCHANGED <<storeVars, req, faults>>

Staged == [index EXCEPT ![req.id] = file[req.id]]

\* As if git add -A.
Add_All ==
  /\ ~Locked
  /\ Goto("add", "commit")
  /\ index' = file
  /\ UNCHANGED <<head, lock, setup, file, acked, req, faults>>

Add ==
  /\ ~Locked
  /\ Goto("add", "commit")
  /\ index' = Staged
  /\ UNCHANGED <<head, lock, setup, file, acked, req, faults>>

\* As if git commit were called without --allow-empty.
Commit_NotEmpty ==
  /\ setup = "ready" /\ ~Locked
  /\ index # head
  /\ Goto("commit", "reply")
  /\ head' = index
  /\ UNCHANGED <<index, lock, setup, file, acked, req, faults>>

\* Commits all that is staged, what a failed save left there included.
Commit ==
  /\ setup = "ready" /\ ~Locked
  /\ Goto("commit", "reply")
  /\ head' = index
  /\ UNCHANGED <<index, lock, setup, file, acked, req, faults>>

Reply ==
  /\ Goto("reply", "idle")
  /\ acked' = [acked EXCEPT ![req.id] = req.body]
  /\ UNCHANGED <<gitVars, setup, file, req, faults>>

\* A git that is killed has done its work or not, and leaves the lock it held
\* when it was killed.
Interrupted ==
  \/ UNCHANGED gitVars
  \/ /\ at \in {"add", "commit"} /\ ~Locked
     /\ lock' = "index"
     /\ UNCHANGED <<index, head>>
  \/ /\ at = "add" /\ ~Locked
     /\ index' = Staged
     /\ UNCHANGED <<head, lock>>
  \/ /\ at = "commit" /\ ~Locked /\ setup = "ready"
     /\ head' \in {head, index}
     /\ lock' \in {lock, "branch"}
     /\ UNCHANGED index

\* A step raises, a git that was killed with it.  The steps before are not
\* undone: the file stays replaced, or torn.
Fail ==
  /\ at \in {"write", "add", "commit"}
  /\ faults < MaxFaults
  /\ faults' = faults + 1
  /\ at' = "idle"
  /\ Interrupted
  /\ UNCHANGED <<setup, file, acked, req>>

\* As if the exit status of git commit were not checked.
NoIdentity_Unchecked ==
  /\ setup # "ready"
  /\ Goto("commit", "reply")
  /\ UNCHANGED <<storeVars, req, faults>>

\* Without user.name and user.email git refuses to commit.
NoIdentity ==
  /\ setup # "ready"
  /\ Goto("commit", "idle")
  /\ UNCHANGED <<storeVars, req, faults>>

\* The node ends, with the git it may have been waiting for.
Crash ==
  /\ at # "down"
  /\ faults < MaxFaults
  /\ faults' = faults + 1
  /\ at' = "down"
  /\ Interrupted
  /\ UNCHANGED <<setup, file, acked, req>>

-----------------------------------------------------------------------------
(* load_task and list_tasks change nothing.                                *)

\* As if the legacy suffix came first.
Load_XmlFirst(i) == IF i \in Legacy THEN Xml ELSE file[i]

Load(i) == IF file[i] # None THEN file[i]
           ELSE IF i \in Legacy THEN Xml ELSE None

Listed == {i \in Id : file[i] # None} \cup Legacy

-----------------------------------------------------------------------------
Serve == \/ FindRepo \/ InitRepo \/ ConfigEmail \/ ConfigName
         \/ Refuse \/ Truncate \/ Write \/ Add \/ Commit \/ Reply
         \/ NoIdentity \/ GitRefuses

Next == Start \/ Serve \/ Fail \/ Crash \/ \E i \in Id, c \in Content : Receive(i, c)

Spec == Init /\ [][Next]_vars

\* A node that runs goes on, but nothing starts it again: no launch file
\* respawns it.  One client repeats its save.
Fairness == WF_vars(Serve) /\ SF_vars(Receive(RetryId, RetryContent))

-----------------------------------------------------------------------------
(* Properties.                                                             *)

\* Every variable keeps its type.
TypeOK ==
  /\ setup \in {"none", "init", "email", "ready"}
  /\ lock \in {"none", "index", "branch"}
  /\ at \in Stage
  /\ req \in [id : Id, body : Content]
  /\ file \in [Id -> Stored]
  /\ index \in [Id -> Stored]
  /\ head \in [Id -> Stored]
  /\ acked \in [Id -> Savable \cup {None}]

\* A save that was acknowledged is listed, in the file and in the history, whatever
\* saves of other ids fail half-way and wherever the process ends, until the
\* next save of that id begins.
SavedIsCommitted ==
  \A i \in Id : acked[i] # None =>
    i \in Listed /\ file[i] = acked[i] /\ head[i] = acked[i]

\* The history never holds a file that was not written to its end, although
\* such a file may lie in the work tree while other ids are saved.
NoTornCommit == \A i \in Id : Torn \notin {index[i], head[i]}

\* The process ended between git init and the last git config.
HalfSetUp == setup \in {"init", "email"} /\ at \notin {"email", "name"}

\* While the node is up, a client that repeats a save gets it acknowledged
\* again and again, also when the body is the one already committed.  Two
\* things end that for good: a set-up that was interrupted, which no later
\* start completes, and the lock of a killed git, which nothing removes.
RetriedSaveLands ==
  []<>(acked[RetryId] = RetryContent \/ HalfSetUp \/ lock # "none" \/ at = "down")
=============================================================================
