------------------------- MODULE SpecDispatchProofs -------------------------
(***************************************************************************)
(* Proofs about TaskRepository and the dispatches of SpecDispatch, for any *)
(* ids, bodies, classes and number of faults.                              *)
(***************************************************************************)
EXTENDS SpecDispatch, TLAPS

\* How far the save under way has come.
SaveInv ==
  /\ at \in {"write", "add", "commit", "reply"}
       => req.body \in Savable /\ acked[req.id] = None
  /\ at \in {"add", "commit", "reply"} => file[req.id] = req.body
  /\ at \in {"commit", "reply"} => index[req.id] = req.body
  /\ at = "reply" => head[req.id] = req.body

\* An acknowledged body is staged too, so that the commit of another id
\* leaves it in the history.
AckedInv ==
  \A i \in Id : acked[i] # None =>
    file[i] = acked[i] /\ index[i] = acked[i] /\ head[i] = acked[i]

Inv == TypeOK /\ SaveInv /\ AckedInv /\ NoTornCommit

LEMMA Bodies ==
  ASSUME NEW r \in [id : Id, body : Content]
  PROVE  r.id \in Id /\ r.body \in Content /\ r.body \in Stored /\ r.body # Torn
         /\ r.body # None
  BY ContentAssumption DEF ContentAssumption, Stored

LEMMA InvInit == Init => Inv
  <1> SUFFICES ASSUME Init PROVE Inv
    OBVIOUS
  <1>1. RetryContent \in Content /\ RetryId \in Id /\ None # Torn
    BY ContentAssumption, RetryAssumption DEF ContentAssumption, RetryAssumption
  <1>2. TypeOK
    BY <1>1 DEF Init, TypeOK, Empty, Stored, Stage
  <1>3. SaveInv /\ AckedInv
    BY DEF Init, SaveInv, AckedInv, Empty
  <1>4. NoTornCommit
    BY <1>1 DEF Init, NoTornCommit, Empty
  <1> QED
    BY <1>2, <1>3, <1>4 DEF Inv

LEMMA InvStep == Inv /\ [Next]_vars => Inv'
  <1> SUFFICES ASSUME Inv, [Next]_vars PROVE Inv'
    OBVIOUS
  <1> USE DEF storeVars, gitVars, Goto
  <1>0. /\ TypeOK /\ SaveInv /\ AckedInv /\ NoTornCommit
        /\ req.id \in Id /\ req.body \in Content /\ req.body \in Stored
        /\ req.body # Torn /\ req.body # None
    BY Bodies DEF Inv, TypeOK
  <1>s. Savable \subseteq Content /\ Torn \in Stored /\ None \in Stored
    BY ContentAssumption DEF ContentAssumption, Stored
  \* Steps that only move the node on, or back to idle.
  <1>1. CASE Start \/ FindRepo \/ InitRepo \/ ConfigEmail \/ ConfigName \/ Refuse
             \/ NoIdentity \/ GitRefuses
    <2>1. /\ UNCHANGED <<lock, file, index, head, acked, req>>
          /\ at' \in Stage \ {"write", "add", "commit", "reply", "check"}
          /\ setup' \in {"none", "init", "email", "ready"}
      BY <1>0, <1>1 DEF Start, FindRepo, InitRepo, ConfigEmail, ConfigName, Refuse,
         NoIdentity, GitRefuses, TypeOK, Stage
    <2> QED
      BY <1>0, <2>1 DEF Inv, TypeOK, SaveInv, AckedInv, NoTornCommit, Stage
  <1>2. ASSUME NEW i \in Id, NEW c \in Content, Receive(i, c) PROVE Inv'
    <2>1. TypeOK'
      BY <1>0, <1>2 DEF Receive, TypeOK, Stage
    <2>2. SaveInv' /\ AckedInv' /\ NoTornCommit'
      BY <1>0, <1>2 DEF Receive, SaveInv, AckedInv, NoTornCommit
    <2> QED
      BY <2>1, <2>2 DEF Inv
  <1>3. CASE Truncate
    <2>1. TypeOK'
      BY <1>0, <1>s, <1>3 DEF Truncate, TypeOK, Stage
    <2>2. SaveInv' /\ AckedInv' /\ NoTornCommit'
      BY <1>0, <1>3 DEF Truncate, TypeOK, SaveInv, AckedInv, NoTornCommit
    <2> QED
      BY <2>1, <2>2 DEF Inv
  <1>4. CASE Write
    <2>1. TypeOK'
      BY <1>0, <1>4 DEF Write, TypeOK, Stage
    <2>2. SaveInv' /\ AckedInv' /\ NoTornCommit'
      BY <1>0, <1>4 DEF Write, TypeOK, SaveInv, AckedInv, NoTornCommit
    <2> QED
      BY <2>1, <2>2 DEF Inv
  <1>5. CASE Add
    <2>1. TypeOK'
      BY <1>0, <1>5 DEF Add, Staged, TypeOK, Stage
    <2>2. SaveInv' /\ AckedInv'
      BY <1>0, <1>5 DEF Add, Staged, TypeOK, SaveInv, AckedInv
    <2>3. NoTornCommit'
      BY <1>0, <1>5 DEF Add, Staged, TypeOK, SaveInv, NoTornCommit
    <2> QED
      BY <2>1, <2>2, <2>3 DEF Inv
  <1>6. CASE Commit
    <2>1. TypeOK'
      BY <1>0, <1>6 DEF Commit, TypeOK, Stage
    <2>2. SaveInv' /\ AckedInv' /\ NoTornCommit'
      BY <1>0, <1>6 DEF Commit, SaveInv, AckedInv, NoTornCommit
    <2> QED
      BY <2>1, <2>2 DEF Inv
  <1>7. CASE Reply
    <2>1. TypeOK'
      BY <1>0, <1>7 DEF Reply, TypeOK, SaveInv, Stage
    <2>2. SaveInv' /\ AckedInv' /\ NoTornCommit'
      BY <1>0, <1>7 DEF Reply, TypeOK, SaveInv, AckedInv, NoTornCommit
    <2> QED
      BY <2>1, <2>2 DEF Inv
  <1>8. CASE UNCHANGED vars
    BY <1>0, <1>8 DEF vars, Inv, TypeOK, SaveInv, AckedInv, NoTornCommit
  \* A git that is killed stages no torn file, and what it commits was staged.
  <1>9. CASE Fail \/ Crash
    <2>1. /\ UNCHANGED <<setup, file, acked, req>>
          /\ at' \in {"idle", "down"}
          /\ Interrupted
      BY <1>9 DEF Fail, Crash
    <2>2. CASE UNCHANGED <<index, head>>
      <3>1. lock' \in {"none", "index", "branch"}
        BY <1>0, <2>1 DEF Interrupted, TypeOK
      <3> QED
        BY <1>0, <2>1, <2>2, <3>1 DEF Inv, TypeOK, SaveInv, AckedInv, NoTornCommit, Stage
    <2>3. CASE at = "add" /\ index' = Staged /\ UNCHANGED <<head, lock>>
      <3>1. TypeOK'
        BY <1>0, <2>1, <2>3 DEF Staged, TypeOK, Stage
      <3>2. SaveInv' /\ AckedInv'
        BY <1>0, <2>1, <2>3 DEF Staged, TypeOK, SaveInv, AckedInv
      <3>3. NoTornCommit'
        BY <1>0, <2>1, <2>3 DEF Staged, TypeOK, SaveInv, NoTornCommit
      <3> QED
        BY <3>1, <3>2, <3>3 DEF Inv
    <2>4. CASE head' \in {head, index} /\ lock' \in {lock, "branch"} /\ UNCHANGED index
      <3>1. TypeOK'
        BY <1>0, <2>1, <2>4 DEF TypeOK, Stage
      <3>2. SaveInv' /\ AckedInv' /\ NoTornCommit'
        BY <1>0, <2>1, <2>4 DEF SaveInv, AckedInv, NoTornCommit
      <3> QED
        BY <3>1, <3>2 DEF Inv
    <2> QED
      BY <2>1, <2>2, <2>3, <2>4 DEF Interrupted
  <1> QED
    BY <1>1, <1>2, <1>3, <1>4, <1>5, <1>6, <1>7, <1>8, <1>9 DEF Next, Serve

LEMMA InvCorrect == Spec => []Inv
  BY InvInit, InvStep, PTL DEF Spec

-----------------------------------------------------------------------------
\* Every variable of the repository keeps its type.
THEOREM TypeCorrect == Spec => []TypeOK
<1>1. Inv => TypeOK
  BY DEF Inv
<1> QED
  BY <1>1, InvCorrect, PTL

\* What save_task acknowledged is listed, in the file and committed, whatever
\* other saves fail and wherever the process ends.
THEOREM AcknowledgedSavesLast == Spec => []SavedIsCommitted
<1>1. Inv => SavedIsCommitted
  BY DEF Inv, AckedInv, SavedIsCommitted, Listed
<1> QED
  BY <1>1, InvCorrect, PTL

\* No torn file is ever staged or committed.
THEOREM HistoryIsWhole == Spec => []NoTornCommit
<1>1. Inv => NoTornCommit
  BY DEF Inv
<1> QED
  BY <1>1, InvCorrect, PTL

-----------------------------------------------------------------------------
(* Dispatches.                                                             *)

\* expect is what is acknowledged as long as the repository has not answered,
\* then what it answered, and then what was built.
ExpectInv ==
  /\ job.at \in {"idle", "asked", "answered", "done"}
  /\ job.at = "asked" => job.id \in Id
  /\ expect \in Savable \cup {None}
  /\ expect # None =>
       /\ job.at = "asked" => acked[job.id] = expect
       /\ job.at = "answered" => job.got = expect
       /\ job.at = "done" => tree \in {BodyTree[expect], NoTree}

DispatchInv == Inv /\ ExpectInv

LEMMA DispatchInitInv == DispatchInit => DispatchInv
<1> SUFFICES ASSUME DispatchInit PROVE DispatchInv
  OBVIOUS
<1>1. Inv
  BY InvInit DEF DispatchInit
<1>2. ExpectInv
  BY DEF DispatchInit, ExpectInv, NoJob, Job
<1> QED
  BY <1>1, <1>2 DEF DispatchInv

\* The dispatches write nothing of the repository.
LEMMA DispatchVars == [DispatchStep \/ RepositoryStep]_allVars => [Next]_vars
<1>1. RepositoryStep \/ UNCHANGED allVars => [Next]_vars
  BY DEF RepositoryStep, allVars
<1>2. DispatchStep => UNCHANGED vars
  BY DEF DispatchStep, BuildClass, AskRepository, Answer, NoAnswer, BuildAnswer, Finish
<1> QED
  BY <1>1, <1>2

LEMMA DispatchStepInv == DispatchInv /\ [DispatchStep \/ RepositoryStep]_allVars => DispatchInv'
<1> SUFFICES ASSUME DispatchInv, [DispatchStep \/ RepositoryStep]_allVars PROVE DispatchInv'
  OBVIOUS
<1>0. Inv /\ ExpectInv /\ TypeOK /\ AckedInv
  BY DEF DispatchInv, Inv
<1>1. None \notin Savable
  BY ContentAssumption DEF ContentAssumption
<1>2. Inv'
  BY <1>0, DispatchVars, InvStep
<1>3. ASSUME NEW i \in Id \cup Class, BuildClass(i) PROVE ExpectInv'
  BY <1>3 DEF BuildClass, ExpectInv, Job
<1>4. ASSUME NEW i \in Id \cup Class, AskRepository(i) PROVE ExpectInv'
  <2>1. i \in Id /\ acked' = acked /\ acked[i] \in Savable \cup {None}
    BY <1>0, <1>4 DEF AskRepository, TypeOK, vars
  <2>2. job'.at = "asked" /\ job'.id = i /\ expect' = acked[i]
    BY <1>4 DEF AskRepository, Job
  <2> QED
    BY <2>1, <2>2 DEF ExpectInv
<1>5. ASSUME Answer PROVE ExpectInv'
  <2>1. job'.at = "answered" /\ job'.got = Load(job.id) /\ expect' = expect /\ job.id \in Id
    BY <1>0, <1>5 DEF Answer, Job, ExpectInv
  <2>2. expect # None => Load(job.id) = expect
    BY <1>0, <1>5, <2>1 DEF Answer, ExpectInv, AckedInv, Load
  <2> QED
    BY <1>0, <2>1, <2>2 DEF ExpectInv
<1>6. ASSUME NoAnswer PROVE ExpectInv'
  BY <1>0, <1>6 DEF NoAnswer, Job, ExpectInv
<1>7. ASSUME BuildAnswer PROVE ExpectInv'
  <2>1. job'.at = "done" /\ expect' = expect
    BY <1>7 DEF BuildAnswer
  <2>2. expect # None => tree' = BodyTree[expect]
    BY <1>0, <1>1, <1>7 DEF BuildAnswer, ExpectInv
  <2> QED
    BY <1>0, <2>1, <2>2 DEF ExpectInv
<1>8. ASSUME Finish PROVE ExpectInv'
  BY <1>8 DEF Finish, NoJob, Job, ExpectInv
<1>9. ASSUME RepositoryStep PROVE ExpectInv'
  <2>1. job' = job /\ tree' = tree
    BY <1>9 DEF RepositoryStep
  <2>2. expect' = expect \/ expect' = None
    BY <1>9 DEF RepositoryStep
  <2>3. job.at = "asked" /\ expect' # None => acked'[job.id] = expect'
    BY <1>9 DEF RepositoryStep
  <2> QED
    BY <1>0, <2>1, <2>2, <2>3 DEF ExpectInv
<1>10. ASSUME UNCHANGED allVars PROVE ExpectInv'
  BY <1>0, <1>10 DEF allVars, dispatchVars, vars, ExpectInv
<1> QED
  BY <1>2, <1>3, <1>4, <1>5, <1>6, <1>7, <1>8, <1>9, <1>10 DEF DispatchStep, DispatchInv

\* Beside dispatches the repository takes its own steps only: load_task reads
\* (repo_node.py:93-106), so what is proved of Spec holds in every dispatch.
THEOREM RepositoryUndisturbed == DispatchSpec => Spec
<1>1. DispatchInit => Init
  BY DEF DispatchInit
<1>2. [DispatchStep \/ RepositoryStep]_allVars => [Next]_vars
  BY DispatchVars
<1> QED
  BY <1>1, <1>2, PTL DEF DispatchSpec, Spec

LEMMA DispatchInductive == DispatchSpec => []DispatchInv
  BY DispatchInitInv, DispatchStepInv, PTL DEF DispatchSpec

\* A dispatch after an acknowledged save builds the document that was saved
\* (hfsm_executor_node.py:294-333), whatever fails in the repository meanwhile.
THEOREM DispatchCorrect == DispatchSpec => []DispatchSeesSave
<1>1. DispatchInv => DispatchSeesSave
  BY DEF DispatchInv, ExpectInv, DispatchSeesSave
<1> QED
  BY <1>1, DispatchInductive, PTL
=============================================================================
