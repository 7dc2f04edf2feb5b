-------------------------- MODULE HfsmEngineProofs --------------------------
(***************************************************************************)
(* Theorems about HfsmEngine, for any tree of machines, retries and leaves *)
(* and any bounds: the types, with the bounds on visits and attempts, that *)
(* the shown path is the stack of calls, that a set token stops machines   *)
(* from entering children, and that run() does what SubJobRun allows.      *)
(***************************************************************************)
EXTENDS HfsmEngine, Integers, FiniteSetTheorems, TLAPS

Frames == [node : Node, at : Node, count : Nat, parent : Seq(Node)]
Machine(s, i) == Kind[s[i].node] = "machine"

-----------------------------------------------------------------------------
(* What a path shows of a stack.                                           *)

\* p names the children of machines among the calls 1..i of s, in order.
Shows(s, i, p) ==
  /\ p \in Seq(Node)
  /\ Len(p) = Rank(s, i)
  /\ \A j \in Named(s, i) : p[Rank(s, j)] = s[j].node

\* p shows all calls of s and, behind them, the child c that is being left.
Leaves(s, p, c) ==
  /\ p \in Seq(Node)
  /\ Len(p) = Rank(s, Len(s)) + 1
  /\ \A j \in Named(s, Len(s)) : p[Rank(s, j)] = s[j].node
  /\ p[Len(p)] = c

\* What is shown when a call has returned or raised into s.
ShowsLeaving(s, p) ==
  IF s # <<>> /\ Kind[s[Len(s)].node] = "retry"
  THEN Shows(s, Len(s), p)
  ELSE Leaves(s, p, IF s = <<>> THEN Root ELSE s[Len(s)].at)

\* A rank is one more than that of the call before, if the call is named.
LEMMA RankStep ==
  ASSUME NEW s, NEW i \in Nat
  PROVE  /\ IsFiniteSet(Named(s, i)) /\ Rank(s, i) \in Nat
         /\ Rank(s, 0) = 0
         /\ i = 0 \/ Machine(s, i) => /\ Named(s, i + 1) = Named(s, i) \cup {i + 1}
                                      /\ Rank(s, i + 1) = Rank(s, i) + 1
         /\ i > 0 /\ ~Machine(s, i) => /\ Named(s, i + 1) = Named(s, i)
                                       /\ Rank(s, i + 1) = Rank(s, i)
<1>1. IsFiniteSet(1..i)
  BY FS_Interval
<1>2. IsFiniteSet(Named(s, i)) /\ Rank(s, i) \in Nat
  BY <1>1, FS_Subset, FS_CardinalityType DEF Named, Rank
<1>3. Rank(s, 0) = 0
  <2>1. Named(s, 0) = {}
    BY DEF Named
  <2> QED
    BY <2>1, FS_EmptySet DEF Rank
<1>4. ASSUME i = 0 \/ Machine(s, i)
      PROVE  Named(s, i + 1) = Named(s, i) \cup {i + 1} /\ Rank(s, i + 1) = Rank(s, i) + 1
  <2>1. Named(s, i + 1) = Named(s, i) \cup {i + 1} /\ i + 1 \notin Named(s, i)
    BY <1>4 DEF Named, Machine
  <2> QED
    BY <1>2, <2>1, FS_AddElement DEF Rank
<1>5. ASSUME i > 0, ~Machine(s, i)
      PROVE  Named(s, i + 1) = Named(s, i) /\ Rank(s, i + 1) = Rank(s, i)
  <2>1. Named(s, i + 1) = Named(s, i)
    BY <1>5 DEF Named, Machine
  <2> QED
    BY <2>1 DEF Rank
<1> QED
  BY <1>2, <1>3, <1>4, <1>5

\* A named call has a place on the path.
LEMMA RankBound ==
  ASSUME NEW s, NEW i \in Nat, NEW j \in Named(s, i)
  PROVE  Rank(s, j) \in 1..Rank(s, i)
<1>1. j \in 1..i /\ j \in Nat /\ j \in Named(s, j) /\ Named(s, j) \subseteq Named(s, i)
  BY DEF Named
<1>2. IsFiniteSet(Named(s, i)) /\ IsFiniteSet(Named(s, j))
  BY <1>1, RankStep
<1>3. Rank(s, j) <= Rank(s, i)
  BY <1>1, <1>2, FS_Subset DEF Rank
<1>4. Rank(s, j) # 0
  BY <1>1, <1>2, FS_EmptySet DEF Rank
<1> QED
  BY <1>1, <1>3, <1>4, RankStep

\* Only the nodes of the calls matter.
LEMMA ShowsSame ==
  ASSUME NEW s, NEW t, NEW i \in Nat, NEW p, Shows(s, i, p),
         \A j \in 1..i : t[j].node = s[j].node
  PROVE  Shows(t, i, p)
<1>1. \A k \in 0..i : Named(t, k) = Named(s, k)
  BY DEF Named
<1>2. \A k \in 0..i : Rank(t, k) = Rank(s, k)
  BY <1>1 DEF Rank
<1>3. \A j \in Named(s, i) : j \in 1..i
  BY DEF Named
<1> QED
  BY <1>1, <1>2, <1>3 DEF Shows

\* A machine adds its child to the path; the call below a retry is not named.
LEMMA ShowsPush ==
  ASSUME NEW s, NEW i \in Nat, NEW p, Shows(s, i, p)
  PROVE  /\ i = 0 \/ Machine(s, i) => \A c \in Node : s[i + 1].node = c
                                        => Shows(s, i + 1, Append(p, c))
         /\ i > 0 /\ ~Machine(s, i) => Shows(s, i + 1, p)
<1>1. ASSUME i = 0 \/ Machine(s, i), NEW c \in Node, s[i + 1].node = c
      PROVE  Shows(s, i + 1, Append(p, c))
  <2> DEFINE q == Append(p, c)
  <2>1. /\ Named(s, i + 1) = Named(s, i) \cup {i + 1}
        /\ Rank(s, i + 1) = Rank(s, i) + 1 /\ Rank(s, i) \in Nat
    BY <1>1, RankStep
  <2>2. p \in Seq(Node) /\ Len(p) = Rank(s, i)
    BY DEF Shows
  <2>3. /\ q \in Seq(Node) /\ Len(q) = Rank(s, i) + 1 /\ q[Rank(s, i) + 1] = c
        /\ \A k \in 1..Rank(s, i) : q[k] = p[k]
    BY <2>1, <2>2
  <2> HIDE DEF q
  <2>4. \A j \in Named(s, i) : q[Rank(s, j)] = s[j].node
    BY <2>3, RankBound DEF Shows
  <2>5. Shows(s, i + 1, q)
    BY <1>1, <2>1, <2>3, <2>4 DEF Shows
  <2> QED
    BY <2>5 DEF q
<1>2. ASSUME i > 0, ~Machine(s, i) PROVE Shows(s, i + 1, p)
  BY <1>2, RankStep DEF Shows
<1> QED
  BY <1>1, <1>2

\* When the last call ends, the same path shows it leaving.
LEMMA ShowsPop ==
  ASSUME NEW s \in Seq(Frames), NEW i \in Nat, Len(s) = i + 1, NEW t, t = SubSeq(s, 1, i),
         NEW p, Shows(s, i + 1, p), s[i + 1].node = IF i = 0 THEN Root ELSE s[i].at,
         i > 0 => Kind[s[i].node] \in {"machine", "retry"}
  PROVE  ShowsLeaving(t, p)
<1>1. t \in Seq(Frames) /\ Len(t) = i /\ \A j \in 1..i : t[j] = s[j]
  OBVIOUS
<1>2. \A k \in 0..i : Named(t, k) = Named(s, k)
  BY <1>1 DEF Named
<1>3. \A k \in 0..i : Rank(t, k) = Rank(s, k)
  BY <1>2 DEF Rank
<1>4. \A j \in Named(s, i) : j \in 1..i
  BY DEF Named
<1>5. CASE i > 0 /\ Kind[s[i].node] = "retry"
  <2>1. Named(s, i + 1) = Named(s, i) /\ Rank(s, i + 1) = Rank(s, i)
    BY <1>5, RankStep DEF Machine
  <2>2. Shows(t, i, p)
    BY <1>1, <1>2, <1>3, <1>4, <2>1 DEF Shows
  <2> QED
    BY <1>1, <1>5, <2>2 DEF ShowsLeaving
<1>6. CASE i = 0 \/ Kind[s[i].node] = "machine"
  <2>1. /\ Named(s, i + 1) = Named(s, i) \cup {i + 1}
        /\ Rank(s, i + 1) = Rank(s, i) + 1 /\ Rank(s, i) \in Nat
    BY <1>6, RankStep DEF Machine
  <2>2. Leaves(t, p, IF t = <<>> THEN Root ELSE t[Len(t)].at)
    <3>1. (IF t = <<>> THEN Root ELSE t[Len(t)].at) = s[i + 1].node
      BY <1>1
    <3>2. Len(p) = Rank(s, i) + 1 /\ p[Len(p)] = s[i + 1].node
      BY <2>1 DEF Shows
    <3> QED
      BY <1>1, <1>2, <1>3, <1>4, <2>1, <3>1, <3>2 DEF Shows, Leaves
  <2> QED
    BY <1>1, <1>6, <2>2 DEF ShowsLeaving
<1> QED
  BY <1>5, <1>6

-----------------------------------------------------------------------------
(* The invariant.                                                          *)

Leave == mode \in {"return", "raise"}

\* How often a call may have come back to its child.
Bound(n) == IF Kind[n] = "retry" THEN MaxRetries + 1 ELSE VisitCap

\* Each call is of the child that the one below is at, and every machine that
\* called keeps the path of the calls up to itself.
Calls(s) ==
  /\ s \in Seq(Frames)
  /\ s # <<>> => s[1].node = Root
  /\ \A i \in 1..Len(s) : s[i].count <= Bound(s[i].node)
  /\ \A i \in 1..Len(s) - 1 : Kind[s[i].node] # "leaf" /\ s[i + 1].node = s[i].at

Parents(s) == \A i \in 1..Len(s) - 1 : Machine(s, i) => Shows(s, i, s[i].parent)

StackOK(s) == Calls(s) /\ Parents(s)

\* A machine is called back only from its child, a retry has an attempt left
\* when it is about to call.
TopOK ==
  /\ mode \in {"idle", "ended"} => stack = <<>>
  /\ mode \in {"exec", "enter"} => stack # <<>>
  /\ mode = "enter" => InTop("machine")
  /\ mode = "exec" /\ InTop("retry") => Top.count <= MaxRetries
  /\ Leave => /\ ~InTop("leaf")
              /\ InTop("machine") => Shows(stack, Len(stack), Top.parent)

\* What is on its way to the caller; the root returns its own outcomes only.
ValueOK ==
  /\ mode \in {"idle", "exec", "enter", "return", "raise", "ended"}
  /\ value \in Name \cup Exception \cup {"none"}
  /\ mode = "return" /\ stack = <<>> => value \in Outcomes[Root]
  /\ mode = "raise" => value \in Exception /\ (value = "Cancelled" => token)
  /\ token \in BOOLEAN

PathOK ==
  /\ globalPath = path
  /\ mode \in {"idle", "ended"} => path = <<>>
  /\ mode \in {"exec", "enter"} => Shows(stack, Len(stack), path)
  /\ Leave => ShowsLeaving(stack, path)

IInv == StackOK(stack) /\ TopOK /\ ValueOK /\ PathOK

-----------------------------------------------------------------------------
(* The stack.                                                              *)

LEMMA FrameTyped ==
  ASSUME NEW n \in Node
  PROVE  /\ Frame(n) \in Frames /\ Frame(n).node = n /\ Frame(n).count = 0
         /\ 0 <= Bound(n) /\ Bound(n) \in Nat
         /\ Kind[n] \in {"machine", "retry", "leaf"}
<1>1. (IF Kind[n] = "leaf" THEN n ELSE Initial[n]) \in Node
  BY TreeAssumption DEF WellBuilt
<1>2. <<>> \in Seq(Node)
  OBVIOUS
<1>3. Kind[n] \in {"machine", "retry", "leaf"}
  BY TreeAssumption DEF WellBuilt
<1> QED
  BY <1>1, <1>2, <1>3, TreeAssumption DEF WellBuilt, Frame, Frames, Bound

\* The last call ends: what it showed is shown as leaving.
LEMMA PopOK ==
  ASSUME NEW s, StackOK(s), s # <<>>, NEW t, t = SubSeq(s, 1, Len(s) - 1)
  PROVE  /\ StackOK(t)
         /\ Len(s) \in Nat /\ Len(t) = Len(s) - 1
         /\ t # <<>> => /\ Kind[t[Len(t)].node] \in {"machine", "retry"}
                        /\ Machine(t, Len(t)) => Shows(t, Len(t), t[Len(t)].parent)
         /\ \A p : Shows(s, Len(s), p) => ShowsLeaving(t, p)
<1> DEFINE i == Len(s) - 1
<1>1. s \in Seq(Frames) /\ i \in Nat /\ Len(s) = i + 1 /\ t = SubSeq(s, 1, i)
  BY DEF StackOK, Calls
<1>2. t \in Seq(Frames) /\ Len(t) = i /\ \A j \in 1..i : t[j] = s[j]
  BY <1>1
<1>3. ASSUME NEW j \in 1..i
      PROVE  /\ Kind[t[j].node] \in {"machine", "retry"}
             /\ Machine(t, j) => Shows(t, j, t[j].parent)
  <2>1. s[j].node \in Node /\ t[j] = s[j] /\ j \in 1..Len(s) - 1
    BY <1>1, <1>2 DEF Frames
  <2>2. Kind[t[j].node] \in {"machine", "retry"}
    BY <2>1, FrameTyped DEF StackOK, Calls
  <2>3. Machine(t, j) => Shows(s, j, t[j].parent)
    BY <2>1, Zenon DEF StackOK, Parents, Machine
  <2>4. \A k \in 1..j : t[k].node = s[k].node
    BY <1>2
  <2>5. j \in Nat
    BY <1>1
  <2> QED
    BY <2>2, <2>3, <2>4, <2>5, ShowsSame
<1>4. StackOK(t)
  <2>1. Calls(t)
    BY <1>1, <1>2 DEF StackOK, Calls
  <2>2. Parents(t)
    BY <1>2, <1>3 DEF Parents
  <2> QED
    BY <2>1, <2>2 DEF StackOK
<1>5. s[i + 1].node = IF i = 0 THEN Root ELSE s[i].at
  BY <1>1 DEF StackOK, Calls
<1>6. i > 0 => Kind[s[i].node] \in {"machine", "retry"}
  BY <1>1, <1>2, <1>3
<1>7. \A p : Shows(s, Len(s), p) => ShowsLeaving(t, p)
  BY <1>1, <1>5, <1>6, ShowsPop
<1> QED
  BY <1>1, <1>2, <1>3, <1>4, <1>7

\* u is s but for what its last call keeps.
Retopped(s, u) ==
  /\ u \in Seq(Frames) /\ Len(u) = Len(s)
  /\ \A i \in 1..Len(s) : u[i].node = s[i].node /\ (i < Len(s) => u[i] = s[i])
  /\ u[Len(s)].count <= Bound(s[Len(s)].node)

LEMMA RetopOK ==
  ASSUME NEW s, StackOK(s), s # <<>>, NEW u, Retopped(s, u)
  PROVE  /\ StackOK(u)
         /\ \A i \in 1..Len(s) : \A p : Shows(s, i, p) => Shows(u, i, p)
<1>1. s \in Seq(Frames) /\ Len(s) \in Nat \ {0} /\ Len(u) = Len(s) /\ u # <<>>
  BY DEF StackOK, Calls, Retopped
<1>2. \A i \in 1..Len(s) : \A p : Shows(s, i, p) => Shows(u, i, p)
  <2> SUFFICES ASSUME NEW i \in 1..Len(s), NEW p, Shows(s, i, p) PROVE Shows(u, i, p)
    OBVIOUS
  <2>1. \A k \in 1..i : u[k].node = s[k].node
    BY <1>1 DEF Retopped
  <2> QED
    BY <1>1, <2>1, ShowsSame
<1>3. Calls(u)
  <2>1. u[1].node = Root
    BY <1>1 DEF StackOK, Calls, Retopped
  <2>2. \A i \in 1..Len(u) : u[i].count <= Bound(u[i].node)
    BY <1>1 DEF StackOK, Calls, Retopped
  <2>3. \A i \in 1..Len(u) - 1 : Kind[u[i].node] # "leaf" /\ u[i + 1].node = u[i].at
    <3> SUFFICES ASSUME NEW i \in 1..Len(u) - 1
                 PROVE  Kind[u[i].node] # "leaf" /\ u[i + 1].node = u[i].at
      OBVIOUS
    <3>1. i \in 1..Len(s) - 1 /\ i + 1 \in 1..Len(s) /\ i < Len(s)
      BY <1>1
    <3>2. u[i] = s[i] /\ u[i + 1].node = s[i + 1].node
      BY <1>1, <3>1 DEF Retopped
    <3> QED
      BY <3>1, <3>2 DEF StackOK, Calls
  <2> QED
    BY <1>1, <2>1, <2>2, <2>3 DEF Retopped, Calls
<1>4. Parents(u)
  <2> SUFFICES ASSUME NEW i \in 1..Len(u) - 1, Machine(u, i) PROVE Shows(u, i, u[i].parent)
    BY DEF Parents
  <2>1. i \in 1..Len(s) - 1 /\ i \in 1..Len(s) /\ u[i] = s[i]
    BY <1>1 DEF Retopped
  <2>2. Shows(s, i, u[i].parent)
    BY <2>1, Zenon DEF StackOK, Parents, Machine
  <2> QED
    BY <1>2, <2>1, <2>2
<1> QED
  BY <1>2, <1>3, <1>4 DEF StackOK

\* A call of the child that the last call is at.
LEMMA PushOK ==
  ASSUME NEW u, StackOK(u), u # <<>>, NEW t,
         t = Append(u, Frame(u[Len(u)].at)),
         Kind[u[Len(u)].node] # "leaf",
         Machine(u, Len(u)) => Shows(u, Len(u), u[Len(u)].parent)
  PROVE  /\ StackOK(t) /\ Len(t) = Len(u) + 1 /\ Len(u) \in Nat \ {0}
         /\ u[Len(u)].at \in Node /\ t[Len(t)] = Frame(u[Len(u)].at)
         /\ \A p : Shows(u, Len(u), p) =>
              /\ Machine(u, Len(u)) => Shows(t, Len(t), Append(p, u[Len(u)].at))
              /\ ~Machine(u, Len(u)) => Shows(t, Len(t), p)
<1> DEFINE i == Len(u)
           c == u[i].at
<1>1. u \in Seq(Frames) /\ i \in Nat \ {0} /\ c \in Node
  <2>1. u \in Seq(Frames) /\ i \in Nat \ {0}
    BY DEF StackOK, Calls
  <2>2. u[i] \in Frames
    BY <2>1
  <2> QED
    BY <2>1, <2>2 DEF Frames
<1>2. Frame(c) \in Frames /\ Frame(c).node = c /\ Frame(c).count <= Bound(c)
  BY <1>1, FrameTyped
<1> HIDE DEF c
<1>3. /\ t \in Seq(Frames) /\ Len(t) = i + 1 /\ t[i + 1] = Frame(c)
      /\ \A j \in 1..i : t[j] = u[j]
  BY <1>1, <1>2 DEF c
<1>4. \A j \in 1..i : \A p : Shows(u, j, p) => Shows(t, j, p)
  <2> SUFFICES ASSUME NEW j \in 1..i, NEW p, Shows(u, j, p) PROVE Shows(t, j, p)
    OBVIOUS
  <2>1. \A k \in 1..j : t[k].node = u[k].node
    BY <1>3
  <2>2. j \in Nat
    BY <1>1
  <2> QED
    BY <2>1, <2>2, ShowsSame
<1>5. Parents(t)
  <2> SUFFICES ASSUME NEW j \in 1..i, Machine(t, j) PROVE Shows(t, j, t[j].parent)
    BY <1>1, <1>3 DEF Parents
  <2>1. Shows(u, j, u[j].parent)
    <3>1. CASE j = i
      BY <1>3, <3>1 DEF Machine
    <3>2. CASE j # i
      <4>1. j \in 1..Len(u) - 1
        BY <1>1, <3>2
      <4> QED
        BY <1>3, <4>1 DEF StackOK, Parents, Machine
    <3> QED
      BY <3>1, <3>2
  <2> QED
    BY <1>3, <1>4, <2>1
<1>6. Calls(t)
  BY <1>1, <1>2, <1>3 DEF StackOK, Calls, c
<1>7. ASSUME NEW p, Shows(u, i, p)
      PROVE  /\ Machine(u, i) => Shows(t, i + 1, Append(p, c))
             /\ ~Machine(u, i) => Shows(t, i + 1, p)
  <2>1. Shows(t, i, p) /\ t[i + 1].node = c /\ (Machine(t, i) <=> Machine(u, i))
    BY <1>1, <1>2, <1>3, <1>4, <1>7 DEF Machine
  <2>2. i \in Nat /\ i > 0 /\ c \in Node
    BY <1>1
  <2>3. ASSUME Machine(u, i) PROVE Shows(t, i + 1, Append(p, c))
    BY <2>1, <2>2, <2>3, ShowsPush
  <2>4. ASSUME ~Machine(u, i) PROVE Shows(t, i + 1, p)
    BY <2>1, <2>2, <2>4, ShowsPush
  <2> QED
    BY <2>3, <2>4
<1> QED
  BY <1>1, <1>3, <1>5, <1>6, <1>7 DEF StackOK, c

-----------------------------------------------------------------------------
(* The steps.                                                              *)

LEMMA TopFacts ==
  ASSUME StackOK(stack), stack # <<>>
  PROVE  /\ Len(stack) \in Nat \ {0} /\ stack \in Seq(Frames) /\ Top \in Frames
         /\ Top.node \in Node /\ Top.at \in Node
         /\ Kind[Top.node] \in {"machine", "retry", "leaf"}
         /\ Below = <<>> => Top.node = Root
<1>1. stack \in Seq(Frames) /\ Len(stack) \in Nat \ {0}
  BY DEF StackOK, Calls
<1>2. Top \in Frames
  BY <1>1 DEF Top
<1>3. Top.node \in Node /\ Top.at \in Node
  BY <1>2 DEF Frames
<1>4. Below = <<>> => Top.node = Root
  <2>1. Len(Below) = Len(stack) - 1
    BY <1>1, PopOK DEF Below
  <2>2. Below = <<>> => Len(stack) = 1
    BY <1>1, <2>1
  <2> QED
    BY <2>2 DEF StackOK, Calls, Top
<1> QED
  BY <1>1, <1>2, <1>3, <1>4, FrameTyped

\* A call that returns or raises, whatever its value.
LEMMA PopStep ==
  ASSUME StackOK(stack), stack # <<>>, stack' = Below, Shows(stack, Len(stack), path'),
         globalPath' = path', mode' \in {"return", "raise"}
  PROVE  StackOK(stack)' /\ TopOK' /\ PathOK'
<1>1. stack' = SubSeq(stack, 1, Len(stack) - 1)
  BY DEF Below
<1>2. /\ StackOK(stack')
      /\ stack' # <<>> => /\ Kind[stack'[Len(stack')].node] \in {"machine", "retry"}
                          /\ Machine(stack', Len(stack'))
                               => Shows(stack', Len(stack'), stack'[Len(stack')].parent)
      /\ ShowsLeaving(stack', path')
  BY <1>1, PopOK
<1>3. TopOK'
  BY <1>2 DEF TopOK, InTop, Top, Machine, Leave
<1>4. PathOK'
  BY <1>2 DEF PathOK, Leave
<1> QED
  BY <1>2, <1>3, <1>4

\* A call of the child that the last call is at, after that call changed.
LEMMA PushStep ==
  ASSUME StackOK(stack), stack # <<>>, NEW u, Retopped(stack, u),
         u[Len(stack)].at = Top.at, stack' = Append(u, Frame(Top.at)),
         Kind[Top.node] # "leaf", Shows(stack, Len(stack), path),
         InTop("machine") => u[Len(stack)].parent = path /\ path' = Append(path, Top.at),
         ~InTop("machine") => path' = path,
         globalPath' = path', mode' = "exec"
  PROVE  StackOK(stack)' /\ TopOK' /\ PathOK'
<1>1. Len(u) = Len(stack) /\ Len(stack) \in Nat \ {0} /\ u # <<>> /\ u \in Seq(Frames)
  BY TopFacts DEF Retopped
<1>2. StackOK(u) /\ Shows(u, Len(u), path)
  BY <1>1, RetopOK
<1>3. u[Len(u)].node = Top.node /\ u[Len(u)].at = Top.at
  BY <1>1 DEF Retopped, Top
<1>4. Machine(u, Len(u)) <=> InTop("machine")
  BY <1>3 DEF InTop, Machine
<1>5. Machine(u, Len(u)) => Shows(u, Len(u), u[Len(u)].parent)
  BY <1>1, <1>2, <1>4
<1>6. /\ StackOK(stack') /\ Len(stack') = Len(u) + 1
      /\ stack'[Len(stack')] = Frame(Top.at) /\ Top.at \in Node
      /\ Machine(u, Len(u)) => Shows(stack', Len(stack'), Append(path, Top.at))
      /\ ~Machine(u, Len(u)) => Shows(stack', Len(stack'), path)
  <2>1. stack' = Append(u, Frame(u[Len(u)].at))
    BY <1>3
  <2>2. Kind[u[Len(u)].node] # "leaf"
    BY <1>3
  <2> QED
    BY <1>1, <1>2, <1>3, <1>5, <2>1, <2>2, PushOK
<1>7. Shows(stack', Len(stack'), path')
  BY <1>4, <1>6
<1>8. TopOK'
  <2>1. stack' # <<>> /\ stack'[Len(stack')].count = 0
    BY <1>1, <1>6, FrameTyped
  <2> QED
    BY <2>1, TreeAssumption DEF WellBuilt, TopOK, InTop, Top, Leave
<1> QED
  BY <1>6, <1>7, <1>8 DEF PathOK, Leave

\* The last call changes what it keeps and goes on.
LEMMA RetopStep ==
  ASSUME StackOK(stack), stack # <<>>, Retopped(stack, stack'),
         Shows(stack, Len(stack), path'), globalPath' = path',
         \/ mode' = "enter" /\ InTop("machine")
         \/ mode' = "exec" /\ (InTop("retry") => stack'[Len(stack)].count <= MaxRetries)
  PROVE  StackOK(stack)' /\ TopOK' /\ PathOK'
<1>1. Len(stack') = Len(stack) /\ Len(stack) \in Nat \ {0} /\ stack' # <<>>
  BY TopFacts DEF Retopped
<1>2. StackOK(stack') /\ Shows(stack', Len(stack'), path')
  BY <1>1, RetopOK
<1>3. stack'[Len(stack')].node = Top.node
  BY <1>1 DEF Retopped, Top
<1>4. TopOK'
  BY <1>1, <1>3 DEF TopOK, InTop, Top, Leave
<1> QED
  BY <1>1, <1>2, <1>4 DEF PathOK, Leave

\* What the three ways to change the last call do.
LEMMA RetopWays ==
  ASSUME StackOK(stack), stack # <<>>
  PROVE  /\ \A k \in Nat : k <= Bound(Top.node) =>
              LET u == [stack EXCEPT ![Len(stack)].count = k]
              IN  /\ Retopped(stack, u) /\ u[Len(stack)].count = k
                  /\ u[Len(stack)].at = Top.at
         /\ \A p \in Seq(Node) :
              LET u == [stack EXCEPT ![Len(stack)].parent = p]
              IN  /\ Retopped(stack, u) /\ u[Len(stack)].parent = p
                  /\ u[Len(stack)].at = Top.at
         /\ \A t \in Node :
              LET u == [stack EXCEPT ![Len(stack)].at = t]
              IN  Retopped(stack, u) /\ u[Len(stack)].count = Top.count
<1> DEFINE n == Len(stack)
<1>1. n \in Nat \ {0} /\ stack \in Seq(Frames) /\ stack[n] \in Frames /\ Top = stack[n]
  BY TopFacts DEF Top
<1>2. stack[n].count <= Bound(stack[n].node)
  BY <1>1 DEF StackOK, Calls
<1>3. ASSUME NEW f \in Frames, f.node = stack[n].node, f.count <= Bound(f.node)
      PROVE  Retopped(stack, [stack EXCEPT ![n] = f]) /\ [stack EXCEPT ![n] = f][n] = f
  BY <1>1, <1>3 DEF Retopped
<1>4. ASSUME NEW k \in Nat, k <= Bound(Top.node)
      PROVE  LET u == [stack EXCEPT ![n].count = k]
             IN  Retopped(stack, u) /\ u[n].count = k /\ u[n].at = Top.at
  <2> DEFINE f == [stack[n] EXCEPT !.count = k]
  <2>1. f \in Frames /\ f.node = stack[n].node /\ f.count = k /\ f.at = stack[n].at
    BY <1>1 DEF Frames
  <2> HIDE DEF f
  <2>2. Retopped(stack, [stack EXCEPT ![n] = f]) /\ [stack EXCEPT ![n] = f][n] = f
    BY <1>1, <1>3, <1>4, <2>1
  <2> QED
    BY <1>1, <2>1, <2>2 DEF f
<1>5. ASSUME NEW p \in Seq(Node)
      PROVE  LET u == [stack EXCEPT ![n].parent = p]
             IN  Retopped(stack, u) /\ u[n].parent = p /\ u[n].at = Top.at
  <2> DEFINE f == [stack[n] EXCEPT !.parent = p]
  <2>1. /\ f \in Frames /\ f.node = stack[n].node /\ f.parent = p /\ f.at = stack[n].at
        /\ f.count = stack[n].count
    BY <1>1 DEF Frames
  <2> HIDE DEF f
  <2>2. Retopped(stack, [stack EXCEPT ![n] = f]) /\ [stack EXCEPT ![n] = f][n] = f
    BY <1>1, <1>2, <1>3, <2>1
  <2> QED
    BY <1>1, <2>1, <2>2 DEF f
<1>6. ASSUME NEW t \in Node
      PROVE  LET u == [stack EXCEPT ![n].at = t]
             IN  Retopped(stack, u) /\ u[n].count = Top.count
  <2> DEFINE f == [stack[n] EXCEPT !.at = t]
  <2>1. f \in Frames /\ f.node = stack[n].node /\ f.count = stack[n].count
    BY <1>1 DEF Frames
  <2> HIDE DEF f
  <2>2. Retopped(stack, [stack EXCEPT ![n] = f]) /\ [stack EXCEPT ![n] = f][n] = f
    BY <1>1, <1>2, <1>3, <2>1
  <2> QED
    BY <1>1, <2>1, <2>2 DEF f
<1> QED
  BY <1>4, <1>5, <1>6
LEMMA InitInv == Init => IInv
<1> SUFFICES ASSUME Init PROVE IInv
  OBVIOUS
<1>1. token \in BOOLEAN
  BY Zenon DEF Init
<1>2. StackOK(stack)
  BY DEF Init, StackOK, Calls, Parents
<1>3. TopOK
  BY DEF Init, TopOK, Leave
<1>4. ValueOK
  BY <1>1 DEF Init, ValueOK
<1>5. PathOK
  BY DEF Init, PathOK, Leave
<1> QED
  BY <1>2, <1>3, <1>4, <1>5 DEF IInv

\* Names and exceptions are values.
LEMMA Values ==
  /\ \A n \in Node : Outcomes[n] \subseteq Name
  /\ {"HfsmError", "TransitionError", "LeafError", "Cancelled"} \subseteq Exception
  /\ Undeclared \in Name
<1>1. \A n \in Node : Outcomes[n] \subseteq Name
  BY Zenon DEF Name
<1>2. Undeclared \in Name
  BY Zenon DEF Name
<1> QED
  BY <1>1, <1>2 DEF Exception

LEMMA StepInv == IInv /\ [Next]_vars => IInv'
<1> SUFFICES ASSUME IInv, [Next]_vars PROVE IInv'
  OBVIOUS
<1>1. StackOK(stack) /\ TopOK /\ ValueOK /\ PathOK
  BY DEF IInv
<1>2. CASE RequestCancel
  <2>1. UNCHANGED <<mode, value, stack, path, globalPath>> /\ token' \in BOOLEAN /\ token'
    BY <1>2, Zenon DEF RequestCancel
  <2>2. StackOK(stack)' /\ TopOK' /\ PathOK'
    BY <1>1, <2>1 DEF TopOK, PathOK, InTop, Top, Leave
  <2>3. ValueOK'
    BY <1>1, <2>1 DEF ValueOK
  <2> QED
    BY <2>2, <2>3 DEF IInv
<1>3. CASE UNCHANGED vars
  <2>1. UNCHANGED <<mode, value, stack, path, globalPath, token>>
    BY <1>3 DEF vars
  <2>2. StackOK(stack)' /\ TopOK' /\ PathOK'
    BY <1>1, <2>1 DEF TopOK, PathOK, InTop, Top, Leave
  <2>3. ValueOK'
    BY <1>1, <2>1 DEF ValueOK
  <2> QED
    BY <2>2, <2>3 DEF IInv
<1>4. CASE Run
  <2>1. stack = <<>> /\ UNCHANGED token /\ mode = "idle"
    BY <1>1, <1>4 DEF Run, TopOK
  <2>2. CASE mode' = "ended" /\ value' = "HfsmError" /\ UNCHANGED <<stack, path, globalPath>>
    <3>1. StackOK(stack)' /\ TopOK' /\ PathOK'
      BY <1>1, <2>1, <2>2 DEF TopOK, PathOK, Leave
    <3>2. ValueOK'
      BY <1>1, <2>1, <2>2, Values DEF ValueOK
    <3> QED
      BY <3>1, <3>2 DEF IInv
  <2>3. CASE mode' = "exec" /\ Push(<<>>, Root) /\ SetPath(<<Root>>) /\ UNCHANGED value
    <3>1. Root \in Node /\ Kind[Root] = "machine"
      BY TreeAssumption DEF WellBuilt
    <3>2. /\ stack' = <<Frame(Root)>> /\ Len(stack') = 1 /\ stack'[1] = Frame(Root)
          /\ Frame(Root) \in Frames /\ stack' # <<>>
      BY <2>3, <3>1, FrameTyped DEF Push
    <3>3. StackOK(stack')
      <4>1. Calls(stack')
        BY <3>1, <3>2, FrameTyped DEF Calls
      <4>2. Parents(stack')
        BY <3>2 DEF Parents
      <4> QED
        BY <4>1, <4>2 DEF StackOK
    <3>4. Shows(stack', Len(stack'), path')
      <4>1. Shows(stack', 0, <<>>)
        <5>1. Rank(stack', 0) = 0
          BY RankStep
        <5>2. Named(stack', 0) = {}
          BY DEF Named
        <5> QED
          BY <5>1, <5>2 DEF Shows
      <4>2. stack'[0 + 1].node = Root
        BY <3>1, <3>2, FrameTyped
      <4>3. Shows(stack', 0 + 1, Append(<<>>, Root))
        BY <3>1, <4>1, <4>2, ShowsPush
      <4>4. path' = Append(<<>>, Root)
        BY <2>3 DEF SetPath
      <4> QED
        BY <3>2, <4>3, <4>4
    <3>5. TopOK'
      BY <2>3, <3>1, <3>2, FrameTyped DEF TopOK, InTop, Top, Leave
    <3>6. PathOK'
      BY <2>3, <3>4 DEF PathOK, Leave, SetPath
    <3>7. ValueOK'
      BY <1>1, <2>1, <2>3 DEF ValueOK
    <3> QED
      BY <3>3, <3>5, <3>6, <3>7 DEF IInv
  <2> QED
    BY <1>4, <2>2, <2>3 DEF Run
<1>5. CASE Visit
  <2>1. /\ stack # <<>> /\ InTop("machine") /\ Shows(stack, Len(stack), path)
        /\ UNCHANGED <<path, globalPath, token>> /\ globalPath = path
    BY <1>1, <1>5 DEF Visit, InTop, PathOK
  <2>2. ASSUME stack' = Below, mode' = "raise",
               value' = "HfsmError" \/ (value' = "Cancelled" /\ token)
        PROVE  IInv'
    <3>1. StackOK(stack)' /\ TopOK' /\ PathOK'
      BY <1>1, <2>1, <2>2, PopStep
    <3>2. ValueOK'
      BY <1>1, <2>1, <2>2, Values DEF ValueOK
    <3> QED
      BY <3>1, <3>2 DEF IInv
  <2>3. ASSUME Top.count + 1 <= VisitCap, mode' = "enter", UNCHANGED value,
               stack' = [stack EXCEPT ![Len(stack)].count = Top.count + 1]
        PROVE  IInv'
    <3>1. Top.count + 1 \in Nat /\ Top.count + 1 <= Bound(Top.node)
      BY <1>1, <2>1, <2>3, TopFacts DEF Bound, InTop, Frames
    <3>2. Retopped(stack, stack')
      BY <1>1, <2>1, <2>3, <3>1, RetopWays
    <3>3. StackOK(stack)' /\ TopOK' /\ PathOK'
      BY <1>1, <2>1, <2>3, <3>2, RetopStep
    <3>4. ValueOK'
      BY <1>1, <2>1, <2>3 DEF ValueOK
    <3> QED
      BY <3>3, <3>4 DEF IInv
  <2> QED
    <3>1. \/ mode' = "raise" /\ value' = "HfsmError" /\ stack' = Below
          \/ mode' = "raise" /\ value' = "Cancelled" /\ token /\ stack' = Below
          \/ /\ Top.count + 1 <= VisitCap /\ mode' = "enter" /\ UNCHANGED value
             /\ stack' = [stack EXCEPT ![Len(stack)].count = Top.count + 1]
      BY <1>5, Zenon DEF Visit, Raise
    <3>2. CASE mode' = "raise" /\ value' = "HfsmError" /\ stack' = Below
      BY <2>2, <3>2
    <3>3. CASE mode' = "raise" /\ value' = "Cancelled" /\ token /\ stack' = Below
      BY <2>2, <3>3
    <3>4. CASE /\ Top.count + 1 <= VisitCap /\ mode' = "enter" /\ UNCHANGED value
               /\ stack' = [stack EXCEPT ![Len(stack)].count = Top.count + 1]
      BY <2>3, <3>4
    <3> QED
      BY <3>1, <3>2, <3>3, <3>4
<1>6. CASE Enter
  <2>1. /\ stack # <<>> /\ InTop("machine") /\ Shows(stack, Len(stack), path)
        /\ UNCHANGED <<value, token>> /\ mode' = "exec"
        /\ path' = Append(path, Top.at) /\ globalPath' = path'
        /\ Kind[Top.node] # "leaf" /\ path \in Seq(Node)
    BY <1>1, <1>6 DEF Enter, TopOK, InTop, PathOK, SetPath, Shows
  <2> DEFINE u == [stack EXCEPT ![Len(stack)].parent = path]
  <2>2. Retopped(stack, u) /\ u[Len(stack)].parent = path /\ u[Len(stack)].at = Top.at
    BY <1>1, <2>1, RetopWays
  <2>3. stack' = Append(u, Frame(Top.at))
    BY <1>6 DEF Enter, Push
  <2> HIDE DEF u
  <2>4. StackOK(stack)' /\ TopOK' /\ PathOK'
    BY <1>1, <2>1, <2>2, <2>3, PushStep
  <2>5. ValueOK'
    BY <1>1, <2>1 DEF ValueOK
  <2> QED
    BY <2>4, <2>5 DEF IInv
<1>7. CASE Attempt
  <2>1. /\ stack # <<>> /\ InTop("retry") /\ ~InTop("machine")
        /\ Shows(stack, Len(stack), path) /\ mode' = "exec"
        /\ UNCHANGED <<value, token, path, globalPath>> /\ globalPath = path
        /\ Kind[Top.node] # "leaf"
    BY <1>1, <1>7 DEF Attempt, InTop, PathOK
  <2> DEFINE u == [stack EXCEPT ![Len(stack)].count = Top.count + 1]
  <2>2. Top.count + 1 \in Nat /\ Top.count + 1 <= Bound(Top.node)
    BY <1>1, <1>7, <2>1, TopFacts, TreeAssumption DEF WellBuilt, Attempt, TopOK, Bound, InTop, Frames
  <2>3. Retopped(stack, u) /\ u[Len(stack)].at = Top.at
    BY <1>1, <2>1, <2>2, RetopWays
  <2>4. stack' = Append(u, Frame(Top.at))
    BY <1>7 DEF Attempt, Push, Top
  <2> HIDE DEF u
  <2>5. StackOK(stack)' /\ TopOK' /\ PathOK'
    BY <1>1, <2>1, <2>3, <2>4, PushStep
  <2>6. ValueOK'
    BY <1>1, <2>1 DEF ValueOK
  <2> QED
    BY <2>5, <2>6 DEF IInv
<1>8. CASE LeafEnd \/ LeafCancel
  <2>1. /\ stack # <<>> /\ InTop("leaf") /\ Shows(stack, Len(stack), path)
        /\ stack' = Below /\ UNCHANGED <<path, globalPath, token>> /\ globalPath = path
        /\ mode' \in {"return", "raise"}
    BY <1>1, <1>8 DEF LeafEnd, LeafCancel, InTop, PathOK, Return, Raise
  <2>2. StackOK(stack)' /\ TopOK' /\ PathOK'
    BY <1>1, <2>1, PopStep
  <2>3. stack' # <<>>
    BY <1>1, <2>1, TopFacts, TreeAssumption DEF WellBuilt, InTop
  <2>4. value' \in Name \cup Exception
    BY <1>1, <1>8, <2>1, TopFacts, Values DEF LeafEnd, LeafCancel, Return, Raise
  <2>5. mode' = "raise" => value' \in Exception /\ (value' = "Cancelled" => token')
    BY <1>8, <2>1, Values DEF LeafEnd, LeafCancel, Return, Raise
  <2>6. ValueOK'
    BY <1>1, <2>1, <2>3, <2>4, <2>5 DEF ValueOK
  <2> QED
    BY <2>2, <2>6 DEF IInv
<1>9. CASE Follow
  <2>1. /\ stack # <<>> /\ InTop("machine") /\ Shows(stack, Len(stack), path')
        /\ UNCHANGED token /\ globalPath' = path' /\ Top.node \in Node
    BY <1>1, <1>9, TopFacts DEF Follow, TopOK, Leave, InTop, SetPath
  <2>2. ASSUME stack' = Below,
               \/ mode' = "return" /\ value' \in Outcomes[Top.node]
               \/ mode' = "raise" /\ value' = "TransitionError"
        PROVE  IInv'
    <3>1. StackOK(stack)' /\ TopOK' /\ PathOK'
      BY <1>1, <2>1, <2>2, PopStep
    <3>2. stack' = <<>> => Top.node = Root
      BY <1>1, <2>1, <2>2, TopFacts
    <3>3. ValueOK'
      BY <1>1, <2>1, <2>2, <3>2, Values DEF ValueOK
    <3> QED
      BY <3>1, <3>3 DEF IInv
  <2>3. ASSUME NEW t \in Children(Top.node), mode' = "exec", UNCHANGED value,
               stack' = [stack EXCEPT ![Len(stack)].at = t]
        PROVE  IInv'
    <3>1. t \in Node
      BY <2>1, TreeAssumption DEF WellBuilt, Children, InTop
    <3>2. Retopped(stack, stack')
      BY <1>1, <2>1, <2>3, <3>1, RetopWays
    <3>3. StackOK(stack)' /\ TopOK' /\ PathOK'
      BY <1>1, <2>1, <2>3, <3>2, RetopStep DEF InTop
    <3>4. ValueOK'
      BY <1>1, <2>1, <2>3 DEF ValueOK
    <3> QED
      BY <3>3, <3>4 DEF IInv
  <2> QED
    BY <1>9, <2>2, <2>3, Zenon DEF Follow, Return, Raise
<1>10. CASE Again
  <2>1. /\ stack # <<>> /\ InTop("retry") /\ ~InTop("machine") /\ mode = "return"
        /\ Shows(stack, Len(stack), path) /\ UNCHANGED <<path, globalPath, token, value>>
        /\ globalPath = path
    BY <1>1, <1>10 DEF Again, InTop, Top, PathOK, Leave, ShowsLeaving
  <2>2. CASE Top.count <= MaxRetries /\ mode' = "exec" /\ UNCHANGED stack
    <3>1. TopOK' /\ PathOK' /\ StackOK(stack)'
      BY <1>1, <2>1, <2>2 DEF TopOK, PathOK, InTop, Top, Leave
    <3>2. ValueOK'
      BY <1>1, <2>1, <2>2 DEF ValueOK
    <3> QED
      BY <3>1, <3>2 DEF IInv
  <2>3. CASE stack' = Below /\ UNCHANGED mode
    <3>1. StackOK(stack)' /\ TopOK' /\ PathOK'
      BY <1>1, <2>1, <2>3, PopStep
    <3>2. stack' # <<>>
      BY <1>1, <2>1, <2>3, TopFacts, TreeAssumption DEF WellBuilt, InTop
    <3>3. ValueOK'
      BY <1>1, <2>1, <2>3, <3>2 DEF ValueOK
    <3> QED
      BY <3>1, <3>3 DEF IInv
  <2> QED
    BY <1>10, <2>2, <2>3 DEF Again
<1>11. CASE Unwind
  <2>1. /\ stack # <<>> /\ mode = "raise" /\ stack' = Below
        /\ UNCHANGED <<mode, value, token>>
    BY <1>11 DEF Unwind
  <2>2. Shows(stack, Len(stack), path') /\ globalPath' = path'
    <3>1. CASE InTop("machine")
      BY <1>1, <1>11, <2>1, <3>1 DEF Unwind, TopOK, Leave, SetPath
    <3>2. CASE ~InTop("machine")
      <4>1. Kind[Top.node] = "retry"
        BY <1>1, <2>1, <3>2, TopFacts DEF TopOK, Leave, InTop
      <4> QED
        BY <1>1, <1>11, <2>1, <3>2, <4>1 DEF Unwind, PathOK, Leave, ShowsLeaving, Top
    <3> QED
      BY <3>1, <3>2
  <2>3. StackOK(stack)' /\ TopOK' /\ PathOK'
    BY <1>1, <2>1, <2>2, PopStep
  <2>4. ValueOK'
    BY <1>1, <2>1 DEF ValueOK
  <2> QED
    BY <2>3, <2>4 DEF IInv
<1>12. CASE Finish
  <2>1. /\ stack = <<>> /\ mode' = "ended" /\ path' = <<>> /\ globalPath' = path'
        /\ UNCHANGED <<value, stack, token>>
    BY <1>12 DEF Finish, SetPath
  <2>2. StackOK(stack)' /\ TopOK' /\ PathOK'
    BY <1>1, <2>1 DEF TopOK, PathOK, Leave
  <2>3. ValueOK'
    BY <1>1, <2>1 DEF ValueOK
  <2> QED
    BY <2>2, <2>3 DEF IInv
<1> QED
  BY <1>2, <1>3, <1>4, <1>5, <1>6, <1>7, <1>8, <1>9, <1>10, <1>11, <1>12 DEF Next, Step

LEMMA Inductive == Spec => []IInv
  BY InitInv, StepInv, PTL DEF Spec

-----------------------------------------------------------------------------
\* The types hold in every reachable state, among them that no machine is
\* visited more often than visit_cap (state_machine.py:119) and no inner state
\* attempted more than max_retries + 1 times (decorators.py:55).
THEOREM EngineTypeCorrect == Spec => []TypeOK
<1>1. IInv => TypeOK
  <2> SUFFICES ASSUME IInv PROVE TypeOK
    OBVIOUS
  <2>1. stack \in Seq(Frames) /\ \A i \in 1..Len(stack) : stack[i].count <= Bound(stack[i].node)
    BY DEF IInv, StackOK, Calls
  <2>2. ASSUME NEW i \in 1..Len(stack)
        PROVE  /\ stack[i].node \in Node /\ stack[i].at \in Node
               /\ stack[i].count \in 0..(IF Kind[stack[i].node] = "retry" THEN MaxRetries + 1
                                                                          ELSE VisitCap)
    <3>1. stack[i] \in Frames
      BY <2>1
    <3> QED
      BY <2>1, <3>1, TreeAssumption DEF WellBuilt, Frames, Bound
  <2> QED
    BY <2>2 DEF IInv, ValueOK, TypeOK
<1> QED
  BY <1>1, Inductive, PTL

\* The path that is shown is the stack of calls, whatever was raised, retried
\* or revisited on the way (observer.py:65-96).
THEOREM PathCorrect == Spec => []PathIsStack
<1>1. IInv => PathIsStack
  <2> SUFFICES ASSUME IInv PROVE PathIsStack
    OBVIOUS
  <2>1. StackOK(stack) /\ TopOK /\ ValueOK /\ PathOK
    BY DEF IInv
  <2>2. ASSUME mode \notin {"idle", "ended"}
        PROVE  /\ Len(path) = Rank(stack, Len(stack)) + Len(Leaving)
               /\ \A i \in Named(stack, Len(stack)) : path[Rank(stack, i)] = stack[i].node
               /\ Leaving # <<>> => path[Len(path)] = Leaving[1]
    <3>0. Len(stack) \in Nat
      BY <2>1 DEF StackOK, Calls
    <3>1. Rank(stack, Len(stack)) \in Nat
      BY <3>0, RankStep
    <3>2. CASE mode \in {"exec", "enter"}
      <4>1. Leaving = <<>> /\ Shows(stack, Len(stack), path)
        BY <2>1, <3>2 DEF Leaving, PathOK
      <4> QED
        BY <3>1, <4>1 DEF Shows
    <3>3. CASE Leave /\ InTop("retry")
      <4>1. Leaving = <<>> /\ Shows(stack, Len(stack), path)
        BY <2>1, <3>3 DEF Leaving, PathOK, ShowsLeaving, InTop, Top
      <4> QED
        BY <3>1, <4>1 DEF Shows
    <3>4. CASE Leave /\ ~InTop("retry")
      <4> DEFINE c == IF stack = <<>> THEN Root ELSE Top.at
      <4>1. Leaving = <<c>> /\ Leaves(stack, path, c)
        BY <2>1, <3>4 DEF Leaving, Leave, PathOK, ShowsLeaving, InTop, Top
      <4> HIDE DEF c
      <4>2. Len(Leaving) = 1 /\ Leaving[1] = c
        BY <4>1
      <4> QED
        BY <4>1, <4>2 DEF Leaves
    <3> QED
      BY <2>1, <2>2, <3>2, <3>3, <3>4 DEF ValueOK, Leave
  <2> QED
    BY <2>1, <2>2 DEF PathIsStack, PathOK
<1> QED
  BY <1>1, Inductive, PTL

LEMMA PathTyped == IInv => Len(path) \in Nat
<1> SUFFICES ASSUME IInv PROVE Len(path) \in Nat
  OBVIOUS
<1>0. ValueOK /\ PathOK
  BY DEF IInv
<1>1. CASE mode \in {"exec", "enter"}
  BY <1>0, <1>1 DEF PathOK, Shows
<1>2. CASE Leave
  BY <1>0, <1>2 DEF PathOK, Shows, ShowsLeaving, Leaves
<1>3. CASE mode \in {"idle", "ended"}
  BY <1>0, <1>3 DEF PathOK
<1> QED
  BY <1>0, <1>1, <1>2, <1>3 DEF ValueOK, Leave

\* With the token set no machine enters a child but for the one it was about
\* to enter (state_machine.py:125), and the path never gets longer.
THEOREM CancelHolds == Spec => CancelStopsEntering
<1> DEFINE Stops == token /\ mode \notin {"idle", "enter"}
                      => mode' # "enter" /\ Len(path') <= Len(path)
<1>1. IInv /\ [Next]_vars => [Stops]_vars
  <2> SUFFICES ASSUME IInv, Next, token, mode \notin {"idle", "enter"}
               PROVE  mode' # "enter" /\ Len(path') <= Len(path)
    BY DEF Stops
  <2>1. StackOK(stack) /\ TopOK /\ ValueOK /\ PathOK
    BY DEF IInv
  <2>2. Len(path) \in Nat
    BY PathTyped
  <2>3. ASSUME Leave, InTop("machine"), path' = Top.parent
        PROVE  Len(path') <= Len(path)
    <3>1. Shows(stack, Len(stack), path') /\ Leaves(stack, path, Top.at)
      BY <2>1, <2>3 DEF TopOK, PathOK, ShowsLeaving, InTop, Top
    <3>2. Len(stack) \in Nat
      BY <2>1 DEF StackOK, Calls
    <3> QED
      BY <3>1, <3>2, RankStep DEF Shows, Leaves
  <2>4. CASE Follow
    <3>1. Len(path') <= Len(path)
      BY <2>3, <2>4 DEF Follow, SetPath, Leave
    <3>2. mode' # "enter"
      BY <2>4 DEF Follow, Return, Raise
    <3> QED
      BY <3>1, <3>2
  <2>5. CASE Unwind
    <3>1. Len(path') <= Len(path)
      BY <2>2, <2>3, <2>5 DEF Unwind, SetPath, Leave
    <3> QED
      BY <2>5, <3>1 DEF Unwind
  <2>6. CASE Finish
    <3>1. Len(path') = 0
      BY <2>6 DEF Finish, SetPath
    <3> QED
      BY <2>2, <2>6, <3>1 DEF Finish
  <2>7. CASE Visit
    BY <2>2, <2>7 DEF Visit, Raise
  <2>8. CASE RequestCancel \/ Attempt \/ LeafEnd \/ LeafCancel \/ Again
    <3>1. UNCHANGED path
      BY <2>8 DEF RequestCancel, Attempt, LeafEnd, LeafCancel, Again
    <3>2. mode' # "enter"
      BY <2>8 DEF RequestCancel, Attempt, LeafEnd, LeafCancel, Again, Return, Raise
    <3> QED
      BY <2>2, <3>1, <3>2
  <2> QED
    BY <2>4, <2>5, <2>6, <2>7, <2>8 DEF Next, Step, Run, Enter
<1> QED
  BY <1>1, Inductive, PTL DEF Spec, CancelStopsEntering

-----------------------------------------------------------------------------
(* The refinement.                                                         *)

LEMMA RunInit == Init => SubJob!Init
<1> SUFFICES ASSUME Init PROVE SubJob!Init
  OBVIOUS
<1>1. RunState = "idle"
  BY DEF Init, RunState
<1>2. (globalPath # <<>>) = FALSE
  BY DEF Init
<1>3. token = FALSE
  BY Zenon DEF Init
<1> QED
  BY <1>1, <1>2, <1>3, Zenon DEF SubJob!Init

\* A run that is under way shows a path.
LEMMA PathShown == IInv /\ mode \in {"exec", "enter", "return", "raise"} => globalPath # <<>>
<1> SUFFICES ASSUME IInv, mode \in {"exec", "enter", "return", "raise"}
             PROVE  path # <<>> /\ globalPath = path
  OBVIOUS
<1>1. StackOK(stack) /\ TopOK /\ PathOK /\ Len(stack) \in Nat
  BY DEF IInv, StackOK, Calls
<1>2. stack # <<>> => Rank(stack, Len(stack)) > 0
  <2> SUFFICES ASSUME stack # <<>> PROVE Rank(stack, Len(stack)) > 0
    OBVIOUS
  <2>1. 1 \in Named(stack, Len(stack))
    BY <1>1, TopFacts DEF Named
  <2> QED
    BY <1>1, <2>1, RankBound, RankStep
<1>3. stack # <<>> \/ Leave
  BY <1>1 DEF TopOK, Leave
<1>4. Len(path) > 0
  <2>1. CASE Shows(stack, Len(stack), path) /\ stack # <<>>
    BY <1>2, <2>1 DEF Shows
  <2>2. CASE \E c : Leaves(stack, path, c)
    BY <1>1, <2>2, RankStep DEF Leaves
  <2> QED
    BY <1>1, <2>1, <2>2 DEF PathOK, TopOK, ShowsLeaving, Leave
<1> QED
  BY <1>1, <1>4 DEF PathOK

\* Each step of the engine is one of run() as the executor sees it, or none.
LEMMA RunStep == IInv /\ IInv' /\ [Next]_vars => [SubJob!Next]_(SubJob!vars)
<1> SUFFICES ASSUME IInv, IInv', [Next]_vars PROVE [SubJob!Next]_(SubJob!vars)
  OBVIOUS
<1> DEFINE Shown == IInv /\ mode \in {"exec", "enter", "return", "raise"} => globalPath # <<>>
<1>0. /\ TopOK /\ ValueOK /\ PathOK /\ ValueOK' /\ PathOK'
  BY DEF IInv
<1>6. Shown'
  BY PathShown, PTL
<1>1. CASE RequestCancel
  <2>1. RunState' = RunState /\ (globalPath # <<>>)' = (globalPath # <<>>)
    BY <1>1 DEF RequestCancel, RunState
  <2>2. token' = TRUE
    BY <1>1, Zenon DEF RequestCancel
  <2>3. SubJob!Want
    BY <2>1, <2>2, Zenon DEF SubJob!Want
  <2> QED
    BY <2>3 DEF SubJob!Next
<1>2. CASE Run
  <2>1. mode = "idle" /\ token' = token /\ globalPath = <<>>
    BY <1>0, <1>2 DEF Run, PathOK
  <2>2. CASE mode' = "ended" /\ value' = "HfsmError" /\ UNCHANGED globalPath
    <3>1. RunState = "idle" /\ RunState' = "error"
      BY <2>1, <2>2 DEF RunState, Exception
    <3>2. (globalPath # <<>>)' = (globalPath # <<>>)
      BY <2>2
    <3>3. SubJob!Start
      BY <2>1, <3>1, <3>2, Zenon DEF SubJob!Start
    <3> QED
      BY <3>3 DEF SubJob!Next
  <2>3. CASE mode' = "exec"
    <3>1. RunState = "idle" /\ RunState' = "running"
      BY <2>1, <2>3 DEF RunState
    <3>2. (globalPath # <<>>)' = TRUE
      BY <1>6, <2>3
    <3>3. SubJob!Start
      BY <2>1, <3>1, <3>2, Zenon DEF SubJob!Start
    <3> QED
      BY <3>3 DEF SubJob!Next
  <2> QED
    BY <1>2, <2>2, <2>3 DEF Run
<1>3. CASE Finish
  <2>1. /\ mode \in {"return", "raise"} /\ stack = <<>> /\ mode' = "ended"
        /\ globalPath' = <<>> /\ value' = value /\ token' = token
    BY <1>3 DEF Finish, SetPath
  <2>2. RunState = "running" /\ (globalPath # <<>>)' = FALSE
    BY <2>1 DEF RunState
  <2>3. RunState' \in SubJob!Result /\ (RunState' = "Cancelled" => token)
    <3>1. CASE mode = "return"
      <4>1. value \in Outcomes[Root] /\ value \notin Exception
        BY <1>0, <2>1, <3>1, TreeAssumption DEF WellBuilt, ValueOK
      <4> QED
        BY <2>1, <4>1 DEF RunState, SubJob!Result, Exception
    <3>2. CASE mode = "raise"
      BY <1>0, <2>1, <3>2 DEF ValueOK, RunState, SubJob!Result
    <3> QED
      BY <2>1, <3>1, <3>2
  <2>4. SubJob!Finish
    BY <2>1, <2>2, <2>3, Zenon DEF SubJob!Finish
  <2> QED
    BY <2>4 DEF SubJob!Next
<1>4. CASE \/ Visit \/ Enter \/ Attempt \/ LeafEnd \/ LeafCancel
           \/ Follow \/ Again \/ Unwind
  <2>1. /\ mode \in {"exec", "enter", "return", "raise"}
        /\ mode' \in {"exec", "enter", "return", "raise"} /\ token' = token
    BY <1>4 DEF Visit, Enter, Attempt, LeafEnd, LeafCancel, Follow, Again, Unwind, Return, Raise
  <2>2. RunState = "running" /\ RunState' = "running"
    BY <2>1 DEF RunState
  <2>3. (globalPath # <<>>) = TRUE /\ (globalPath # <<>>)' = TRUE
    BY <1>6, <2>1, PathShown
  <2> QED
    BY <2>1, <2>2, <2>3 DEF SubJob!vars
<1>5. CASE UNCHANGED vars
  <2>1. RunState' = RunState /\ globalPath' = globalPath /\ token' = token
    BY <1>5 DEF vars, RunState
  <2> QED
    BY <2>1 DEF SubJob!vars
<1> QED
  BY <1>1, <1>2, <1>3, <1>4, <1>5 DEF Next, Step

\* run() returns an outcome it declares or raises, Cancelled only on request,
\* and its path is shown exactly while it runs (behavior_sm.py:53-86).
THEOREM RunRefinement == Spec => ImplementsRun
  BY RunInit, RunStep, Inductive, PTL DEF Spec, ImplementsRun, SubJob!Spec
=============================================================================
