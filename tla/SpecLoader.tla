----------------------------- MODULE SpecLoader -----------------------------
(***************************************************************************)
(* build_from_spec (mw_hfsm_engine/spec_loader.py), the to_spec methods it *)
(* is the inverse of (state.py, state_machine.py, behavior_sm.py,          *)
(* parallel.py), and the registry both go through.                         *)
(*                                                                         *)
(* A spec is a parsed JSON document, a tree is what it is built into.  An  *)
(* object of named children is a sequence, since its order decides which   *)
(* child is the default initial one; a list of outcomes is a set; an empty *)
(* set, sequence or function stands for an absent field too, which the     *)
(* code treats alike, and NoName for an absent initial_state.              *)
(***************************************************************************)
EXTENDS Sequences, Naturals

CONSTANTS Registry,  \* _classes: id -> class; register takes any class
          StateClass, \* the classes that are subclasses of State
          Accepts,   \* class -> the arguments its constructor takes
          Composed,  \* class -> the tree, of the classes that build one
          NoName,    \* no initial_state
          Invalid    \* an HfsmError, or a TypeError of a constructor

\* One entry of an object of named children.
Named(n, x) == [name |-> n, of |-> x]
Each(s, Op(_)) == [k \in DOMAIN s |-> Named(s[k].name, Op(s[k].of))]
AnyInvalid(s) == \E k \in DOMAIN s : s[k].of = Invalid

-----------------------------------------------------------------------------
(* Trees.                                                                  *)

Leaf(class, args) == [kind |-> "State", class |-> class, args |-> args]

\* StateMachine(...) and BehaviorSM(...) with their children added.
Machine(kind, outcomes, initial, params, children, transitions) ==
  [kind |-> kind, outcomes |-> outcomes, params |-> params,
   children |-> children, transitions |-> transitions,
   initial |-> IF initial = NoName /\ children # <<>>
               THEN children[1].name ELSE initial]

Region(state, outcomes) == [state |-> state, outcomes |-> outcomes]
\* poll_interval_sec of a Parallel, in ms, is no part of its spec.
DefaultPoll == 5
Parallel(regions, poll) == [kind |-> "Parallel", regions |-> regions, poll |-> poll]
Retry(inner) == [kind |-> "Retry", inner |-> inner]

NoEntries == [a \in {} |-> {}]

\* What StateRegistry.resolve finds.
Registered(id) == id \in DOMAIN Registry

\* klass(node=node, **kwargs); a TypeError is tried again without node.
Construct(class, args) ==
  IF ~(DOMAIN args \subseteq Accepts[class]) THEN Invalid
  ELSE IF class \in DOMAIN Composed THEN Composed[class]
  ELSE Leaf(class, args)

-----------------------------------------------------------------------------
(* build_from_spec.                                                        *)

BuildState(s) ==
  IF Registered(s.ref) /\ Registry[s.ref] \in StateClass
  THEN Construct(Registry[s.ref], s.args)
  ELSE Invalid

Default(outcomes) == IF outcomes = {} THEN {"done", "failed"} ELSE outcomes

\* transitions.get(name, {}).
TransitionsOf(s, names) ==
  [n \in names |-> IF n \in DOMAIN s.transitions THEN s.transitions[n] ELSE NoEntries]

\* As if the initial state were left to the first child.
Attach_FirstChild(s, children) ==
  Machine(s.kind, Default(s.outcomes), NoName, s.params, children,
          TransitionsOf(s, {children[k].name : k \in DOMAIN children}))

Attach(s, children) ==
  Machine(s.kind, Default(s.outcomes), s.initial, s.params, children,
          TransitionsOf(s, {children[k].name : k \in DOMAIN children}))

RECURSIVE Build(_)
Build(s) ==
  CASE s.kind = "State" -> BuildState(s)
    [] s.kind \in {"StateMachine", "BehaviorSM"} ->
         LET children == Each(s.children, Build) IN
         IF AnyInvalid(children) THEN Invalid ELSE Attach(s, children)
    [] s.kind = "Parallel" ->
         LET RegionOf(r) == LET t == Build(r.state) IN
                            IF t = Invalid THEN Invalid ELSE Region(t, r.outcomes)
             regions == Each(s.regions, RegionOf) IN
         IF \/ s.regions = <<>> \/ s.policy # "first_wins" \/ AnyInvalid(regions)
         THEN Invalid ELSE Parallel(regions, DefaultPoll)
    [] OTHER -> Invalid

-----------------------------------------------------------------------------
(* to_spec.                                                                *)

\* State.to_spec, which no class of the repository but the containers
\* overrides: the class name, without the constructor's arguments.
StateSpec(class, args) == [kind |-> "State", ref |-> class, args |-> args]

RECURSIVE ToSpec(_)
ToSpec(t) ==
  CASE t.kind = "State" -> StateSpec(t.class, NoEntries)
    [] t.kind = "Retry" -> StateSpec("RetryDecorator", NoEntries)
    [] t.kind = "Parallel" ->
         LET RegionSpec(r) == Region(ToSpec(r.state), r.outcomes) IN
         [kind |-> "Parallel", policy |-> "first_wins",
          regions |-> Each(t.regions, RegionSpec)]
    [] OTHER -> [t EXCEPT !.children = Each(t.children, ToSpec)]

-----------------------------------------------------------------------------
(* What to_spec keeps.                                                     *)

\* The leaves were made without arguments, by classes registered under their
\* own names; there is no RetryDecorator, a Parallel polls as often as one
\* does by default, and a container has an outcome.
RECURSIVE Keeps(_)
Keeps(t) ==
  CASE t.kind = "State" -> /\ t.args = NoEntries
                           /\ Registered(t.class)
                           /\ Registry[t.class] = t.class
    [] t.kind = "Retry" -> FALSE
    [] t.kind = "Parallel" -> /\ t.poll = DefaultPoll
                              /\ \A k \in DOMAIN t.regions : Keeps(t.regions[k].of.state)
    [] OTHER -> /\ t.outcomes # {}
                /\ \A k \in DOMAIN t.children : Keeps(t.children[k].of)
=============================================================================
