----------------------------- MODULE SpecCharts -----------------------------
(***************************************************************************)
(* The dispatches of SpecDispatch with the trees that the spec loader and  *)
(* the registry build for them, and the charts published for these.        *)
(***************************************************************************)
EXTENDS SpecDispatch, SpecLoader

CONSTANT Document  \* what a savable body parses to

ASSUME DocumentAssumption == DOMAIN Document = Savable

\* A dispatch runs a BehaviorSM and nothing else.
Built(t) == IF t # Invalid /\ t.kind = "BehaviorSM" THEN t ELSE Invalid

\* The values of Class, ClassTree and BodyTree.
Classes == DOMAIN Registry
BuiltClass == [i \in Classes |-> Built(Construct(Registry[i], NoEntries))]
BuiltBody == [b \in Savable |-> Built(Build(Document[b]))]

\* What goes out as spec_json.
Chart == ToSpec(tree)

-----------------------------------------------------------------------------
(* Properties.                                                             *)

\* The chart published for a SubJob, "compatible with build_from_spec", builds
\* the same SubJob again if and only if Keeps holds for it; whatever else it
\* builds then, a second trip changes no more.
ChartExplained ==
  job.at = "done" /\ tree # Invalid =>
    /\ Build(Chart) = tree <=> Keeps(tree)
    /\ LET again == Build(Chart) IN again # Invalid => Build(ToSpec(again)) = again
=============================================================================
