-------------------------- MODULE PatternCompilation --------------------------
(***************************************************************************)
(* From the patterns of a user to evaluation trees, in the order in which  *)
(* CEP and the evaluation mechanism factory go about it: the rewriting     *)
(* passes, the choice of one plan per pattern, the merging of the plans,   *)
(* and one tree after the other.                                           *)
(*                                                                         *)
(* A setup is what the user gives: patterns, the statistics of their       *)
(* events in the order of names or none, the rules, the builder and the    *)
(* way to share.                                                           *)
(***************************************************************************)
EXTENDS PatternTransformation, TreeConstruction, PlanSelection

CONSTANT Setups

VARIABLES
    setup,
    phase,       \* "preprocess", "plan", "build"
    patterns,    \* current_patterns of the preprocessor, then the patterns to plan
    plans,       \* the plans built so far, in the order of the patterns
    merged,      \* the plans after merging
    trees        \* the trees built so far, in the order of the patterns

compilation == <<setup, phase, patterns, plans, merged, trees>>

vars == <<compilation, selection>>

Init ==
    /\ setup \in Setups
    /\ phase = "preprocess"
    /\ patterns = setup.patterns
    /\ plans = <<>> /\ merged = <<>> /\ trees = <<>>
    /\ SelectionInit

\* One pass of transform_patterns; the loop ends after a pass without effect.
Preprocess ==
    LET next == Pass(setup.rules, patterns)
    IN  /\ phase = "preprocess"
        /\ patterns' = next
        /\ phase' = IF Modified(patterns, next) THEN "preprocess" ELSE "plan"
        /\ UNCHANGED <<setup, plans, merged, trees, selection>>

-----------------------------------------------------------------------------

Current == patterns[Len(plans) + 1]

NoStatistics == [rates |-> <<>>, rarity |-> <<>>]

\* get_default_statistics, for a pattern that was given none.
DefaultStatistics(p) ==
    LET events == DOMAIN EventNames(p.full)
    IN  [rates |-> [i \in events |-> 0], rarity |-> [i \in events |-> [j \in events |-> 1]]]

\* The statistics of a pattern are those of its events.  A pattern made by a rule
\* is handed the statistics of the one it was made from as they are, which fit it
\* only if there are none: setups with rules give none.
StatisticsOf(p) ==
    IF setup.stats = NoStatistics THEN DefaultStatistics(p)
    ELSE Reordered(setup.stats, setup.names, EventNames(p.full))

\* A rule that rewrites a pattern in place leaves its positive and negative
\* parts behind.  What becomes of such a pattern is not modelled.
InStep(p) == p = Pattern(p.full, p.condition)

Planning == phase = "plan" /\ Len(plans) < Len(patterns) /\ InStep(Current)

\* An event alone has no operands: the builder raises an exception.
FailPlanning ==
    /\ Planning /\ IsPrimitive(Current.full)
    /\ plans' = Append(plans, Failure)
    /\ UNCHANGED <<setup, phase, patterns, merged, trees, selection>>

StartPlanning ==
    /\ Planning /\ ~ IsPrimitive(Current.full)
    /\ StartSearch(ProblemOf(setup.builder, Current, StatisticsOf(Current)))
    /\ UNCHANGED compilation

ImprovePlan == Improve /\ UNCHANGED compilation

FinishPlanning ==
    LET improved == [kind |-> "improved", order |-> order, negation |-> setup.builder.negation]
        builder == IF Improves(problem) THEN improved ELSE setup.builder
    IN  /\ FinishSearch
        /\ plans' = Append(plans, BuildTreePlan(builder, Current, StatisticsOf(Current)))
        /\ UNCHANGED <<setup, phase, patterns, merged, trees>>

\* Only the plans of several patterns are merged.
MergeAll ==
    /\ phase = "plan" /\ Len(plans) = Len(patterns)
    /\ merged' = IF Len(plans) > 1 THEN MergePlans(setup.sharing, plans) ELSE plans
    /\ phase' = "build"
    /\ UNCHANGED <<setup, patterns, plans, trees, selection>>

\* __construct_multi_pattern_tree: the next tree, over the nodes there are.
BuildNextTree ==
    LET i == Len(trees) + 1
        known == UNION {Subtrees(trees[j]) : j \in DOMAIN trees}
    IN  /\ phase = "build" /\ i \in DOMAIN merged
        /\ ~ Fails(merged[i])
        /\ trees' = Append(trees, BuildTree(merged[i], patterns[i], known))
        /\ UNCHANGED <<setup, phase, patterns, plans, merged, selection>>

Next ==
    \/ Preprocess
    \/ FailPlanning
    \/ StartPlanning
    \/ ImprovePlan
    \/ FinishPlanning
    \/ MergeAll
    \/ BuildNextTree

Spec == Init /\ [][Next]_vars
=============================================================================
