--------------------------- MODULE TreePlanBuilding ---------------------------
(***************************************************************************)
(* From a pattern and its statistics to a tree plan (TreePlanBuilder and   *)
(* the negation algorithms): nested operators are planned first and stand  *)
(* in for their subtrees, negated events go on top, and the leaves get     *)
(* their index in the whole pattern.                                       *)
(***************************************************************************)
EXTENDS PlanAlgorithms

IsFlat(args) == \A i \in DOMAIN args : IsPrimitive(args[i])

\* __extract_positive_statistics
PositiveStatistics(stats, p) ==
    IF IsComposite(p.full)
    THEN Reordered(stats, EventNames(p.full), EventNames(PositivePart(p.full))) ELSE stats

\* __calculate_nested_selectivity
NestedRarity(stats, names, left, right) ==
    LET at(events) == [i \in DOMAIN events |-> Position(events[i], names) - 1]
    IN  RarityBetween(stats, at(left), at(right))

\* __extract_nested_statistics: the selectivities of the events of an argument,
\* and as many of the arrival rates from the front.
NestedStatistics(stats, names, arg) ==
    [rates |-> SubSeq(stats.rates, 1, Len(EventNames(arg))),
     rarity |-> ReorderedRarity(stats.rarity, names, EventNames(arg))]

-----------------------------------------------------------------------------
(* Negation *)

Places(p, which(_)) ==
    SelectSeq([i \in DOMAIN p.full.args |-> i - 1], LAMBDA i : which(p.full.args[i + 1]))

NegativeIndices(p) == Places(p, IsNegative)
PositiveIndices(p) == Places(p, LAMBDA a : ~ IsNegative(a))

\* A negation no positive operand follows, and any negation that is not in a
\* sequence, is unbounded.
Unbounded(p, index) ==
    \/ p.full.op # "SEQ"
    \/ \A i \in ToSet(PositiveIndices(p)) : i < index


\* The place in pattern p of the operand planned as number index: the positive
\* ones were planned first.
RestoredIndex(p, index) ==
    IF index >= Len(PositiveIndices(p))
    THEN NegativeIndices(p)[index - Len(PositiveIndices(p)) + 1]
    ELSE PositiveIndices(p)[index + 1]

\* __find_nested_sub_pattern: a nested node that is not negated has the index
\* it was planned under, which is read as a place in the pattern.
NestedSubPattern(p, index) ==
    LET place == IF index >= Len(PositiveIndices(p)) THEN RestoredIndex(p, index) ELSE index
        arg == p.full.args[place + 1]
        inner == IF IsNegative(arg) THEN arg.args[1] ELSE arg
    IN  SubPatternOf(IF inner.op = "KC" /\ ~ IsPrimitive(inner.args[1]) THEN inner.args[1]
                                                                        ELSE inner)

\* __adjust_tree_plan_indices.  An event has no operands to number, and the
\* index of a nested plan that was adjusted before may be out of range.
RECURSIVE AdjustForNegation(_, _)
AdjustForNegation(n, p) ==
    IF \/ IsPrimitive(p.full)
       \/ n.kind \in {"leaf", "nested"} /\ n.index >= Len(p.full.args)
    THEN Failure
    ELSE CASE n.kind = "leaf" -> LET index == RestoredIndex(p, n.index)
                                 IN  [n EXCEPT !.index = index, !.original = index]
           [] n.kind = "nested" ->
                [n EXCEPT !.kids = <<AdjustForNegation(n.kids[1], NestedSubPattern(p, n.index))>>]
           [] OTHER -> [n EXCEPT !.kids = [i \in DOMAIN n.kids |-> AdjustForNegation(n.kids[i], p)]]

\* The order in which the negations are put on the tree: as they come, or
\* bounded before unbounded, each from the most frequent to the least.
NegationOrder(algorithm, p, stats) ==
    LET bounded == SelectSeq(NegativeIndices(p), LAMBDA i : ~ Unbounded(p, i))
        unbounded == SelectSeq(NegativeIndices(p), LAMBDA i : Unbounded(p, i))
        byRate(seq) ==
            SetToSortSeq(ToSet(seq), LAMBDA i, j : \/ Rate(stats, i) > Rate(stats, j)
                                                   \/ Rate(stats, i) = Rate(stats, j) /\ i < j)
    IN  IF algorithm = "naive" THEN NegativeIndices(p)
                               ELSE byRate(bounded) \o byRate(unbounded)

\* The node under the k-th negation: a leaf, or what was planned for it.
UnderNegation(p, index, k, planned) ==
    LET arg == p.full.args[index + 1].args[1]
    IN  IF IsPrimitive(arg) THEN Leaf(Len(p.positive.args) + k - 1, arg.name)
        ELSE IF planned.node.kind = "kc"
        THEN [planned.node EXCEPT !.index = index, !.kids[1].index =
                    IF planned.node.kids[1].kind = "nested" THEN index ELSE @]
        ELSE Nested(index, planned.node, arg.args, planned.cost)

\* handle_pattern_negation, with the plans of the nested negations.
HandleNegation(algorithm, p, stats, tree, planned) ==
    LET order == NegationOrder(algorithm, p, stats)
        add(t, k) == Negative(p.positive.op, t,
                              UnderNegation(p, order[k], k, planned[order[k] + 1]),
                              Unbounded(p, order[k]))
    IN  IF p.negative = NoStructure THEN tree
        ELSE AdjustForNegation(FoldLeft(add, tree, [k \in DOMAIN order |-> k]), p)

-----------------------------------------------------------------------------
(* Nested operators *)

\* __init_tree_leaves, with the plans of the nested operators.
InitLeaf(arg, i, planned) ==
    LET plan == IF planned.node.kind = "nested" THEN planned.node.kids[1] ELSE planned.node
        nested == Nested(i - 1, plan, arg.args, planned.cost)
    IN  IF IsPrimitive(arg) THEN Leaf(i - 1, arg.name)
        ELSE IF IsUnary(arg) THEN KC(i - 1, nested) ELSE nested

\* The arrival rates as the positive operands are met: an event takes the
\* first that is left, a nested operator leaves them and gets one from its cost.
NestedRates(args, rates, costs) ==
    LET take(done, i) ==
            IF IsPrimitive(args[i])
            THEN [done EXCEPT !.taken = Append(@, Head(done.rates)), !.rates = Tail(@)]
            ELSE [done EXCEPT !.taken = Append(@, IF args[i].op = "KC" THEN 2 ^ costs[i]
                                                                       ELSE costs[i])]
    IN  FoldLeft(take, [taken |-> <<>>, rates |-> rates], [i \in DOMAIN args |-> i]).taken

\* The rates an operand finds: those not taken by an event before it.
RatesLeft(args, rates, i) ==
    SubSeq(rates, 1 + Cardinality({j \in 1..(i - 1) : IsPrimitive(args[j])}), Len(rates))

NoPlan == [node |-> Failure, cost |-> 0]

RECURSIVE CreateTopology(_, _, _)

\* An operand planned on its own, and what its plan costs.
PlanOf(builder, p, stats) ==
    LET node == CreateTopology(builder, p, stats)
    IN  [node |-> node, cost |-> PlanCost(node, stats)]

\* The problem __create_topology hands to the builder: the operators below the
\* pattern are planned first, and stand in for their events.
ProblemOf(builder, p, stats) ==
    LET args == p.positive.args
        positive == PositiveStatistics(stats, p)
        names == EventNames(p.positive)
        nested == [i \in DOMAIN args |->
            IF IsPrimitive(args[i]) THEN NoPlan
            ELSE PlanOf(builder, SubPatternOf(args[i]),
                         NestedStatistics([positive EXCEPT !.rates = RatesLeft(args, @, i)],
                                          names, args[i]))]
        flattened ==
            IF IsFlat(args) THEN positive
            ELSE [rates |-> NestedRates(args, positive.rates, [i \in DOMAIN args |-> nested[i].cost]),
                  rarity |-> [i \in DOMAIN args |-> [j \in DOMAIN args |->
                      NestedRarity(positive, names, EventNames(args[i]), EventNames(args[j]))]]]
    IN  [builder |-> builder, op |-> p.positive.op, stats |-> flattened,
         leaves |-> [i \in DOMAIN args |-> InitLeaf(args[i], i, nested[i])]]

\* __create_topology
CreateTopology(builder, p, stats) ==
    LET negated(arg) == IF arg.args[1].op = "KC" THEN arg ELSE arg.args[1]
        negative == [i \in DOMAIN p.full.args |->
            LET arg == p.full.args[i]
            IN  IF ~ IsNegative(arg) \/ IsPrimitive(arg.args[1]) THEN NoPlan
                ELSE PlanOf(builder, SubPatternOf(negated(arg)),
                             NestedStatistics(stats, EventNames(p.full), arg))]
    IN  HandleNegation(builder.negation, p, stats, Topology(ProblemOf(builder, p, stats)), negative)

-----------------------------------------------------------------------------
(* Indices in the whole pattern *)

\* __get_node_by_index: the children on the way to the node with an index, as
\* a sequence of at most one path.  The search does not go into nested nodes.
RECURSIVE PathTo(_, _)
PathTo(n, index) ==
    LET below(k) == LET path == PathTo(n.kids[k], index)
                    IN  [i \in DOMAIN path |-> <<k>> \o path[i]]
        order == IF n.kind = "negative" THEN <<2, 1>> ELSE [k \in DOMAIN n.kids |-> k]
        found == FlattenSeq([i \in DOMAIN order |-> below(order[i])])
    IN  IF n.kind = "leaf" THEN IF n.original = index THEN << <<>> >> ELSE <<>>
        ELSE IF n.kind = "nested" THEN IF n.index = index THEN << <<>> >> ELSE <<>>
        ELSE IF found = <<>> THEN <<>> ELSE <<found[1]>>

RECURSIVE NodeAt(_, _)
NodeAt(n, path) == IF path = <<>> THEN n ELSE NodeAt(n.kids[path[1]], Tail(path))

RECURSIVE PutAt(_, _, _)
PutAt(n, path, node) ==
    IF path = <<>> THEN node
    ELSE [n EXCEPT !.kids[path[1]] = PutAt(@, Tail(path), node)]

\* By how much an operator moves the operands after it.
EventsAdded(p) == Len(EventNames(p.full)) - 1

\* __adjust_indices
RECURSIVE AdjustIndices(_, _, _)
AdjustIndices(p, root, offset) ==
    LET step(done, i) ==
            LET paths == PathTo(done.root, i - 1)
                node == NodeAt(done.root, paths[1])
                arg == p.full.args[i]
                sub == SubPatternOf(IF IsNegative(arg) THEN arg.args[1] ELSE arg)
                subtree == AdjustIndices(sub, node.kids[1], node.index + done.offset)
            IN  IF paths = <<>> THEN done
                ELSE IF node.kind = "leaf"
                THEN [done EXCEPT !.root =
                         PutAt(@, paths[1], [node EXCEPT !.index = @ + done.offset])]
                ELSE [root |-> PutAt(done.root, paths[1], [node EXCEPT !.kids = <<subtree>>]),
                      offset |-> done.offset + EventsAdded(sub)]
    IN  IF IsPrimitive(p.full) THEN Failure
        ELSE FoldLeft(step, [root |-> root, offset |-> offset],
                      [i \in DOMAIN p.full.args |-> i]).root

\* A closure at the top of the pattern is put on last.
WithTopUnary(p, root) == IF IsUnary(p.positive) THEN KC(0, root) ELSE root

\* build_tree_plan, from the topology on.
Finish(p, topology) ==
    ApplyCondition(WithTopUnary(p, AdjustIndices(p, topology, 0)), p.condition).node

BuildTreePlan(builder, p, stats) == Finish(p, CreateTopology(builder, p, stats))

Fails(plan) == \E n \in Subtrees(plan) : n.kind = "failure"
=============================================================================
