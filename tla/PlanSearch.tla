------------------------------ MODULE PlanSearch ------------------------------
(***************************************************************************)
(* The searches for a cheap plan: the greedy evaluation order, dynamic     *)
(* programming over subsets and over intervals of an order, the moves of   *)
(* iterative improvement, and the invariants recorded while a plan is      *)
(* chosen (LeftDeepTreeBuilders, BushyTreeBuilders, IterativeImprovement,  *)
(* plan/invariant).                                                        *)
(*                                                                         *)
(* A problem is what _create_tree_topology is given: the builder, the      *)
(* operator of the pattern, a leaf for each operand, and the statistics.   *)
(* In pops a builder has the order in which the pop of a Python set        *)
(* prefers the operands.  Among equally cheap trees of dynamic programming *)
(* the code keeps the first it meets, the model an arbitrary one.          *)
(***************************************************************************)
EXTENDS PlanStatistics, FiniteSets

CONSTANTS
    Join(_, _, _),    \* _instantiate_binary_node: an operator and two trees
    PlainLeaf(_),     \* TreePlanLeafNode: a leaf without a name
    Cost(_, _)        \* get_plan_cost of the cost model: a tree under statistics

JoinOf(problem, left, right) == Join(problem.op, left, right)
CostOf(problem, tree) == Cost(tree, problem.stats)
OperandsOf(problem) == Operands(problem.stats)

SetOf(s) == {s[i] : i \in DOMAIN s}

\* _order_to_tree_topology
LeftDeep(op, order, leaves) ==
    LET upTo[k \in 1..Len(order)] ==
            IF k = 1 THEN leaves[order[1] + 1] ELSE Join(op, upTo[k - 1], leaves[order[k] + 1])
    IN  upTo[Len(order)]

PlainLeaves(stats) == [i \in DOMAIN stats.rates |-> PlainLeaf(i - 1)]

\* _get_order_cost: of a tree over plain leaves.
OrderCost(problem, order) ==
    CostOf(problem, LeftDeep(problem.op, order, PlainLeaves(problem.stats)))

-----------------------------------------------------------------------------
(* The greedy order *)

\* Fault: the runner-up is not the operand the new choice beats.
ConsiderForgetful(stats, order, best, i) ==
    LET factor == ChangeFactor(stats, order, i)
    IN  IF factor < best.factor THEN [best EXCEPT !.choice = i, !.factor = factor]
        ELSE IF factor < best.secondFactor \/ best.second = best.choice
        THEN [best EXCEPT !.second = i, !.secondFactor = factor]
        ELSE best

\* One iteration of the search for the next operand and the runner-up.
Consider(stats, order, best, i) ==
    LET factor == ChangeFactor(stats, order, i)
    IN  IF factor < best.factor
        THEN [choice |-> i, factor |-> factor,
              second |-> best.choice, secondFactor |-> best.factor]
        ELSE IF factor < best.secondFactor \/ best.second = best.choice
        THEN [choice |-> best.choice, factor |-> best.factor,
              second |-> i, secondFactor |-> factor]
        ELSE best

\* What the set of the operands that are left pops.
Nominee(pops, left) ==
    LET places == {k \in DOMAIN pops : pops[k] \in left}
    IN  pops[CHOOSE k \in places : \A l \in places : k <= l]

\* The others are considered from the least to the greatest.
NextOperand(stats, pops, order) ==
    LET left == Operands(stats) \ SetOf(order)
        nominee == Nominee(pops, left)
        factor == ChangeFactor(stats, order, nominee)
        start == [choice |-> nominee, factor |-> factor,
                  second |-> nominee, secondFactor |-> factor]
        upTo[k \in 0..Len(stats.rates)] ==
            IF k = 0 THEN start
            ELSE IF k - 1 \in left \ {nominee} THEN Consider(stats, order, upTo[k - 1], k - 1)
            ELSE upTo[k - 1]
    IN  upTo[Len(stats.rates)]

\* calculate_greedy_order of both greedy builders: the order and, for each of
\* its places, the operand that was chosen and the runner-up.
Greedy(stats, pops) ==
    LET chosen[k \in 0..Len(stats.rates)] ==
            IF k = 0 THEN [order |-> <<>>, invariants |-> <<>>]
            ELSE LET next == NextOperand(stats, pops, chosen[k - 1].order)
                 IN  [order |-> Append(chosen[k - 1].order, next.choice),
                      invariants |-> Append(chosen[k - 1].invariants,
                                            [left |-> next.choice, right |-> next.second])]
    IN  chosen[Len(stats.rates)]

\* GreedyTreeInvariants.is_invariants_violated; the last one is not tested.
GreedyViolated(invariants, stats) ==
    \E i \in 1..(Len(invariants) - 1) :
        LET before == [j \in 1..(i - 1) |-> invariants[j].left]
        IN  ChangeFactor(stats, before, invariants[i].left)
                > ChangeFactor(stats, before, invariants[i].right)

-----------------------------------------------------------------------------
(* Bushy trees *)

Least(items) == CHOOSE i \in items : \A j \in items : i <= j

\* Fault: one operand is always split off.
FirstPartsOfOne(items) == {{Least(items)}}

\* get_all_disjoint_sets: the first parts, which have the first operand.
FirstParts(items) == {part \in SUBSET items : Least(items) \in part /\ part # items}

Cheapest(problem, trees) ==
    CHOOSE t \in trees : \A u \in trees : CostOf(problem, t) <= CostOf(problem, u)

\* DynamicProgrammingBushyTreeBuilder: the best tree of each subset.
BestTrees(problem) ==
    LET best[items \in (SUBSET OperandsOf(problem)) \ {{}}] ==
            IF Cardinality(items) = 1 THEN problem.leaves[Least(items) + 1]
            ELSE LET trees == {JoinOf(problem, best[part], best[items \ part]) :
                                    part \in FirstParts(items)}
                 IN  Cheapest(problem, trees)
    IN  best

BushyTree(problem) == BestTrees(problem)[OperandsOf(problem)]

\* One more split.  The second best is the one that the invariant-aware builder
\* records, first the first split.
ConsiderSplit(problem, done, first, tree, place) ==
    IF CostOf(problem, tree) < CostOf(problem, done.best)
    THEN [best |-> tree, second |-> done.best, place |-> place]
    ELSE IF CostOf(problem, tree) < CostOf(problem, done.second) \/ done.second = first
    THEN [best |-> done.best, second |-> tree, place |-> done.place]
    ELSE done

\* The splits of an interval, by how many leaves are on the left.
BestSplit(problem, splits) ==
    LET upTo[k \in 1..Len(splits)] ==
            IF k = 1 THEN [best |-> splits[1], second |-> splits[1], place |-> 1]
            ELSE ConsiderSplit(problem, upTo[k - 1], splits[1], splits[k], k)
    IN  upTo[Len(splits)]

Intervals(n) == {v \in (1..n) \X (1..n) : v[1] <= v[2]}

\* ZStreamTreeBuilder: the best tree of each interval of the order, the second
\* best, and the intervals of the subtrees of the best.
IntervalTrees(problem, order) ==
    LET trees[v \in Intervals(Len(order))] ==
            IF v[1] = v[2]
            THEN LET leaf == problem.leaves[order[v[1]] + 1]
                 IN  [best |-> leaf, second |-> leaf, below |-> {v}]
            ELSE LET split(k) == JoinOf(problem, trees[<<v[1], v[1] + k - 1>>].best,
                                                 trees[<<v[1] + k, v[2]>>].best)
                     done == BestSplit(problem, [k \in 1..(v[2] - v[1]) |-> split(k)])
                 IN  [best |-> done.best, second |-> done.second,
                      below |-> {v} \cup trees[<<v[1], v[1] + done.place - 1>>].below
                                    \cup trees[<<v[1] + done.place, v[2]>>].below]
    IN  trees

TrivialOrder(stats) == [i \in DOMAIN stats.rates |-> i - 1]

\* _get_initial_order of the two ZStream builders.
ZStreamOrder(problem) ==
    IF problem.builder.kind = "zstream" THEN TrivialOrder(problem.stats)
    ELSE Greedy(problem.stats, problem.builder.pops).order

ZStreamTree(problem) ==
    LET order == ZStreamOrder(problem)
    IN  IntervalTrees(problem, order)[<<1, Len(order)>>].best

WithPlainLeaves(problem) ==
    [builder |-> problem.builder, op |-> problem.op, stats |-> problem.stats,
     leaves |-> PlainLeaves(problem.stats)]

\* The invariants of a ZStream plan of plain leaves in the pattern's order: one
\* for each of its subtrees of at least three leaves.
ZStreamInvariants(problem) ==
    LET order == TrivialOrder(problem.stats)
        trees == IntervalTrees(WithPlainLeaves(problem), order)
    IN  {[left |-> trees[v].best, right |-> trees[v].second] :
            v \in {w \in trees[<<1, Len(order)>>].below : w[2] - w[1] > 1}}

\* ZStreamTreeInvariants.is_invariants_violated
ZStreamViolated(invariants, stats) ==
    \E v \in invariants : Cost(v.left, stats) > Cost(v.right, stats)

-----------------------------------------------------------------------------
(* Iterative improvement: places are numbered from 1 *)

SwapMoves(n) == {m \in (1..n) \X (1..n) : m[1] <= m[2]}

CircleMoves(n) ==
    {m \in (1..n) \X (1..n) \X (1..n) : m[1] < m[2] /\ m[1] < m[3] /\ m[2] # m[3]}

Moved(order, move) ==
    IF Len(move) = 2
    THEN [order EXCEPT ![move[1]] = order[move[2]], ![move[2]] = order[move[1]]]
    ELSE [order EXCEPT ![move[1]] = order[move[2]], ![move[2]] = order[move[3]],
                       ![move[3]] = order[move[1]]]

\* Fault: a swap is not undone.
ReversedCircle(move) ==
    IF Len(move) = 2 THEN <<move[1], move[1]>> ELSE <<move[3], move[1], move[2]>>

\* The move back.  A circle is not undone by it: turning three places once
\* more in the same direction takes them one further.
Reversed(move) ==
    IF Len(move) = 2 THEN <<move[2], move[1]>> ELSE <<move[3], move[1], move[2]>>
=============================================================================
